---------------------------- MODULE ReaderProofs ----------------------------
(***************************************************************************)
(* Proofs about Reader and Buffers, for all texts and capacities.          *)
(***************************************************************************)
EXTENDS Reader, FiniteSetTheorems, WellFoundedInduction, TLAPS

-----------------------------------------------------------------------------
(* Numbers, finite sets of them, and functions defined from one to the next. *)

LEMMA Least ==
    ASSUME NEW U \in SUBSET Nat, U # {}
    PROVE  \E x \in U : \A y \in U : x <= y
<1> DEFINE R == OpToRel(<, Nat)
<1>1. IsWellFoundedOn(R, Nat)
  BY NatLessThanWellFounded
<1>2. \A x, y \in Nat : x < y => <<x, y>> \in R
  BY DEF OpToRel
<1> HIDE DEF R
<1>3. PICK x \in U : \A y \in U : ~ (<<y, x>> \in R)
  <2>1. \E x \in U : \A y \in U : ~ (<<y, x>> \in R)
    BY <1>1, WFMin
  <2> QED
    BY <2>1
<1>4. ASSUME NEW y \in U
      PROVE  x <= y
  <2>1. x \in Nat /\ y \in Nat /\ ~(y < x)
    BY <1>2, <1>3
  <2> QED
    BY <2>1
<1> QED
  BY <1>4

LEMMA CountNext ==
    ASSUME NEW n \in Nat, NEW S \in SUBSET (1..n)
    PROVE  /\ IsFiniteSet(S) /\ Cardinality(S) \in 0..n
           /\ Cardinality(S \cup {n + 1}) = Cardinality(S) + 1
<1>1. 1 \in Int /\ n \in Int
  OBVIOUS
<1>2. IsFiniteSet(1..n) /\ Cardinality(1..n) = n
  BY <1>1, FS_Interval
<1>3. IsFiniteSet(S) /\ Cardinality(S) <= n
  BY <1>2, FS_Subset
<1>4. Cardinality(S) \in Nat
  BY <1>3, FS_CardinalityType
<1>5. n + 1 \notin S
  OBVIOUS
<1> QED
  BY <1>3, <1>4, <1>5, FS_AddElement

\* Induction, over a set of numbers in place of a predicate.
LEMMA Upward ==
    ASSUME NEW n \in Nat, NEW P, 0 \in P, \A i \in 1..n : i - 1 \in P => i \in P
    PROVE  \A i \in 0..n : i \in P
<1> DEFINE Bad == {m \in 0..n : m \notin P}
<1> SUFFICES ASSUME Bad # {} PROVE FALSE
  OBVIOUS
<1>1. PICK m \in Bad : \A k \in Bad : m <= k
  <2>1. Bad \in SUBSET Nat
    OBVIOUS
  <2> HIDE DEF Bad
  <2> QED BY <2>1, Least
<1>2. m \in 1..n /\ m - 1 \in 0..n /\ ~(m <= m - 1)
  OBVIOUS
<1>3. m - 1 \in P
  BY <1>1, <1>2
<1> QED BY <1>2, <1>3

\* A function from one number to the next exists.
Stepwise(S, s, n, step) ==
    \E g \in [0..n -> S] : g[0] = s /\ \A i \in 1..n : g[i] = step[i][g[i - 1]]
LEMMA Recursion ==
    ASSUME NEW S, NEW s \in S, NEW n \in Nat, NEW step \in [1..n -> [S -> S]]
    PROVE  Stepwise(S, s, n, step)
<1> DEFINE Upto(g, m) == g \in [0..m -> S] /\ g[0] = s /\ \A i \in 1..m : g[i] = step[i][g[i - 1]]
           P == {m \in 0..n : \E g : Upto(g, m)}
<1>1. 0 \in P
  <2>1. Upto([i \in 0..0 |-> s], 0)
    OBVIOUS
  <2>2. 0 \in 0..n
    OBVIOUS
  <2> HIDE DEF Upto
  <2> QED BY <2>1, <2>2
<1>2. ASSUME NEW m \in 1..n, m - 1 \in P PROVE m \in P
  <2>1. PICK g : Upto(g, m - 1)
    BY <1>2
  <2> DEFINE h == [i \in 0..m |-> IF i = m THEN step[m][g[m - 1]] ELSE g[i]]
  <2>2. step[m] \in [S -> S] /\ g[m - 1] \in S
    BY <2>1
  <2>3. h \in [0..m -> S]
    BY <2>1, <2>2
  <2>4. h[0] = s
    BY <2>1
  <2>5. ASSUME NEW i \in 1..m PROVE h[i] = step[i][h[i - 1]]
    <3>1. CASE i = m
      BY <3>1
    <3>2. CASE i # m
      <4>1. i \in 1..m - 1 /\ h[i] = g[i] /\ h[i - 1] = g[i - 1]
        BY <3>2
      <4> QED BY <4>1, <2>1
    <3> QED BY <3>1, <3>2
  <2>6. Upto(h, m)
    <3> HIDE DEF h
    <3> QED BY <2>3, <2>4, <2>5
  <2>7. m \in 0..n
    OBVIOUS
  <2> HIDE DEF Upto, h
  <2> QED BY <2>6, <2>7
<1>3. n \in P
  <2> HIDE DEF P
  <2>1. \A i \in 0..n : i \in P
    BY <1>1, <1>2, Upward
  <2> QED BY <2>1
<1> QED BY <1>3 DEF Stepwise

\* A quotation mark is another character; the definition is left unexpanded below.
LEMMA QuoteIs == Quote \notin {"(", ")", ";", "\\", "\n", " ", "n", EOF}
BY DEF Quote, EOF

-----------------------------------------------------------------------------
(* Buffers: what sb_reserve answers.                                       *)

Half == 2^(Width - 1)

LEMMA RoundsOf ==
    ASSUME NEW from \in 0..2^Width - 1
    PROVE  /\ Rounds(from) \in [0..2^Width -> 0..2^Width - 1]
           /\ Rounds(from)[0] = from
           /\ \A k \in 1..2^Width : Rounds(from)[k] = (2 * Rounds(from)[k - 1]) % 2^Width
<1> DEFINE M == 2^Width
           S == 0..M - 1
           step == [i \in 1..M |-> [x \in S |-> (2 * x) % M]]
           after == Rounds(from)
           e(g, k) == IF k = 0 THEN from ELSE (2 * g[k - 1]) % M
<1>1. M \in Nat /\ M > 0 /\ \A k \in 1..M : k \in 0..M /\ k # 0 /\ k - 1 \in 0..M
  BY BuffersAssumption
<1>2. \A x \in S : (2 * x) % M \in S
  <2> HIDE DEF M
  <2> QED BY <1>1
<1>3. step \in [1..M -> [S -> S]]
  <2> HIDE DEF M, S
  <2> QED BY <1>2
<1>4. PICK g \in [0..M -> S] : g[0] = from /\ \A i \in 1..M : g[i] = step[i][g[i - 1]]
  <2>1. from \in S
    OBVIOUS
  <2>2. M \in Nat
    BY <1>1
  <2> HIDE DEF M, S, step
  <2>3. Stepwise(S, from, M, step)
    BY <1>3, <2>1, <2>2, Recursion
  <2> QED BY <2>3 DEF Stepwise
<1>5. \A i \in 0..M : g[i] = e(g, i)
  <2> HIDE DEF M, S
  <2>1. \A i \in 1..M : g[i] = (2 * g[i - 1]) % M
    <3>1. \A i \in 1..M : g[i - 1] \in S
      BY <1>1, <1>4
    <3>2. \A i \in 1..M : \A x \in S : step[i][x] = (2 * x) % M
      OBVIOUS
    <3> HIDE DEF step
    <3> QED BY <1>4, <3>1, <3>2
  <2>2. \A i \in 0..M : i = 0 \/ i \in 1..M
    BY <1>1
  <2> HIDE DEF step
  <2> QED BY <1>4, <2>1, <2>2
<1>6. g = [k \in 0..M |-> e(g, k)]
  <2> HIDE DEF M, S, e
  <2>1. g = [k \in 0..M |-> g[k]]
    OBVIOUS
  <2> QED BY <1>5, <2>1
<1>7. after = [k \in 0..M |-> e(after, k)]
  BY <1>6 DEF Rounds
<1>8. \A k \in 0..M : after[k] = e(after, k)
  <2> HIDE DEF M, after, e
  <2> QED BY <1>7
<1>9. after[0] = from /\ \A k \in 1..M : after[k] = (2 * after[k - 1]) % M
  <2> HIDE DEF M, after, S
  <2>1. 0 \in 0..M
    BY <1>1
  <2>2. \A k \in 1..M : after[k] = e(after, k)
    BY <1>1, <1>8
  <2> QED BY <1>1, <1>8, <2>1, <2>2
<1>10. \A k \in 0..M : after[k] \in S
  <2> DEFINE P == {k \in 0..M : after[k] \in S}
  <2>1. after[0] = from /\ \A k \in 1..M : after[k] = (2 * after[k - 1]) % M
    BY <1>9
  <2>2. 0 \in P
    <3> HIDE DEF after
    <3> QED BY <1>1, <2>1
  <2>3. \A k \in 1..M : k - 1 \in P => k \in P
    <3> HIDE DEF after, M, S
    <3> QED BY <1>1, <1>2, <2>1
  <2> HIDE DEF P, M
  <2>4. \A k \in 0..M : k \in P
    BY <1>1, <2>2, <2>3, Upward
  <2> QED BY <2>4 DEF P
<1>11. after \in [0..M -> S]
  <2> HIDE DEF M, S, after, e
  <2> QED BY <1>7, <1>10
<1> QED
  <2>1. /\ after \in [0..M -> S] /\ after[0] = from
        /\ \A k \in 1..M : after[k] = (2 * after[k - 1]) % M
    <3> HIDE DEF M, S, after
    <3> QED BY <1>11, <1>9
  <2> QED BY <2>1

\* The loop of sb_reserve meets the need, or there is no doubling that could.
LEMMA DoubledFits ==
    ASSUME NEW cap \in 0..2^Width - 2, NEW need \in 1..2^Width - 1
    PROVE  /\ Doubled(cap, need) \in 0..2^Width - 2
           /\ Doubled(cap, need) = Hangs => need > Half
           /\ Doubled(cap, need) # Hangs => Doubled(cap, need) >= need
<1> DEFINE M == 2^Width
           from == IF cap = 0 THEN FirstChars ELSE cap
           after == Rounds(from)
           enough == {k \in DOMAIN after : after[k] >= need}
           k == CHOOSE k \in enough : \A j \in enough : k <= j
           D == Doubled(cap, need)
<1>1. M \in Nat /\ Half \in Nat /\ M = 2 * Half
  BY BuffersAssumption DEF Half
<1>2. from \in 1..M - 2
  BY BuffersAssumption
<1>3. /\ after \in [0..M -> 0..M - 1] /\ after[0] = from
      /\ \A j \in 1..M : after[j] = (2 * after[j - 1]) % M
  <2>1. from \in 0..2^Width - 1
    BY <1>1, <1>2
  <2> HIDE DEF from
  <2> QED BY <2>1, RoundsOf
<1>4. D = IF enough = {} THEN Hangs ELSE after[k]
  BY DEF Doubled, FirstOf
<1>5. CASE enough # {}
  <2>1. k \in enough
    <3>1. enough \in SUBSET Nat
      BY <1>1, <1>3
    <3>2. \E x \in enough : \A y \in enough : x <= y
      <4> HIDE DEF enough
      <4> QED BY <1>5, <3>1, Least
    <3> HIDE DEF enough
    <3> QED BY <3>2
  <2>2. after[k] >= need /\ k \in 0..M /\ D = after[k]
    <3> HIDE DEF k, D
    <3> QED BY <1>3, <1>4, <1>5, <2>1
  <2>3. after[k] \in 0..M - 2
    <3> HIDE DEF k, after, M
    <3>1. CASE k = 0
      BY <1>2, <1>3, <3>1
    <3>2. CASE k # 0
      <4>1. k \in 1..M /\ k - 1 \in 0..M
        BY <1>1, <2>2, <3>2
      <4>2. after[k - 1] \in 0..M - 1 /\ after[k] = (2 * after[k - 1]) % M
        BY <1>3, <4>1
      <4>3. \A y \in 0..M - 1 : (2 * y) % M = IF 2 * y < M THEN 2 * y ELSE 2 * y - M
        BY <1>1
      <4>4. after[k] = IF 2 * after[k - 1] < M THEN 2 * after[k - 1] ELSE 2 * after[k - 1] - M
        BY <4>2, <4>3
      <4> QED BY <1>1, <4>2, <4>4
    <3> QED BY <3>1, <3>2
  <2>4. after[k] # 0
    <3> HIDE DEF k, after
    <3> QED BY <2>2, <2>3
  <2> HIDE DEF k, after, D, M
  <2>5. D \in 0..M - 2 /\ D # 0 /\ D >= need
    BY <2>2, <2>3, <2>4
  <2> QED BY <2>5 DEF D, M, Hangs
<1>6. CASE enough = {}
  <2>1. D = 0
    <3> HIDE DEF D
    <3> QED BY <1>4, <1>6 DEF Hangs
  <2>2. ASSUME need <= Half PROVE FALSE
    <3> HIDE DEF after, M
    <3>1. \A j \in 0..M : after[j] < Half
      <4>1. \A j \in 0..M : j \in DOMAIN after /\ after[j] \in 0..M - 1
        BY <1>3
      <4>2. \A j \in 0..M : ~(after[j] >= need)
        BY <1>6, <4>1
      <4> QED BY <1>1, <2>2, <4>1, <4>2
    <3> DEFINE P == {j \in 0..M : after[j] >= j + 1}
    <3>2. 0 \in P
      BY <1>1, <1>2, <1>3
    <3>3. ASSUME NEW j \in 1..M, j - 1 \in P PROVE j \in P
      <4>1. j - 1 \in 0..M /\ after[j - 1] \in 0..M - 1 /\ after[j - 1] >= j /\ after[j - 1] < Half
        BY <1>1, <1>3, <3>1, <3>3
      <4>2. \A y \in 0..M - 1 : y < Half => (2 * y) % M = 2 * y
        BY <1>1
      <4>3. after[j] = 2 * after[j - 1]
        BY <1>3, <4>1, <4>2
      <4>4. after[j] >= j + 1 /\ j \in 0..M
        BY <1>1, <4>1, <4>3
      <4> QED BY <4>4
    <3>4. M \in P
      <4> HIDE DEF P
      <4>1. \A j \in 0..M : j \in P
        BY <1>1, <3>2, <3>3, Upward
      <4> QED BY <1>1, <4>1
    <3>5. after[M] >= M + 1 /\ after[M] \in 0..M - 1
      BY <1>1, <1>3, <3>4
    <3> QED BY <1>1, <3>5
  <2> HIDE DEF D
  <2> QED BY <1>1, <1>2, <2>1, <2>2 DEF D, Hangs
<1> QED BY <1>5, <1>6

Bufs == [text : Seq(Chars), cap : 0..2^Width - 2]

\* A character finds room, or the loop that looks for it does not end.
LEMMA AppendFits ==
    ASSUME NEW b \in Bufs, Holds(b), NEW ch \in Chars
    PROVE  /\ Append1(b, ch) \in Bufs
           /\ Append1(b, ch).text = Append(b.text, ch)
           /\ Append1(b, ch).cap # Hangs => Holds(Append1(b, ch))
           /\ Append1(b, ch).cap = Hangs => Len(b.text) + 2 > Half
<1> DEFINE M == 2^Width
           need == Len(b.text) + 2
           cap == IF need <= b.cap THEN b.cap ELSE Doubled(b.cap, need)
<1>1. M \in Nat /\ M >= 4
  <2>1. Half \in Nat /\ M \in Nat /\ M = 2 * Half /\ 1 <= M - 2
    BY BuffersAssumption DEF Half
  <2> HIDE DEF M
  <2> QED BY <2>1
<1>2. Len(b.text) \in Nat /\ b.text \in Seq(Chars) /\ b.cap \in 0..M - 2
  BY DEF Bufs
<1>3. Len(b.text) + 1 <= M - 2
  <2> HIDE DEF M
  <2>1. CASE b = EmptyBuf
    <3>1. Len(b.text) = 0
      BY <2>1 DEF EmptyBuf
    <3> QED BY <1>1, <3>1
  <2> QED BY <1>1, <1>2, <2>1 DEF Holds
<1>4. need \in 1..M - 1 /\ need % M = need
  <2> HIDE DEF M
  <2>1. need \in 1..M - 1
    BY <1>1, <1>2, <1>3
  <2>2. \A y \in 1..M - 1 : y % M = y
    BY <1>1
  <2> QED BY <2>1, <2>2
<1>5. Append1(b, ch) = [text |-> Append(b.text, ch), cap |-> cap]
  BY <1>4 DEF Append1, CharNeeds
<1>6. cap \in 0..M - 2 /\ (cap = Hangs => need > Half) /\ (cap # Hangs => cap >= need)
  <2>1. CASE need <= b.cap
    BY <1>1, <1>2, <1>4, <2>1 DEF Hangs
  <2>2. CASE ~(need <= b.cap)
    <3> HIDE DEF need
    <3> QED BY <1>2, <1>4, <2>2, DoubledFits
  <2> QED BY <2>1, <2>2
<1>7. Len(Append(b.text, ch)) = Len(b.text) + 1 /\ Append(b.text, ch) \in Seq(Chars)
  BY <1>2
<1> HIDE DEF cap, M
<1>8. Append1(b, ch) \in Bufs
  BY <1>5, <1>6, <1>7 DEF Bufs, M
<1>9. cap # Hangs => Holds(Append1(b, ch))
  BY <1>2, <1>5, <1>6, <1>7, <1>1 DEF Holds
<1> QED BY <1>5, <1>6, <1>8, <1>9

-----------------------------------------------------------------------------
(* The language of the texts.                                              *)

ScanStates == [in : {"code", "comment", "string", "escape"}, depth : Nat]

LEMMA ScanTyped ==
    ASSUME NEW x \in ScanStates, NEW ch
    PROVE  Scan(x, ch) \in ScanStates
<1>1. x.depth \in Nat /\ (x.depth # 0 => x.depth - 1 \in Nat) /\ x.depth + 1 \in Nat
  BY DEF ScanStates
<1>2. ASSUME x.depth # 0 PROVE ScanCode(x, ch) \in ScanStates
  <2>1. CASE ch = ")"
    <3>1. [x EXCEPT !.depth = @ - 1] \in ScanStates
      BY <1>1, <1>2 DEF ScanStates
    <3> QED BY <2>1, <3>1 DEF ScanCode
  <2>2. CASE ch # ")"
    BY <1>1, <2>2 DEF ScanStates, ScanCode
  <2> QED BY <2>1, <2>2
<1>3. CASE x.depth = 0
  BY <1>3 DEF Scan
<1>4. CASE x.depth # 0 /\ x.in = "code"
  BY <1>2, <1>4 DEF Scan
<1>5. CASE x.depth # 0 /\ x.in # "code"
  <2>1. \A i \in {"code", "comment", "string", "escape"} : [x EXCEPT !.in = i] \in ScanStates
    BY DEF ScanStates
  <2>2. x.in \in {"comment", "string", "escape"}
    BY <1>5 DEF ScanStates
  <2> QED BY <1>5, <2>1, <2>2 DEF Scan
<1> QED BY <1>3, <1>4, <1>5

LEMMA ScansOf ==
    ASSUME src \in Seq(Chars)
    PROVE  /\ Scans \in [0..Len(src) -> ScanStates]
           /\ Scans[0] = [in |-> "code", depth |-> 1]
           /\ \A i \in 1..Len(src) : Scans[i] = Scan(Scans[i - 1], src[i])
<1> DEFINE n == Len(src)
           s == [in |-> "code", depth |-> 1]
           step == [i \in 1..n |-> [x \in ScanStates |-> Scan(x, src[i])]]
           e(g, i) == IF i = 0 THEN s ELSE Scan(g[i - 1], src[i])
<1>1. n \in Nat /\ \A i \in 1..n : i \in 0..n /\ i # 0 /\ i - 1 \in 0..n
  OBVIOUS
<1>2. s \in ScanStates
  BY DEF ScanStates
<1>3. step \in [1..n -> [ScanStates -> ScanStates]]
  BY ScanTyped
<1>4. PICK g \in [0..n -> ScanStates] : g[0] = s /\ \A i \in 1..n : g[i] = step[i][g[i - 1]]
  <2>1. n \in Nat
    BY <1>1
  <2> HIDE DEF n, s, step
  <2>2. Stepwise(ScanStates, s, n, step)
    BY <1>2, <1>3, <2>1, Recursion
  <2> QED BY <2>2 DEF Stepwise
<1>5. \A i \in 0..n : g[i] = e(g, i)
  <2>1. \A i \in 1..n : g[i] = Scan(g[i - 1], src[i])
    <3>1. \A i \in 1..n : g[i - 1] \in ScanStates
      BY <1>1, <1>4
    <3>2. \A i \in 1..n : \A x \in ScanStates : step[i][x] = Scan(x, src[i])
      OBVIOUS
    <3> HIDE DEF step
    <3> QED BY <1>4, <3>1, <3>2
  <2>2. \A i \in 0..n : i = 0 \/ i \in 1..n
    BY <1>1
  <2> HIDE DEF step, s
  <2> QED BY <1>4, <2>1, <2>2
<1>6. g = [i \in 0..n |-> e(g, i)]
  <2> HIDE DEF n, e
  <2>1. g = [i \in 0..n |-> g[i]]
    OBVIOUS
  <2> QED BY <1>5, <2>1
<1>7. Scans = [i \in 0..n |-> e(Scans, i)]
  BY <1>6 DEF Scans
<1>8. \A i \in 0..n : Scans[i] = e(Scans, i)
  <2> HIDE DEF n, e
  <2> QED BY <1>7
<1>9. Scans[0] = s /\ \A i \in 1..n : Scans[i] = Scan(Scans[i - 1], src[i])
  <2> HIDE DEF n, s
  <2>1. 0 \in 0..n
    BY <1>1
  <2>2. \A i \in 1..n : Scans[i] = e(Scans, i)
    BY <1>1, <1>8
  <2> QED BY <1>1, <1>8, <2>1, <2>2
<1>10. \A i \in 0..n : Scans[i] \in ScanStates
  <2> DEFINE P == {i \in 0..n : Scans[i] \in ScanStates}
  <2>1. 0 \in P
    BY <1>1, <1>2, <1>9
  <2>2. \A i \in 1..n : i - 1 \in P => i \in P
    <3> HIDE DEF n, s
    <3> QED BY <1>1, <1>9, ScanTyped
  <2> HIDE DEF P, n
  <2>3. \A i \in 0..n : i \in P
    BY <1>1, <2>1, <2>2, Upward
  <2> QED BY <2>3 DEF P
<1>11. Scans \in [0..n -> ScanStates]
  <2> HIDE DEF n, e
  <2> QED BY <1>7, <1>10
<1> QED BY <1>9, <1>11

\* What is outside of the top level stays there.
LEMMA Outside ==
    ASSUME src \in Seq(Chars), NEW i \in 0..Len(src), Scans[i].depth = 0
    PROVE  Scans[Len(src)].depth = 0
<1> DEFINE P == {k \in 0..Len(src) - i : Scans[i + k].depth = 0}
<1>1. 0 \in P
  OBVIOUS
<1>2. ASSUME NEW k \in 1..Len(src) - i, k - 1 \in P PROVE k \in P
  <2>1. i + k \in 1..Len(src) /\ i + k - 1 = i + (k - 1)
    OBVIOUS
  <2>2. Scans[i + k] = Scan(Scans[i + (k - 1)], src[i + k])
    BY <2>1, ScansOf
  <2>3. Scans[i + k] = Scans[i + (k - 1)]
    BY <1>2, <2>2 DEF Scan
  <2> QED BY <1>2, <2>3
<1>3. Len(src) - i \in P
  <2>1. Len(src) - i \in Nat
    OBVIOUS
  <2> HIDE DEF P
  <2>2. \A k \in 0..Len(src) - i : k \in P
    BY <1>1, <1>2, <2>1, Upward
  <2> QED BY <2>1, <2>2
<1> QED BY <1>3

-----------------------------------------------------------------------------
(* The inductive invariant.                                                *)

NodeSet == [kind : {"list", "atom", "string"}, start : Nat, line : Nat, col : Nat, end : Nat,
            text : Seq(Chars), items : Seq(Nat), array : [cap : Int, room : Nat]]

Typed ==
    /\ src \in Seq(Chars) /\ pos \in 1..Len(src) + 1 /\ line \in 1..pos /\ col \in 1..pos
    /\ mode \in {"skip", "comment", "atom", "string", "escape"} \cup Ended
    /\ token \in [start : Nat, line : Nat, col : Nat] /\ token.start \in 1..pos
    /\ buf \in Bufs
    /\ nodes \in Seq(NodeSet) /\ open \in Seq(Nat)

\* The lists that are open: each within the one before.
OpenLists ==
    /\ open # <<>> /\ open[1] = 1
    /\ \A i \in DOMAIN open : open[i] \in DOMAIN nodes /\ nodes[open[i]].kind = "list"
    /\ \A i, j \in DOMAIN open : i < j => open[i] < open[j]
    /\ \A i \in DOMAIN nodes : nodes[i].end = 0 <=> i \in Range(open)

\* How far the text is in the tree.
Edge == IF mode \in {"skip", "comment"} THEN pos ELSE token.start

\* Nodes stand in the order they begin in, and a leaf ends before the next one begins.
Places ==
    /\ nodes[1].start = 1
    /\ \A i \in DOMAIN nodes :
          /\ nodes[i].start \in 1..Edge /\ (i # 1 => nodes[i].start < Edge)
          /\ nodes[i].end # 0 => nodes[i].start < nodes[i].end /\ nodes[i].end <= Edge
    /\ \A i, j \in DOMAIN nodes : i < j =>
          /\ i # 1 => nodes[i].start < nodes[j].start
          /\ nodes[i].kind # "list" => nodes[i].end <= nodes[j].start

AtomAt(k) == k \in DOMAIN src /\ src[k] \in {"n", "\\"}

\* Character i of a string that begins at q stands for one.
Speaks(q, i) == src[i] = "\\" => IsEscaped(q, i)

\* A text is what the string that begins at q says up to i.
Heard(q, i, text) ==
    /\ Len(text) = Cardinality(Spoken(q, i))
    /\ \A k \in Spoken(q, i) : text[Cardinality(Spoken(q, k))] = Says(q, k)

\* What was read from q to p - 1 is the first part of an atom or of a string.
AtomRead(q, p, text) ==
    /\ AtomAt(q) /\ (q # 1 => ~AtomAt(q - 1))
    /\ \A k \in q..p - 1 : AtomAt(k)
    /\ text = SubSeq(src, q, p - 1)
StringRead(q, p, text, loop) ==
    /\ q < p /\ src[q] = Quote
    /\ IsEscaped(q, p) <=> loop = "escape"
    /\ \A k \in q + 1..p - 1 : src[k] = Quote => IsEscaped(q, k)
    /\ Heard(q, p - 1, text)

\* The token being read is what the buffer says.
TokenIs(loop, p, q, text) ==
    /\ loop = "skip" /\ AtomAt(p) => p = 1 \/ ~AtomAt(p - 1)
    /\ loop = "atom" => AtomRead(q, p, text)
    /\ loop \in {"string", "escape"} => StringRead(q, p, text, loop)
TokenRead == TokenIs(mode, pos, token.start, buf.text)

\* An atom could not have been longer; a leaf holds what the text says.
AtomWhole(n) ==
    /\ \A k \in n.start..n.end - 1 : src[k] \in {"n", "\\"}
    /\ n.start # 1 => src[n.start - 1] \notin {"n", "\\"}
    /\ n.end <= Len(src) => src[n.end] \notin {"n", "\\"}
StringText(n, last) ==
    /\ src[n.start] = Quote /\ src[last] = Quote
    /\ \A k \in n.start + 1..last : src[k] = Quote => (k = last <=> ~IsEscaped(n.start, k))
    /\ Heard(n.start, last - 1, n.text)
LeafRight(n) ==
    /\ n.kind = "atom" => AtomWhole(n)
    /\ n.kind # "list" =>
          \/ n.kind = "atom" /\ n.text = SubSeq(src, n.start, n.end - 1)
          \/ StringText(n, n.end - 1)
LeavesRight == \A i \in DOMAIN nodes : LeafRight(nodes[i])

\* What lies outside of the tree is blank or commented out, and so is what is being skipped.
Bare(k, i, cov) == \A c \in k..i : c \notin cov
Passed(i, cov) ==
    \/ i \in cov \/ src[i] \in Spaces
    \/ \E k \in 1..i : src[k] = ";" /\ SameLine(k, i) /\ Bare(k, i, cov)
Commented(cov) == \E k \in 1..pos - 1 : src[k] = ";" /\ SameLine(k, pos) /\ Bare(k, pos - 1, cov)
Gaps ==
    /\ \A i \in 1..Edge - 1 : Passed(i, Covered)
    /\ mode = "comment" => Commented(Covered)

\* A list got its items before the list within it that is open began.
Has(n, x) == \E k \in 1..Len(n.items) : n.items[k] = x
Behind ==
    \A i, j \in DOMAIN open : i < j =>
        \A k \in 1..Len(nodes[open[i]].items) : nodes[nodes[open[i]].items[k]].end <= nodes[open[j]].start

Buffered == (mode # "hung" => Holds(buf)) /\ HangsAtLimit

\* The language's own reader is in the same place.
Place(loop, p, depth, at) ==
    /\ loop \in {"skip", "atom"} =>
          at.depth = depth /\ (at.in = "code" \/ (at.in = "comment" /\ p = Len(src) + 1))
    /\ loop \in {"comment", "string", "escape"} => at.depth = depth /\ at.in = loop
InStep == Place(mode, pos, Len(open), Scans[pos - 1])

\* A tree that is done is the whole text's.
Whole == mode = "done" => token.start = Len(src) + 1

\* The arrays of the lists have room, until the capacity of one overflows an int.
RoomFor(array, count) ==
    \/ count > 2^(IntWidth - 2)
    \/ /\ array.cap \in 0..2^(IntWidth - 1) - 1 /\ count <= array.cap
       /\ array.cap * PointerBytes <= array.room
Room == (\A i \in DOMAIN nodes : RoomFor(nodes[i].array, Len(nodes[i].items))) /\ OverrunsAtLimit

IInv ==
    /\ Typed /\ OpenLists /\ Places
    /\ At(pos, Here) /\ PositionsRight
    /\ TokenRead /\ LeavesRight /\ Gaps
    /\ TreeNests /\ Behind
    /\ Buffered /\ Room
    /\ InStep /\ AcceptsBalanced /\ Whole

-----------------------------------------------------------------------------
(* The nodes before and after a step.                                      *)

\* What a node keeps when an item is pushed or it is closed.
Same(m, n) == m.kind = n.kind /\ m.start = n.start /\ m.line = n.line /\ m.col = n.col /\ m.text = n.text

NewHeap(heap, h, l, i, a) ==
    /\ h \in Seq(NodeSet) /\ Len(h) = Len(heap)
    /\ \A k \in 1..Len(heap) :
          /\ Same(h[k], heap[k]) /\ h[k].end = heap[k].end
          /\ k # l => h[k].items = heap[k].items /\ h[k].array = heap[k].array
    /\ h[l].items = Append(heap[l].items, i)
    /\ h[l].array = a

LEMMA SameNodes ==
    ASSUME NEW m \in NodeSet, NEW n \in NodeSet, Same(m, n), m.end = n.end, m.items = n.items, m.array = n.array
    PROVE  m = n
BY DEF NodeSet, Same

\* Whatever the capacity becomes, it is an int, and the allocation some bytes.
LEMMA ArraysTyped ==
    ASSUME NEW array \in [cap : Int, room : Nat], NEW count
    PROVE  Arrays(array, count) \subseteq [cap : Int, room : Nat]
<1>1. \A m \in Int : AsInt(m) \in Int /\ Bytes(m) \in Nat
  <2> DEFINE H == 2^(IntWidth - 1)
             W == 2^Width
             I == 2^IntWidth
  <2>1. H \in Nat \ {0} /\ I \in Nat \ {0} /\ W \in Nat \ {0} /\ PointerBytes \in Nat
    BY BuffersAssumption
  <2> SUFFICES ASSUME NEW m \in Int PROVE AsInt(m) \in Int /\ Bytes(m) \in Nat
    OBVIOUS
  <2>2. AsInt(m) = ((m + H) % I) - H /\ Bytes(m) = LET n == (m * PointerBytes) % W IN IF n = 0 THEN 1 ELSE n
    BY DEF AsInt, Bytes
  <2> HIDE DEF H, W, I
  <2>3. m * PointerBytes \in Int /\ m + H \in Int
    BY <2>1
  <2>4. \A k \in Int : k % W \in Nat /\ k % I \in Int
    BY <2>1
  <2> QED BY <2>1, <2>2, <2>3, <2>4
<1>2. Grown(array.cap) \in Int
  BY BuffersAssumption DEF Grown
<1> QED BY <1>1, <1>2 DEF Arrays

LEMMA PushTyped ==
    ASSUME NEW heap \in Seq(NodeSet), NEW lists \in Seq(Nat), lists # <<>>,
           lists[Len(lists)] \in 1..Len(heap), NEW i \in Nat, NEW a \in [cap : Int, room : Nat]
    PROVE  NewHeap(heap, PushInto(heap, lists, i, a), lists[Len(lists)], i, a)
<1> DEFINE l == lists[Len(lists)]
           n == heap[l]
           p == Pushed(n, i, a)
           h == PushInto(heap, lists, i, a)
<1>1. n \in NodeSet /\ l \in DOMAIN heap
  OBVIOUS
<1>2. h = [heap EXCEPT ![l] = p]
  BY DEF PushInto, Last
<1>3. /\ p \in NodeSet /\ Same(p, n) /\ p.end = n.end
      /\ p.items = Append(n.items, i) /\ p.array = a
  <2>1. Append(n.items, i) \in Seq(Nat)
    <3> HIDE DEF n
    <3>1. n.items \in Seq(Nat)
      BY <1>1 DEF NodeSet
    <3> QED BY <3>1
  <2> HIDE DEF n
  <2> QED BY <1>1, <2>1 DEF Pushed, NodeSet, Same
<1>4. h \in Seq(NodeSet) /\ Len(h) = Len(heap)
  <2> HIDE DEF l, p, h
  <2> QED BY <1>1, <1>2, <1>3
<1>5. ASSUME NEW k \in 1..Len(heap) PROVE h[k] = IF k = l THEN p ELSE heap[k]
  <2> HIDE DEF l, p, h
  <2> QED BY <1>2
<1>6. h[l] = p
  <2> HIDE DEF l, p, h
  <2> QED BY <1>1, <1>5
<1>7. ASSUME NEW k \in 1..Len(heap)
      PROVE  /\ Same(h[k], heap[k]) /\ h[k].end = heap[k].end
             /\ k # l => h[k].items = heap[k].items /\ h[k].array = heap[k].array
  <2> HIDE DEF p, h, l
  <2>1. CASE k = l
    BY <1>3, <1>6, <2>1
  <2>2. CASE k # l
    BY <1>5, <2>2 DEF Same
  <2> QED BY <2>1, <2>2
<1> HIDE DEF p, h, l
<1>8. NewHeap(heap, h, l, i, a)
  BY <1>3, <1>4, <1>6, <1>7 DEF NewHeap
<1> QED BY <1>8 DEF h, l

\* The innermost list.
Inner == open[Len(open)]

\* A leaf is allocated and pushed into the innermost list.
LeafKept(kind, to) ==
    /\ nodes' \in Seq(NodeSet) /\ Len(nodes') = Len(nodes) + 1
    /\ \A k \in 1..Len(nodes) :
          /\ Same(nodes'[k], nodes[k]) /\ nodes'[k].end = nodes[k].end
          /\ k # Inner => nodes'[k].items = nodes[k].items /\ nodes'[k].array = nodes[k].array
    /\ nodes'[Inner].items = Append(nodes[Inner].items, Len(nodes) + 1)
    /\ nodes'[Inner].array \in ArraysOf(Inner)
    /\ nodes'[Len(nodes) + 1] = Node(kind, token, to, buf.text)

LEMMA OpenTyped ==
    ASSUME Typed, OpenLists
    PROVE  /\ Len(open) \in Nat \ {0} /\ Inner \in 1..Len(nodes) /\ nodes[Inner].kind = "list"
           /\ nodes[Inner].end = 0 /\ DOMAIN nodes = 1..Len(nodes) /\ Len(nodes) \in Nat \ {0}
           /\ \A i \in 1..Len(nodes) : nodes[i] \in NodeSet
           /\ nodes[1].kind = "list" /\ nodes[1].end = 0
<1>1. Len(open) \in Nat \ {0} /\ DOMAIN open = 1..Len(open) /\ DOMAIN nodes = 1..Len(nodes)
        /\ Len(nodes) \in Nat
  BY DEF Typed, OpenLists
<1>2. Len(open) \in DOMAIN open /\ 1 \in DOMAIN open
  BY <1>1
<1>3. Inner \in DOMAIN nodes /\ nodes[Inner].kind = "list" /\ 1 \in DOMAIN nodes /\ nodes[1].kind = "list"
  BY <1>2 DEF OpenLists, Inner
<1>4. Inner \in Range(open) /\ 1 \in Range(open)
  BY <1>2 DEF OpenLists, Inner, Range
<1>5. nodes[Inner].end = 0 /\ nodes[1].end = 0
  BY <1>3, <1>4 DEF OpenLists
<1>6. \A i \in 1..Len(nodes) : nodes[i] \in NodeSet
  BY <1>1 DEF Typed
<1> QED BY <1>1, <1>3, <1>5, <1>6

LEMMA LeafStep ==
    ASSUME Typed, OpenLists, NEW kind \in {"atom", "string"}, NEW to \in Nat, Leaf(kind, to)
    PROVE  LeafKept(kind, to)
<1> DEFINE n == Node(kind, token, to, buf.text)
           N == Len(nodes) + 1
           heap == Append(nodes, n)
<1>1. n \in NodeSet
  BY DEF Node, NodeSet, Typed, Bufs, NoArray
<1>2. nodes \in Seq(NodeSet) /\ Len(nodes) \in Nat /\ Inner \in 1..Len(nodes) /\ open \in Seq(Nat)
        /\ open # <<>>
  BY OpenTyped DEF Typed, OpenLists
<1> HIDE DEF n
<1>3. /\ heap \in Seq(NodeSet) /\ Len(heap) = N /\ heap[N] = n
      /\ \A k \in 1..Len(nodes) : heap[k] = nodes[k]
  BY <1>1, <1>2
<1>4. PICK a \in ArraysOf(Inner) : nodes' = PushInto(heap, open, N, a)
  BY DEF Leaf, n, Inner, Last
<1>a. a \in [cap : Int, room : Nat]
  <2>1. nodes[Inner].array \in [cap : Int, room : Nat]
    <3>1. nodes[Inner] \in NodeSet
      BY <1>2
    <3> QED BY <3>1 DEF NodeSet
  <2> QED BY <1>4, <2>1, ArraysTyped DEF ArraysOf
<1>5. NewHeap(heap, nodes', Inner, N, a)
  <2>1. open[Len(open)] \in 1..Len(heap) /\ N \in Nat
    BY <1>2, <1>3 DEF Inner
  <2> HIDE DEF heap, N
  <2>2. NewHeap(heap, PushInto(heap, open, N, a), open[Len(open)], N, a)
    BY <1>2, <1>3, <1>a, <2>1, PushTyped
  <2> QED BY <1>4, <2>2 DEF Inner
<1>6. N \in 1..Len(heap) /\ N # Inner /\ \A k \in 1..Len(nodes) : k \in 1..Len(heap)
  BY <1>2, <1>3
<1> HIDE DEF heap
<1>7. nodes'[N] = n
  <2>1. nodes'[N] \in NodeSet
    BY <1>3, <1>5, <1>6 DEF NewHeap
  <2>2. /\ Same(nodes'[N], n) /\ nodes'[N].end = n.end
        /\ nodes'[N].items = n.items /\ nodes'[N].array = n.array
    BY <1>3, <1>5, <1>6 DEF NewHeap
  <2> QED BY <1>1, <2>1, <2>2, SameNodes
<1>8. /\ nodes' \in Seq(NodeSet) /\ Len(nodes') = Len(nodes) + 1
      /\ nodes'[Inner].items = Append(nodes[Inner].items, Len(nodes) + 1)
      /\ nodes'[Inner].array \in ArraysOf(Inner)
  BY <1>2, <1>3, <1>4, <1>5 DEF NewHeap
<1>9. \A k \in 1..Len(nodes) :
          /\ Same(nodes'[k], nodes[k]) /\ nodes'[k].end = nodes[k].end
          /\ k # Inner => nodes'[k].items = nodes[k].items /\ nodes'[k].array = nodes[k].array
  BY <1>3, <1>5, <1>6 DEF NewHeap
<1> QED BY <1>7, <1>8, <1>9 DEF LeafKept, n

\* A list is allocated, and is the innermost.
OpenKept ==
    /\ nodes' \in Seq(NodeSet) /\ Len(nodes') = Len(nodes) + 1
    /\ \A k \in 1..Len(nodes) : nodes'[k] = nodes[k]
    /\ nodes'[Len(nodes) + 1] = Node("list", Here, 0, <<>>)
    /\ open' \in Seq(Nat) /\ Len(open') = Len(open) + 1
    /\ \A i \in 1..Len(open) : open'[i] = open[i]
    /\ open'[Len(open) + 1] = Len(nodes) + 1

LEMMA OpenStep ==
    ASSUME Typed, OpenList
    PROVE  OpenKept
<1> DEFINE n == Node("list", Here, 0, <<>>)
<1>1. n \in NodeSet
  BY DEF Node, NodeSet, Typed, Here, NoArray
<1>2. nodes' = Append(nodes, n) /\ open' = Append(open, Len(nodes) + 1)
  BY DEF OpenList
<1> HIDE DEF n
<1>3. nodes \in Seq(NodeSet) /\ open \in Seq(Nat) /\ Len(nodes) \in Nat
  BY DEF Typed
<1>4. nodes' \in Seq(NodeSet) /\ Len(nodes') = Len(nodes) + 1 /\ nodes'[Len(nodes) + 1] = n
      /\ \A k \in 1..Len(nodes) : nodes'[k] = nodes[k]
  BY <1>1, <1>2, <1>3
<1>5. open' \in Seq(Nat) /\ Len(open') = Len(open) + 1 /\ open'[Len(open) + 1] = Len(nodes) + 1
      /\ \A k \in 1..Len(open) : open'[k] = open[k]
  BY <1>2, <1>3
<1> QED BY <1>4, <1>5 DEF OpenKept, n

\* The innermost list is closed and pushed into the one around it.
CloseKept ==
    /\ nodes' \in Seq(NodeSet) /\ Len(nodes') = Len(nodes)
    /\ \A k \in 1..Len(nodes) :
          /\ Same(nodes'[k], nodes[k]) /\ nodes'[k].end = IF k = Inner THEN pos + 1 ELSE nodes[k].end
          /\ k # Outer => nodes'[k].items = nodes[k].items /\ nodes'[k].array = nodes[k].array
    /\ nodes'[Outer].items = Append(nodes[Outer].items, Inner)
    /\ nodes'[Outer].array \in ArraysOf(Outer)
    /\ open' \in Seq(Nat) /\ Len(open') = Len(open) - 1
    /\ \A i \in 1..Len(open) - 1 : open'[i] = open[i]
    /\ Outer \in 1..Len(nodes) /\ Outer < Inner /\ nodes[Outer].end = 0 /\ nodes[Outer].kind = "list"

LEMMA CloseStep ==
    ASSUME Typed, OpenLists, CloseList, Len(open) # 1
    PROVE  CloseKept
<1> DEFINE c == [nodes[Inner] EXCEPT !.end = pos + 1]
           heap == [nodes EXCEPT ![Inner] = c]
           lists == Front(open)
<1>1. /\ nodes \in Seq(NodeSet) /\ Len(nodes) \in Nat /\ Inner \in 1..Len(nodes) /\ nodes[Inner] \in NodeSet
      /\ open \in Seq(Nat) /\ Len(open) \in Nat /\ Len(open) - 1 \in 1..Len(open) /\ pos + 1 \in Nat
  <2>1. Len(open) \in Nat \ {0} /\ Inner \in 1..Len(nodes) /\ nodes[Inner] \in NodeSet /\ Len(nodes) \in Nat
    BY OpenTyped
  <2>2. nodes \in Seq(NodeSet) /\ open \in Seq(Nat) /\ pos + 1 \in Nat
    BY DEF Typed
  <2>3. Len(open) - 1 \in 1..Len(open)
    <3>1. \A m \in Nat \ {0} : m # 1 => m - 1 \in 1..m
      OBVIOUS
    <3> QED BY <2>1, <3>1
  <2> QED BY <2>1, <2>2, <2>3
<1>2. lists \in Seq(Nat) /\ Len(lists) = Len(open) - 1 /\ (\A i \in 1..Len(open) - 1 : lists[i] = open[i])
      /\ lists # <<>> /\ lists[Len(lists)] = Outer
  <2>1. lists = SubSeq(open, 1, Len(open) - 1)
    BY DEF Front
  <2>2. lists \in Seq(Nat) /\ Len(lists) = Len(open) - 1 /\ \A i \in 1..Len(open) - 1 : lists[i] = open[i]
    <3>1. open \in Seq(Nat) /\ Len(open) - 1 \in 1..Len(open)
      BY <1>1
    <3>2. \A s \in Seq(Nat) : \A m \in 1..Len(s) :
              /\ SubSeq(s, 1, m) \in Seq(Nat) /\ Len(SubSeq(s, 1, m)) = m
              /\ \A i \in 1..m : SubSeq(s, 1, m)[i] = s[i]
      OBVIOUS
    <3> HIDE DEF lists
    <3> QED BY <2>1, <3>1, <3>2
  <2> HIDE DEF lists
  <2>3. Len(open) - 1 \in 1..Len(open) - 1
    BY <1>1
  <2>4. lists[Len(lists)] = Outer
    BY <2>2, <2>3 DEF Outer
  <2> QED BY <1>1, <2>2, <2>4
<1>3. Outer \in 1..Len(nodes) /\ Outer < Inner /\ nodes[Outer].end = 0 /\ nodes[Outer].kind = "list"
  <2>1. Len(open) \in DOMAIN open /\ Len(open) - 1 \in DOMAIN open /\ Len(open) - 1 < Len(open)
    BY <1>1
  <2>2. Outer \in DOMAIN nodes /\ Outer < Inner /\ nodes[Outer].kind = "list"
    BY <2>1 DEF OpenLists, Outer, Inner
  <2>3. Outer \in Range(open)
    BY <2>1 DEF Outer, Range
  <2> QED BY <1>1, <2>2, <2>3 DEF OpenLists
<1>4. c \in NodeSet /\ Same(c, nodes[Inner]) /\ c.end = pos + 1 /\ c.items = nodes[Inner].items
        /\ c.array = nodes[Inner].array
  <2> DEFINE n == nodes[Inner]
  <2>1. n \in NodeSet
    BY <1>1
  <2> HIDE DEF n
  <2>2. LET d == [n EXCEPT !.end = pos + 1] IN
           d \in NodeSet /\ Same(d, n) /\ d.end = pos + 1 /\ d.items = n.items /\ d.array = n.array
    BY <1>1, <2>1 DEF NodeSet, Same
  <2> QED BY <2>2 DEF n
<1>5. heap \in Seq(NodeSet) /\ Len(heap) = Len(nodes)
        /\ \A k \in 1..Len(nodes) : heap[k] = IF k = Inner THEN c ELSE nodes[k]
  <2> HIDE DEF c
  <2> QED BY <1>1, <1>4
<1>6. PICK a \in ArraysOf(Outer) : nodes' = PushInto(heap, lists, Inner, a) /\ open' = lists
  <2>1. \E a \in ArraysOf(Outer) :
          /\ nodes' = PushInto([nodes EXCEPT ![Last(open)].end = pos + 1], Front(open), Last(open), a)
          /\ open' = Front(open)
    BY DEF CloseList
  <2>2. Last(open) = Inner
    BY DEF Last, Inner
  <2> QED BY <2>1, <2>2
<1>a. a \in [cap : Int, room : Nat]
  <2>1. nodes[Outer].array \in [cap : Int, room : Nat]
    <3>1. nodes[Outer] \in NodeSet
      BY <1>1, <1>3
    <3> QED BY <3>1 DEF NodeSet
  <2> QED BY <1>6, <2>1, ArraysTyped DEF ArraysOf
<1>7. NewHeap(heap, nodes', Outer, Inner, a)
  <2>1. lists[Len(lists)] \in 1..Len(heap) /\ Inner \in Nat
    BY <1>1, <1>2, <1>3, <1>5
  <2> HIDE DEF heap, lists
  <2>2. NewHeap(heap, PushInto(heap, lists, Inner, a), lists[Len(lists)], Inner, a)
    BY <1>2, <1>5, <1>a, <2>1, PushTyped
  <2> QED BY <1>2, <1>6, <2>2
<1> HIDE DEF heap, lists, c
<1>8. /\ nodes' \in Seq(NodeSet) /\ Len(nodes') = Len(nodes)
      /\ nodes'[Outer].items = Append(nodes[Outer].items, Inner)
      /\ nodes'[Outer].array \in ArraysOf(Outer)
  <2>1. heap[Outer] = nodes[Outer]
    BY <1>1, <1>3, <1>5
  <2> QED BY <1>5, <1>6, <1>7, <2>1 DEF NewHeap
<1>9. ASSUME NEW k \in 1..Len(nodes)
      PROVE  /\ Same(nodes'[k], nodes[k]) /\ nodes'[k].end = IF k = Inner THEN pos + 1 ELSE nodes[k].end
             /\ k # Outer => nodes'[k].items = nodes[k].items /\ nodes'[k].array = nodes[k].array
  <2>1. /\ Same(nodes'[k], heap[k]) /\ nodes'[k].end = heap[k].end
        /\ k # Outer => nodes'[k].items = heap[k].items /\ nodes'[k].array = heap[k].array
    BY <1>5, <1>7 DEF NewHeap
  <2>2. CASE k = Inner
    BY <1>4, <1>5, <2>1, <2>2 DEF Same
  <2>3. CASE k # Inner
    BY <1>5, <2>1, <2>3
  <2> QED BY <2>2, <2>3
<1>10. open' \in Seq(Nat) /\ Len(open') = Len(open) - 1 /\ \A i \in 1..Len(open) - 1 : open'[i] = open[i]
  BY <1>2, <1>6
<1> QED BY <1>3, <1>8, <1>9, <1>10 DEF CloseKept

-----------------------------------------------------------------------------
(* Steps.                                                                  *)

Reading == {"atom", "string", "escape"}

LEMMA PeekTyped ==
    ASSUME Typed
    PROVE  IF Peek = EOF THEN pos = Len(src) + 1 ELSE pos <= Len(src) /\ Peek = src[pos] /\ Peek \in Chars
<1>1. EOF \notin Chars
  BY QuoteIs DEF EOF, Chars
<1> QED BY <1>1 DEF Peek, Typed

LEMMA GetTyped ==
    ASSUME Typed, Get, Peek # EOF, src' = src
    PROVE  /\ pos' = pos + 1 /\ pos' \in 1..Len(src') + 1
           /\ line' \in 1..pos' /\ col' \in 1..pos'
           /\ pos <= Len(src) /\ Peek = src[pos] /\ Peek \in Chars
<1>1. pos <= Len(src) /\ Peek = src[pos] /\ Peek \in Chars
  BY PeekTyped
<1>2. pos \in Nat /\ pos >= 1 /\ line \in 1..pos /\ col \in 1..pos /\ Len(src) \in Nat
  BY DEF Typed
<1>3. pos' = pos + 1 /\ pos' \in 1..Len(src') + 1
  BY <1>1, <1>2 DEF Get
<1>4. line' \in 1..pos' /\ col' \in 1..pos'
  BY <1>2, <1>3 DEF Get
<1> QED BY <1>1, <1>3, <1>4

LEMMA HereTyped ==
    ASSUME Typed
    PROVE  Here \in [start : Nat, line : Nat, col : Nat] /\ Here.start = pos
BY DEF Typed, Here

LEMMA KeepTyped ==
    ASSUME Typed, Buffered, mode # "hung", NEW next \in Reading, NEW ch \in Chars, Keep(ch, next)
    PROVE  /\ buf' \in Bufs /\ Buffered' /\ mode' \in {next, "hung"} /\ buf'.text = Append(buf.text, ch)
           /\ mode' = IF buf'.cap = Hangs THEN "hung" ELSE next
<1>1. buf \in Bufs /\ Holds(buf)
  BY DEF Typed, Buffered
<1>2. buf' = Append1(buf, ch) /\ mode' = IF buf'.cap = Hangs THEN "hung" ELSE next
  BY DEF Keep
<1>3. /\ buf' \in Bufs /\ buf'.text = Append(buf.text, ch)
      /\ buf'.cap # Hangs => Holds(buf')
      /\ buf'.cap = Hangs => Len(buf.text) + 2 > Half
  BY <1>1, <1>2, AppendFits
<1>4. Len(buf'.text) + 1 = Len(buf.text) + 2
  <2>1. buf.text \in Seq(Chars)
    BY <1>1 DEF Bufs
  <2>2. Len(Append(buf.text, ch)) = Len(buf.text) + 1 /\ Len(buf.text) \in Nat
    BY <2>1
  <2> QED BY <1>3, <2>2
<1>5. (Holds(buf))' = Holds(buf')
  BY DEF Holds
<1>6. mode' = "hung" <=> buf'.cap = Hangs
  BY <1>2 DEF Reading
<1>7. HangsAtLimit'
  BY <1>3, <1>4, <1>6 DEF HangsAtLimit, Half
<1>8. (mode # "hung" => Holds(buf))'
  BY <1>3, <1>5, <1>6
<1> QED BY <1>2, <1>3, <1>7, <1>8 DEF Buffered

\* A leaf, a list that begins or one that ends is all a step changes in the tree.
Quiet == nodes' = nodes /\ open' = open
LeafStepOf(kind, to) == LeafKept(kind, to) /\ open' = open /\ mode' = "skip" /\ token' = token

AtomEnds   == mode = "atom" /\ ~AtomChar(Peek) /\ Stay /\ LeafStepOf("atom", pos)
StringEnds == mode = "string" /\ Peek = Quote /\ Get /\ LeafStepOf("string", pos + 1)
ListOpens  == mode = "skip" /\ Peek = "(" /\ Get /\ mode' = "skip" /\ OpenKept
ListCloses == mode = "skip" /\ Peek = ")" /\ Get /\ mode' = "skip" /\ CloseKept /\ Len(open) # 1

\* A step that only stops leaves everything else as it is.
Halts == \E how \in {"exhausted", "overrun"} : Stops(how)
LEMMA Halting ==
    ASSUME OutOfMemory \/ Overrun
    PROVE  Halts
BY DEF Halts, OutOfMemory, Overrun

LEMMA TreeStep ==
    ASSUME Typed, OpenLists, Next
    PROVE  src' = src /\ (Quiet \/ AtomEnds \/ StringEnds \/ ListOpens \/ ListCloses)
<1>1. CASE SkipSpace \/ StartComment \/ CommentChar \/ EndOfText \/ StartAtom \/ StartString \/ ReadEscape
  BY <1>1 DEF SkipSpace, StartComment, CommentChar, EndOfText, StartAtom, StartString, ReadEscape, Keep,
     Dies, Quiet
<1>2. CASE OpenList
  BY <1>2, OpenStep DEF OpenList, ListOpens
<1>3. CASE CloseList
  <2>1. CASE Len(open) = 1
    BY <1>3, <2>1 DEF CloseList, Quiet
  <2>2. CASE Len(open) # 1
    <3>1. CloseKept
      BY <1>3, <2>2, CloseStep
    <3> QED BY <1>3, <2>2, <3>1 DEF CloseList, ListCloses
  <2> QED BY <2>1, <2>2
<1>4. CASE ReadAtom
  <2>1. CASE AtomChar(Peek)
    BY <1>4, <2>1 DEF ReadAtom, Keep, Quiet
  <2>2. CASE ~AtomChar(Peek)
    <3>1. Leaf("atom", pos) /\ Stay /\ mode = "atom"
      BY <1>4, <2>2 DEF ReadAtom
    <3>2. LeafKept("atom", pos)
      <4>1. pos \in Nat
        BY DEF Typed
      <4> QED BY <3>1, <4>1, LeafStep
    <3> QED BY <2>2, <3>1, <3>2 DEF Leaf, AtomEnds, LeafStepOf
  <2> QED BY <2>1, <2>2
<1>5. CASE ReadString
  <2>1. CASE Peek = Quote
    <3>1. Leaf("string", pos + 1) /\ Get /\ mode = "string"
      BY <1>5, <2>1, QuoteIs DEF ReadString
    <3>2. LeafKept("string", pos + 1)
      <4>1. pos + 1 \in Nat
        BY DEF Typed
      <4> QED BY <3>1, <4>1, LeafStep
    <3> QED BY <2>1, <3>1, <3>2 DEF Leaf, StringEnds, LeafStepOf
  <2>2. CASE Peek # Quote
    BY <1>5, <2>2 DEF ReadString, Keep, Dies, Quiet
  <2> QED BY <2>1, <2>2
<1>6. CASE OutOfMemory \/ Overrun
  BY <1>6, Halting DEF Halts, Stops, Quiet
<1> QED BY <1>1, <1>2, <1>3, <1>4, <1>5, <1>6 DEF Next

\* Types, and buffers.
LEMMA PlacesTyped == Typed => pos \in Nat \ {0} /\ token.start \in 1..pos
BY DEF Typed
LEMMA PlacesAfter == (Typed => pos \in Nat \ {0} /\ token.start \in 1..pos)'
BY PlacesTyped, PTL

LEMMA TypedKept ==
    ASSUME Typed, OpenLists, Buffered, Next
    PROVE  Typed' /\ Buffered'
<1>1. src' = src /\ nodes' \in Seq(NodeSet) /\ open' \in Seq(Nat)
  BY TreeStep DEF Typed, Quiet, AtomEnds, StringEnds, ListOpens, ListCloses, LeafStepOf, LeafKept,
     OpenKept, CloseKept
<1>2. Here \in [start : Nat, line : Nat, col : Nat] /\ Here.start = pos
  BY HereTyped
<1> DEFINE Moved == pos' \in 1..Len(src') + 1 /\ line' \in 1..pos' /\ col' \in 1..pos'
      /\ pos' \in {pos, pos + 1}
<1>3. ASSUME Stay PROVE Moved
  BY <1>1, <1>3 DEF Typed, Stay
<1>4. ASSUME Get, Peek # EOF PROVE Moved
  BY <1>1, <1>4, GetTyped
<1>5. ASSUME Moved, buf' \in Bufs, token' \in {token, Here}, mode' \in {"skip", "comment", "atom", "string", "escape"} \cup Ended
      PROVE  Typed'
  <2>1. token' \in [start : Nat, line : Nat, col : Nat] /\ token'.start \in 1..pos
    <3>1. token \in [start : Nat, line : Nat, col : Nat] /\ pos \in Nat \ {0} /\ token.start \in 1..pos
      BY PlacesTyped DEF Typed
    <3>2. pos \in 1..pos
      BY <3>1
    <3> QED BY <1>2, <1>5, <3>1, <3>2
  <2>2. token'.start \in 1..pos'
    <3>1. pos \in Nat /\ pos' \in {pos, pos + 1}
      BY <1>5, PlacesTyped
    <3> QED BY <2>1, <3>1
  <2> QED BY <1>1, <1>5, <2>1, <2>2 DEF Typed
<1>6. ASSUME buf' \in {buf, EmptyBuf}, mode # "hung", mode' # "hung" PROVE buf' \in Bufs /\ Buffered'
  <2>1. EmptyBuf \in Bufs
    <3>1. 0 \in 0..2^Width - 2
      <4>1. Half \in Nat /\ 2^Width = 2 * Half /\ FirstChars \in 1..2^Width - 2
        BY BuffersAssumption DEF Half
      <4> QED BY <4>1
    <3> QED BY <3>1 DEF EmptyBuf, Bufs
  <2>2. Holds(EmptyBuf)
    BY DEF Holds
  <2>3. Holds(buf) /\ buf \in Bufs
    BY <1>6 DEF Buffered, Typed
  <2>4. Holds(buf')
    BY <1>6, <2>2, <2>3
  <2> QED BY <1>6, <2>1, <2>3, <2>4 DEF Buffered, HangsAtLimit, Holds
<1> HIDE DEF Moved
<1>7. CASE SkipSpace
  BY <1>4, <1>5, <1>6, <1>7 DEF SkipSpace, Spaces, EOF
<1>8. CASE StartComment
  BY <1>4, <1>5, <1>6, <1>8 DEF StartComment, EOF
<1>9. CASE CommentChar
  BY <1>3, <1>4, <1>5, <1>6, <1>9 DEF CommentChar
<1>10. CASE OpenList
  BY <1>4, <1>5, <1>6, <1>10 DEF OpenList, EOF
<1>11. CASE CloseList
  BY <1>4, <1>5, <1>6, <1>11 DEF CloseList, EOF, Ended
<1>12. CASE EndOfText
  BY <1>3, <1>5, <1>6, <1>12 DEF EndOfText, Ended
<1>13. CASE StartAtom
  BY <1>3, <1>5, <1>6, <1>13 DEF StartAtom
<1>14. CASE StartString
  BY <1>4, <1>5, <1>6, <1>14, QuoteIs DEF StartString
<1>15. CASE ReadAtom
  <2>1. CASE AtomChar(Peek)
    <3>1. Peek # EOF /\ Keep(Peek, "atom") /\ Get /\ mode # "hung" /\ token' = token
      BY <1>15, <2>1 DEF ReadAtom, AtomChar, Keep
    <3>2. Peek \in Chars
      BY <3>1, PeekTyped
    <3>3. buf' \in Bufs /\ Buffered' /\ mode' \in {"atom", "hung"}
      BY <3>1, <3>2, KeepTyped DEF Reading
    <3> QED BY <1>4, <1>5, <3>1, <3>3 DEF Ended
  <2>2. CASE ~AtomChar(Peek)
    BY <1>3, <1>5, <1>6, <1>15, <2>2 DEF ReadAtom, Leaf
  <2> QED BY <2>1, <2>2
<1>16. CASE ReadString
  <2>1. CASE Peek \notin {EOF, Quote, "\\"}
    <3>1. Peek # EOF /\ Keep(Peek, "string") /\ Get /\ mode # "hung" /\ token' = token
      BY <1>16, <2>1 DEF ReadString, Keep
    <3>2. Peek \in Chars
      BY <3>1, PeekTyped
    <3>3. buf' \in Bufs /\ Buffered' /\ mode' \in {"string", "hung"}
      BY <3>1, <3>2, KeepTyped DEF Reading
    <3> QED BY <1>4, <1>5, <3>1, <3>3 DEF Ended
  <2>2. CASE Peek = EOF
    BY <1>3, <1>5, <1>6, <1>16, <2>2, QuoteIs DEF ReadString, Dies, EOF, Ended
  <2>3. CASE Peek = Quote
    BY <1>4, <1>5, <1>6, <1>16, <2>3, QuoteIs DEF ReadString, Leaf
  <2>4. CASE Peek = "\\"
    BY <1>4, <1>5, <1>6, <1>16, <2>4, QuoteIs DEF ReadString, EOF
  <2> QED BY <2>1, <2>2, <2>3, <2>4
<1>17. CASE ReadEscape
  <2>1. CASE Peek # EOF
    <3>1. Keep(Escaped(Peek), "string") /\ Get /\ mode # "hung" /\ token' = token
      BY <1>17, <2>1 DEF ReadEscape, Keep
    <3>2. Escaped(Peek) \in Chars
      BY <2>1, PeekTyped DEF Escaped, Chars
    <3>3. buf' \in Bufs /\ Buffered' /\ mode' \in {"string", "hung"}
      BY <3>1, <3>2, KeepTyped DEF Reading
    <3> QED BY <1>4, <1>5, <2>1, <3>1, <3>3 DEF Ended
  <2>2. CASE Peek = EOF
    BY <1>3, <1>5, <1>6, <1>17, <2>2 DEF ReadEscape, Dies, Ended
  <2> QED BY <2>1, <2>2
<1>18. CASE OutOfMemory \/ Overrun
  <2>1. Stay /\ token' \in {token, Here} /\ buf' = buf /\ mode' \in {"exhausted", "overrun"}
    BY <1>18, Halting DEF Halts, Stops
  <2>2. mode # "hung"
    BY <1>18 DEF OutOfMemory, Overrun, LeafEnds, ListEnds, CharKept
  <2> QED BY <1>3, <1>5, <1>6, <2>1, <2>2 DEF Ended
<1> QED BY <1>7, <1>8, <1>9, <1>10, <1>11, <1>12, <1>13, <1>14, <1>15, <1>16, <1>17, <1>18 DEF Next

LEMMA OpenListsKept ==
    ASSUME Typed, OpenLists, Next
    PROVE  OpenLists'
<1> DEFINE L == Len(open)
           N == Len(nodes)
<1>1. /\ L \in Nat \ {0} /\ N \in Nat \ {0} /\ DOMAIN open = 1..L /\ DOMAIN nodes = 1..N
      /\ open[1] = 1 /\ \A i \in 1..L : open[i] \in 1..N /\ nodes[open[i]].kind = "list"
      /\ \A i, j \in 1..L : i < j => open[i] < open[j]
      /\ \A i \in 1..N : nodes[i].end = 0 <=> \E j \in 1..L : open[j] = i
  <2>1. L \in Nat \ {0} /\ N \in Nat \ {0} /\ DOMAIN open = 1..L /\ DOMAIN nodes = 1..N
    BY OpenTyped DEF Typed
  <2> HIDE DEF L, N
  <2> QED BY <2>1 DEF OpenLists, Range
<1>2. pos \in Nat \ {0}
  BY DEF Typed
\* It is enough to look at numbers.
<1> DEFINE Q(l, n) ==
              /\ DOMAIN open' = 1..l /\ DOMAIN nodes' = 1..n
              /\ open'[1] = 1 /\ \A i \in 1..l : open'[i] \in 1..n /\ nodes'[open'[i]].kind = "list"
              /\ \A i, j \in 1..l : i < j => open'[i] < open'[j]
              /\ \A i \in 1..n : nodes'[i].end = 0 <=> \E j \in 1..l : open'[j] = i
<1>3. ASSUME NEW l \in Nat \ {0}, NEW n \in Nat, Q(l, n) PROVE OpenLists'
  <2>1. \A i : i \in Range(open') <=> \E j \in 1..l : open'[j] = i
    BY <1>3 DEF Range
  <2>2. open' # <<>>
    BY <1>3
  <2> QED BY <1>3, <2>1, <2>2 DEF OpenLists, Range
<1>4. CASE Quiet
  BY <1>4 DEF Quiet, OpenLists, Range
<1>5. ASSUME NEW kind \in {"atom", "string"}, NEW to \in Nat \ {0}, LeafStepOf(kind, to) PROVE OpenLists'
  <2>1. nodes' \in Seq(NodeSet) /\ Len(nodes') = N + 1 /\ open' = open
    BY <1>5 DEF LeafStepOf, LeafKept
  <2>2. \A k \in 1..N : nodes'[k].kind = nodes[k].kind /\ nodes'[k].end = nodes[k].end
    BY <1>5 DEF LeafStepOf, LeafKept, Same
  <2>3. nodes'[N + 1].end # 0
    BY <1>5 DEF LeafStepOf, LeafKept, Node
  <2>4. DOMAIN nodes' = 1..N + 1
    BY <1>1, <2>1
  <2> HIDE DEF L, N
  <2>5. \A i \in 1..N + 1 : i \in 1..N \/ i = N + 1
    BY <1>1
  <2>6. \A i \in 1..L : open[i] \in 1..N + 1 /\ open[i] # N + 1
    BY <1>1
  <2>7. Q(L, N + 1)
    BY <1>1, <2>1, <2>2, <2>3, <2>4, <2>5, <2>6
  <2> HIDE DEF Q
  <2>8. N + 1 \in Nat
    BY <1>1
  <2> QED BY <1>1, <1>3, <2>7, <2>8
<1>6. CASE ListOpens
  <2>1. nodes' \in Seq(NodeSet) /\ Len(nodes') = N + 1 /\ open' \in Seq(Nat) /\ Len(open') = L + 1
    BY <1>6 DEF ListOpens, OpenKept
  <2>2. (\A k \in 1..N : nodes'[k] = nodes[k]) /\ nodes'[N + 1].kind = "list" /\ nodes'[N + 1].end = 0
    BY <1>6 DEF ListOpens, OpenKept, Node
  <2>3. (\A i \in 1..L : open'[i] = open[i]) /\ open'[L + 1] = N + 1
    BY <1>6 DEF ListOpens, OpenKept
  <2>4. DOMAIN nodes' = 1..N + 1 /\ DOMAIN open' = 1..L + 1
    BY <1>1, <2>1
  <2> HIDE DEF L, N
  <2>5. (\A i \in 1..N + 1 : i \in 1..N \/ i = N + 1) /\ (\A i \in 1..L + 1 : i \in 1..L \/ i = L + 1)
        /\ (\A i \in 1..N : i \in 1..N + 1 /\ i # N + 1 /\ i < N + 1) /\ (\A i \in 1..L : i \in 1..L + 1)
        /\ 1 \in 1..L /\ L + 1 \in 1..L + 1 /\ N + 1 \in 1..N + 1
    BY <1>1
  <2>6. open'[1] = 1 /\ \A i \in 1..L + 1 : open'[i] \in 1..N + 1 /\ nodes'[open'[i]].kind = "list"
    BY <1>1, <2>2, <2>3, <2>5
  <2>7. \A i, j \in 1..L + 1 : i < j => open'[i] < open'[j]
    <3> SUFFICES ASSUME NEW i \in 1..L + 1, NEW j \in 1..L + 1, i < j PROVE open'[i] < open'[j]
      OBVIOUS
    <3>1. i \in 1..L
      BY <1>1
    <3>2. CASE j \in 1..L
      BY <1>1, <2>3, <3>1, <3>2
    <3>3. CASE j = L + 1
      <4>1. open'[i] \in 1..N /\ open'[j] = N + 1
        BY <1>1, <2>3, <3>1, <3>3
      <4> QED BY <1>1, <4>1
    <3> QED BY <2>5, <3>2, <3>3
  <2>8. ASSUME NEW i \in 1..N + 1
        PROVE  nodes'[i].end = 0 <=> \E j \in 1..L + 1 : open'[j] = i
    <3>1. CASE i = N + 1
      BY <2>2, <2>3, <2>5, <3>1
    <3>2. CASE i \in 1..N
      <4>1. nodes'[i].end = 0 <=> \E j \in 1..L : open[j] = i
        BY <1>1, <2>2, <3>2
      <4>2. (\E j \in 1..L : open[j] = i) <=> \E j \in 1..L : open'[j] = i
        BY <2>3
      <4>3. open'[L + 1] # i
        BY <2>3, <2>5, <3>2
      <4>4. (\E j \in 1..L : open'[j] = i) <=> \E j \in 1..L + 1 : open'[j] = i
        BY <2>5, <4>3
      <4> QED BY <4>1, <4>2, <4>4
    <3> QED BY <2>5, <3>1, <3>2
  <2>9. L + 1 \in Nat \ {0} /\ N + 1 \in Nat
    BY <1>1
  <2>10. Q(L + 1, N + 1)
    BY <2>4, <2>6, <2>7, <2>8
  <2> HIDE DEF Q
  <2> QED BY <1>3, <2>9, <2>10
<1>7. CASE ListCloses
  <2>1. nodes' \in Seq(NodeSet) /\ Len(nodes') = N /\ open' \in Seq(Nat) /\ Len(open') = L - 1 /\ L # 1
    BY <1>7 DEF ListCloses, CloseKept
  <2>2. \A k \in 1..N : nodes'[k].kind = nodes[k].kind
          /\ nodes'[k].end = IF k = open[L] THEN pos + 1 ELSE nodes[k].end
    BY <1>7 DEF ListCloses, CloseKept, Same, Inner
  <2>3. \A i \in 1..L - 1 : open'[i] = open[i]
    BY <1>7 DEF ListCloses, CloseKept
  <2>4. L - 1 \in Nat \ {0}
    BY <1>1, <2>1
  <2>5. DOMAIN nodes' = 1..N /\ DOMAIN open' = 1..L - 1
    BY <1>1, <2>1, <2>4
  <2> HIDE DEF L, N
  <2>6. (\A i \in 1..L - 1 : i \in 1..L /\ i < L) /\ (\A i \in 1..L : i \in 1..L - 1 \/ i = L)
          /\ 1 \in 1..L - 1 /\ L \in 1..L
        /\ pos + 1 # 0
    BY <1>1, <1>2, <2>1
  <2>7. \A i \in 1..L - 1 : open[i] # open[L]
    <3>1. \A i \in 1..L - 1 : open[i] < open[L] /\ open[i] \in 1..N /\ open[L] \in 1..N
      BY <1>1, <2>6
    <3> QED BY <3>1
  <2>8. \A i \in 1..N : nodes'[i].end = 0 <=> \E j \in 1..L - 1 : open'[j] = i
    <3> SUFFICES ASSUME NEW i \in 1..N PROVE nodes'[i].end = 0 <=> \E j \in 1..L - 1 : open'[j] = i
      OBVIOUS
    <3>1. CASE i = open[L]
      BY <2>2, <2>3, <2>6, <2>7, <3>1
    <3>2. CASE i # open[L]
      <4>1. nodes'[i].end = 0 <=> \E j \in 1..L : open[j] = i
        BY <1>1, <2>2, <3>2
      <4>2. (\E j \in 1..L : open[j] = i) <=> \E j \in 1..L - 1 : open[j] = i
        BY <2>6, <3>2
      <4>3. (\E j \in 1..L - 1 : open[j] = i) <=> \E j \in 1..L - 1 : open'[j] = i
        BY <2>3
      <4> QED BY <4>1, <4>2, <4>3
    <3> QED BY <3>1, <3>2
  <2>9. open'[1] = 1 /\ \A i \in 1..L - 1 : open'[i] \in 1..N /\ nodes'[open'[i]].kind = "list"
    BY <1>1, <2>2, <2>3, <2>6
  <2>10. \A i, j \in 1..L - 1 : i < j => open'[i] < open'[j]
    BY <1>1, <2>3, <2>6
  <2>11. Q(L - 1, N)
    BY <2>5, <2>8, <2>9, <2>10
  <2> HIDE DEF Q
  <2> QED BY <1>1, <1>3, <2>4, <2>11
<1>8. CASE AtomEnds
  BY <1>2, <1>5, <1>8 DEF AtomEnds
<1>9. CASE StringEnds
  <2>1. pos + 1 \in Nat \ {0}
    BY <1>2
  <2> QED BY <1>5, <1>9, <2>1 DEF StringEnds
<1> QED BY <1>4, <1>6, <1>7, <1>8, <1>9, TreeStep

\* How far the text is in the tree does not go back.
LEMMA EdgeMoves ==
    ASSUME Typed, OpenLists, Buffered, Next
    PROVE  /\ Edge \in Nat \ {0} /\ Edge' \in Nat \ {0} /\ Edge <= Edge' /\ Edge <= pos /\ Edge' <= pos'
           /\ AtomEnds   => Edge = token.start /\ Edge' = pos
           /\ StringEnds => Edge = token.start /\ Edge' = pos + 1
           /\ ListOpens \/ ListCloses => Edge = pos /\ Edge' = pos + 1
<1>1. pos \in Nat \ {0} /\ pos' \in Nat \ {0} /\ token.start \in 1..pos /\ token'.start \in 1..pos'
  BY PlacesTyped, PlacesAfter, TypedKept
<1>2. Here.start = pos
  BY DEF Here
<1>3. Edge \in Nat \ {0} /\ Edge' \in Nat \ {0} /\ Edge <= pos /\ Edge' <= pos'
  BY <1>1 DEF Edge
<1>4. Edge <= Edge'
  <2>1. ASSUME mode \in Reading \cup Ended, token' = token PROVE Edge <= Edge'
    <3>1. Edge = token.start /\ (Edge' = token.start \/ Edge' = pos')
      BY <2>1 DEF Edge, Reading, Ended
    <3> QED BY <1>1, <2>1, <3>1
  <2>2. ASSUME mode \in {"skip", "comment"}, pos' = pos \/ pos' = pos + 1, token' = Here
          \/ mode' \in {"skip", "comment"}
        PROVE  Edge <= Edge'
    <3>1. Edge = pos /\ (Edge' = pos \/ Edge' = pos')
      BY <1>2, <2>2 DEF Edge
    <3> QED BY <1>1, <2>2, <3>1
  <2>3. CASE SkipSpace \/ StartComment \/ CommentChar \/ OpenList \/ CloseList \/ EndOfText \/ StartAtom
          \/ StartString
    BY <2>2, <2>3 DEF SkipSpace, StartComment, CommentChar, OpenList, CloseList, EndOfText, StartAtom,
       StartString, Get, Stay
  <2>4. CASE ReadAtom \/ ReadString \/ ReadEscape
    BY <2>1, <2>4 DEF ReadAtom, ReadString, ReadEscape, Keep, Leaf, Dies, Reading
  <2>5. CASE OutOfMemory \/ Overrun
    <3>1. Stops("exhausted") \/ Stops("overrun")
      BY <2>5, Halting DEF Halts
    <3>2. mode = "skip" \/ mode \in Reading
      BY <2>5 DEF OutOfMemory, Overrun, LeafEnds, ListEnds, CharKept, Reading
    <3> QED BY <2>1, <2>2, <3>1, <3>2 DEF Stops, Reading, Stay
  <2> QED BY <2>3, <2>4, <2>5 DEF Next
<1>5. AtomEnds => Edge = token.start /\ Edge' = pos
  BY DEF AtomEnds, LeafStepOf, Edge, Stay
<1>6. StringEnds => Edge = token.start /\ Edge' = pos + 1
  BY DEF StringEnds, LeafStepOf, Edge, Get
<1>7. ListOpens \/ ListCloses => Edge = pos /\ Edge' = pos + 1
  BY DEF ListOpens, ListCloses, Edge, Get
<1> QED BY <1>3, <1>4, <1>5, <1>6, <1>7
\* A node that is allocated begins where the tree ended, and ends, when it is a leaf, where
\* the tree now does; so does the list that is closed.
Fresh(n) == /\ n.start = Edge /\ Edge < Edge'
            /\ IF n.kind = "list" THEN n.end = 0 ELSE n.end = Edge'
Grows ==
    /\ nodes' \in Seq(NodeSet) /\ Len(nodes') \in {Len(nodes), Len(nodes) + 1}
    /\ \A k \in 1..Len(nodes) :
          /\ Same(nodes'[k], nodes[k])
          /\ \/ nodes'[k].end = nodes[k].end
             \/ /\ ListCloses /\ k = Inner /\ nodes[k].end = 0 /\ nodes[k].kind = "list"
                /\ nodes'[k].end = Edge' /\ Edge < Edge'
    /\ Len(nodes') # Len(nodes) => Fresh(nodes'[Len(nodes) + 1])

LEMMA AtomBegun ==
    ASSUME Typed, TokenRead, AtomEnds
    PROVE  token.start < pos
<1>1. AtomAt(token.start)
  BY DEF TokenRead, TokenIs, AtomRead, AtomEnds
<1>2. ASSUME token.start = pos PROVE FALSE
  <2>1. Peek \in {"n", "\\"}
    BY <1>1, <1>2, PeekTyped DEF AtomAt, Peek, Typed
  <2> QED BY <2>1, QuoteIs DEF AtomEnds, AtomChar, Spaces, EOF
<1> QED BY <1>2 DEF Typed

LEMMA TreeGrows ==
    ASSUME Typed, OpenLists, Buffered, TokenRead, Next
    PROVE  Grows
<1>1. /\ Edge \in Nat \ {0} /\ Edge' \in Nat \ {0} /\ Edge <= Edge'
      /\ AtomEnds   => Edge = token.start /\ Edge' = pos
      /\ StringEnds => Edge = token.start /\ Edge' = pos + 1
      /\ ListOpens \/ ListCloses => Edge = pos /\ Edge' = pos + 1
  BY EdgeMoves
<1>2. pos \in Nat /\ token.start \in 1..pos /\ Len(nodes) \in Nat
  BY OpenTyped DEF Typed
<1>3. nodes \in Seq(NodeSet) /\ \A k \in 1..Len(nodes) : Same(nodes[k], nodes[k])
  BY DEF Same, Typed
<1>4. CASE Quiet
  BY <1>2, <1>3, <1>4 DEF Quiet, Grows
<1>5. ASSUME NEW kind \in {"atom", "string"}, LeafStepOf(kind, Edge'), Edge = token.start, Edge < Edge'
      PROVE  Grows
  <2>1. LeafKept(kind, Edge')
    BY <1>5 DEF LeafStepOf
  <2>2. Fresh(nodes'[Len(nodes) + 1])
    <3>1. nodes'[Len(nodes) + 1] = Node(kind, token, Edge', buf.text)
      BY <2>1 DEF LeafKept
    <3> HIDE DEF Edge
    <3> QED BY <1>5, <3>1 DEF Fresh, Node
  <2> QED BY <2>1, <2>2 DEF LeafKept, Grows
<1>6. CASE AtomEnds
  <2>1. Edge < Edge' /\ Edge = token.start /\ Edge' = pos /\ LeafStepOf("atom", pos)
    BY <1>1, <1>6, AtomBegun DEF AtomEnds
  <2> QED BY <1>5, <2>1
<1>7. CASE StringEnds
  <2>1. Edge = token.start /\ Edge' = pos + 1
    BY <1>1, <1>7
  <2>2. LeafStepOf("string", pos + 1)
    BY <1>7 DEF StringEnds
  <2>3. Edge < Edge'
    BY <1>2, <2>1
  <2> QED BY <1>5, <2>1, <2>2, <2>3
<1>8. CASE ListOpens
  <2>1. Edge < Edge' /\ Edge = pos /\ OpenKept
    BY <1>1, <1>2, <1>8 DEF ListOpens
  <2>2. Fresh(nodes'[Len(nodes) + 1])
    BY <2>1 DEF OpenKept, Fresh, Node, Here
  <2> QED BY <1>3, <2>1, <2>2 DEF OpenKept, Grows
<1>9. CASE ListCloses
  <2>1. Edge < Edge' /\ Edge' = pos + 1 /\ CloseKept
    BY <1>1, <1>2, <1>9 DEF ListCloses
  <2>2. Len(nodes') # Len(nodes) + 1
    BY <1>2, <2>1 DEF CloseKept
  <2>3. nodes[Inner].end = 0 /\ nodes[Inner].kind = "list"
    BY OpenTyped
  <2>4. \A k \in 1..Len(nodes) : Same(nodes'[k], nodes[k])
          /\ nodes'[k].end = IF k = Inner THEN Edge' ELSE nodes[k].end
    BY <2>1 DEF CloseKept
  <2>5. nodes' \in Seq(NodeSet) /\ Len(nodes') = Len(nodes)
    BY <2>1 DEF CloseKept
  <2> QED BY <1>9, <2>1, <2>3, <2>4, <2>5 DEF Grows
<1> QED BY <1>4, <1>6, <1>7, <1>8, <1>9, TreeStep

LEMMA PlacesKept ==
    ASSUME Typed, OpenLists, Buffered, TokenRead, Places, Next
    PROVE  Places'
<1> DEFINE N == Len(nodes)
           E == Edge
           F == Edge'
<1>1. /\ nodes' \in Seq(NodeSet) /\ Len(nodes') \in {N, N + 1}
      /\ \A k \in 1..N :
          /\ Same(nodes'[k], nodes[k])
          /\ \/ nodes'[k].end = nodes[k].end
             \/ nodes[k].end = 0 /\ nodes[k].kind = "list" /\ nodes'[k].end = F /\ E < F
      /\ Len(nodes') # Len(nodes) => Fresh(nodes'[Len(nodes) + 1])
  BY TreeGrows DEF Grows
<1>2. E \in Nat \ {0} /\ F \in Nat \ {0} /\ E <= F
  BY EdgeMoves
<1>3. N \in Nat \ {0} /\ DOMAIN nodes = 1..N /\ DOMAIN nodes' = 1..Len(nodes')
  BY <1>1, OpenTyped
<1>4. \A i \in 1..N : nodes[i].start \in Nat /\ nodes[i].end \in Nat
  BY <1>3, OpenTyped DEF NodeSet
<1>5. /\ nodes[1].start = 1
      /\ \A i \in 1..N :
          /\ nodes[i].start \in 1..E /\ (i # 1 => nodes[i].start < E)
          /\ nodes[i].end # 0 => nodes[i].start < nodes[i].end /\ nodes[i].end <= E
      /\ \A i, j \in 1..N : i < j =>
          /\ i # 1 => nodes[i].start < nodes[j].start
          /\ nodes[i].kind # "list" => nodes[i].end <= nodes[j].start
  BY <1>3 DEF Places
<1>6. \A i \in 1..N : nodes[i].kind # "list" => nodes[i].end # 0
  BY <1>3 DEF OpenLists, Range
<1> HIDE DEF N, E, F
<1>7. ASSUME NEW i \in 1..N
      PROVE  /\ nodes'[i].start \in 1..F /\ (i # 1 => nodes'[i].start < F) /\ nodes'[i].start \in 1..E
             /\ nodes'[i].end # 0 => nodes'[i].start < nodes'[i].end /\ nodes'[i].end <= F
             /\ nodes'[i].start = nodes[i].start /\ nodes'[i].kind = nodes[i].kind
             /\ nodes'[i].kind # "list" => nodes'[i].end = nodes[i].end
  <2>1. nodes'[i].start = nodes[i].start /\ nodes'[i].kind = nodes[i].kind
    BY <1>1 DEF Same
  <2>2. CASE nodes'[i].end = nodes[i].end
    BY <1>2, <1>4, <1>5, <2>1, <2>2
  <2>3. CASE nodes[i].end = 0 /\ nodes[i].kind = "list" /\ nodes'[i].end = F /\ E < F
    BY <1>2, <1>4, <1>5, <2>1, <2>3
  <2> QED BY <1>1, <2>2, <2>3
<1>8. ASSUME NEW i \in 1..N, NEW j \in 1..N, i < j
      PROVE  /\ i # 1 => nodes'[i].start < nodes'[j].start
             /\ nodes'[i].kind # "list" => nodes'[i].end <= nodes'[j].start
  BY <1>5, <1>7, <1>8
<1>9. nodes'[1].start = 1
  BY <1>3, <1>5, <1>7
<1>10. CASE Len(nodes') = N
  <2>1. DOMAIN nodes' = 1..N
    BY <1>3, <1>10
  <2> QED BY <1>7, <1>8, <1>9, <2>1 DEF Places, F
<1>11. CASE Len(nodes') = N + 1
  <2>1. DOMAIN nodes' = 1..N + 1
    BY <1>3, <1>11
  <2>2. Fresh(nodes'[N + 1])
    <3>1. Len(nodes') # N
      BY <1>3, <1>11
    <3> QED BY <1>1, <3>1 DEF N
  <2>3. /\ nodes'[N + 1].start = E /\ E < F
        /\ nodes'[N + 1].kind = "list" => nodes'[N + 1].end = 0
        /\ nodes'[N + 1].kind # "list" => nodes'[N + 1].end = F
    BY <2>2 DEF Fresh, E, F
  <2>4. \A i \in 1..N + 1 : i = N + 1 \/ i \in 1..N
    BY <1>3
  <2>5. ASSUME NEW i \in 1..N + 1
        PROVE  /\ nodes'[i].start \in 1..F /\ (i # 1 => nodes'[i].start < F)
               /\ nodes'[i].end # 0 => nodes'[i].start < nodes'[i].end /\ nodes'[i].end <= F
    <3>1. CASE i = N + 1
      BY <1>2, <2>3, <3>1
    <3> QED BY <1>7, <2>4, <3>1
  <2>6. ASSUME NEW i \in 1..N + 1, NEW j \in 1..N + 1, i < j
        PROVE  /\ i # 1 => nodes'[i].start < nodes'[j].start
               /\ nodes'[i].kind # "list" => nodes'[i].end <= nodes'[j].start
    <3>1. i \in 1..N
      BY <1>3, <2>6
    <3>2. CASE j = N + 1
      BY <1>5, <1>6, <1>7, <2>3, <3>1, <3>2
    <3>3. CASE j \in 1..N
      BY <1>8, <2>6, <3>1, <3>3
    <3> QED BY <2>4, <3>2, <3>3
  <2> QED BY <1>9, <2>1, <2>5, <2>6 DEF Places, F
<1> QED BY <1>1, <1>10, <1>11

-----------------------------------------------------------------------------
(* Lines and columns.                                                      *)

Breaks(i) == {k \in 1..i - 1 : src[k] = "\n"}
Columns(i) == {k \in 1..i : SameLine(k, i)}

LEMMA AtIs ==
    ASSUME NEW i, NEW n
    PROVE  At(i, n) <=> n.line = 1 + Cardinality(Breaks(i)) /\ n.col = Cardinality(Columns(i))
BY DEF At, Breaks, Columns

LEMMA CountsMove ==
    ASSUME src \in Seq(Chars), NEW i \in 1..Len(src)
    PROVE  /\ Cardinality(Breaks(i)) \in Nat /\ Cardinality(Columns(i)) \in Nat
           /\ src[i] = "\n" => /\ Cardinality(Breaks(i + 1)) = Cardinality(Breaks(i)) + 1
                               /\ Cardinality(Columns(i + 1)) = 1
           /\ src[i] # "\n" => /\ Cardinality(Breaks(i + 1)) = Cardinality(Breaks(i))
                               /\ Cardinality(Columns(i + 1)) = Cardinality(Columns(i)) + 1
<1>1. i \in Nat /\ i - 1 \in Nat /\ i - 1 + 1 = i /\ i + 1 - 1 = i
  OBVIOUS
<1>2. Breaks(i) \in SUBSET (1..i - 1) /\ Columns(i) \in SUBSET (1..i)
  BY DEF Breaks, Columns
<1>3. /\ Cardinality(Breaks(i)) \in 0..i - 1
      /\ Cardinality(Breaks(i) \cup {i - 1 + 1}) = Cardinality(Breaks(i)) + 1
  BY <1>1, <1>2, CountNext
<1>4. /\ Cardinality(Columns(i)) \in 0..i
      /\ Cardinality(Columns(i) \cup {i + 1}) = Cardinality(Columns(i)) + 1
  BY <1>1, <1>2, CountNext
<1>5. Breaks(i + 1) = IF src[i] = "\n" THEN Breaks(i) \cup {i} ELSE Breaks(i)
  <2>1. \A k : k \in 1..i + 1 - 1 <=> k \in 1..i - 1 \/ k = i
    BY <1>1
  <2> QED BY <2>1 DEF Breaks
<1>6. ASSUME src[i] = "\n" PROVE Columns(i + 1) = {i + 1}
  <2>1. \A k \in 1..i : ~SameLine(k, i + 1)
    <3>1. \A k \in 1..i : i \in k..i + 1 - 1
      OBVIOUS
    <3> QED BY <1>6, <3>1 DEF SameLine
  <2>2. SameLine(i + 1, i + 1)
    BY DEF SameLine
  <2>3. \A k : k \in 1..i + 1 <=> k \in 1..i \/ k = i + 1
    OBVIOUS
  <2> QED BY <2>1, <2>2, <2>3 DEF Columns
<1>7. ASSUME src[i] # "\n" PROVE Columns(i + 1) = Columns(i) \cup {i + 1}
  <2>1. \A k \in 1..i : SameLine(k, i + 1) <=> SameLine(k, i)
    <3>1. \A k \in 1..i : \A j : j \in k..i + 1 - 1 <=> j \in k..i - 1 \/ j = i
      OBVIOUS
    <3> QED BY <1>7, <3>1 DEF SameLine
  <2>2. SameLine(i + 1, i + 1)
    BY DEF SameLine
  <2>3. \A k : k \in 1..i + 1 <=> k \in 1..i \/ k = i + 1
    OBVIOUS
  <2> QED BY <2>1, <2>2, <2>3 DEF Columns
<1>8. Cardinality({i + 1}) = 1
  BY FS_Singleton
<1>9. Cardinality(Breaks(i) \cup {i}) = Cardinality(Breaks(i)) + 1
  BY <1>1, <1>3
<1>10. Cardinality(Breaks(i)) \in Nat /\ Cardinality(Columns(i)) \in Nat
  BY <1>3, <1>4
<1>11. ASSUME src[i] = "\n"
       PROVE  Cardinality(Breaks(i + 1)) = Cardinality(Breaks(i)) + 1 /\ Cardinality(Columns(i + 1)) = 1
  <2>1. Breaks(i + 1) = Breaks(i) \cup {i}
    BY <1>5, <1>11
  <2> QED BY <1>6, <1>8, <1>9, <1>11, <2>1
<1>12. ASSUME src[i] # "\n"
       PROVE  /\ Cardinality(Breaks(i + 1)) = Cardinality(Breaks(i))
              /\ Cardinality(Columns(i + 1)) = Cardinality(Columns(i)) + 1
  <2>1. Breaks(i + 1) = Breaks(i)
    BY <1>5, <1>12
  <2> QED BY <1>4, <1>7, <1>12, <2>1
<1> QED BY <1>10, <1>11, <1>12

LEMMA HereMoves ==
    ASSUME Typed, At(pos, Here), Get, Peek # EOF, src' = src
    PROVE  At(pos, Here)'
<1>1. pos \in 1..Len(src) /\ Peek = src[pos] /\ pos' = pos + 1
  <2>1. pos' = pos + 1 /\ pos <= Len(src) /\ Peek = src[pos]
    BY GetTyped
  <2> QED BY <2>1 DEF Typed
<1>2. src \in Seq(Chars)
  BY DEF Typed
<1>3. line = 1 + Cardinality(Breaks(pos)) /\ col = Cardinality(Columns(pos))
  BY AtIs DEF Here
<1>4. line' = (IF src[pos] = "\n" THEN line + 1 ELSE line) /\ col' = (IF src[pos] = "\n" THEN 1 ELSE col + 1)
  BY <1>1 DEF Get
<1>5. line' = 1 + Cardinality(Breaks(pos + 1)) /\ col' = Cardinality(Columns(pos + 1))
  BY <1>1, <1>2, <1>3, <1>4, CountsMove
<1> QED BY <1>1, <1>5 DEF At, Breaks, Columns, SameLine, Here

LEMMA NodeAt ==
    ASSUME NEW kind, NEW from, NEW to, NEW text, At(from.start, from)
    PROVE  At(Node(kind, from, to, text).start, Node(kind, from, to, text))
<1> DEFINE n == Node(kind, from, to, text)
<1>1. n.start = from.start /\ n.line = from.line /\ n.col = from.col
  BY DEF Node
<1> HIDE DEF n
<1>2. At(n.start, n)
  BY <1>1 DEF At
<1> QED BY <1>2 DEF n

LEMMA PositionsKept ==
    ASSUME Typed, OpenLists, Buffered, At(pos, Here), PositionsRight, Next
    PROVE  At(pos, Here)' /\ PositionsRight'
<1>1. src' = src /\ (Quiet \/ AtomEnds \/ StringEnds \/ ListOpens \/ ListCloses)
  BY TreeStep
<1>2. At(token.start, token) /\ \A i \in 2..Len(nodes) : At(nodes[i].start, nodes[i])
  BY OpenTyped DEF PositionsRight
<1>3. At(pos, Here)'
  <2>1. ASSUME Stay PROVE At(pos, Here)'
    <3>1. At(pos, Here)'
      BY <1>1, <2>1 DEF Stay, At, SameLine, Here
    <3> QED BY <3>1
  <2>2. ASSUME Get, Peek # EOF PROVE At(pos, Here)'
    BY <1>1, <2>2, HereMoves
  <2>3. Stay \/ (Get /\ Peek # EOF)
    BY QuoteIs DEF Next, SkipSpace, StartComment, CommentChar, OpenList, CloseList, EndOfText, StartAtom,
       StartString,
           ReadAtom, ReadString, ReadEscape, Keep, Dies, OutOfMemory, Overrun, Stops, EOF, Spaces, AtomChar
  <2> QED BY <2>1, <2>2, <2>3
<1>4. At(token.start, token)'
  <2>1. token' = token \/ token' = Here
    BY DEF Next, SkipSpace, StartComment, CommentChar, OpenList, CloseList, EndOfText, StartAtom, StartString,
           ReadAtom, ReadString, ReadEscape, Keep, Dies, Leaf, OutOfMemory, Overrun, Stops
  <2>2. CASE token' = token
    BY <1>1, <1>2, <2>2 DEF At, SameLine
  <2>3. CASE token' = Here
    <3>1. At(Here.start, Here)
      BY DEF Here
    <3> QED BY <1>1, <2>3, <3>1 DEF At, SameLine
  <2> QED BY <2>1, <2>2, <2>3
\* A node keeps its position; a new one gets that of the token, or of where the text is read.
<1>5. ASSUME NEW k \in DOMAIN nodes' \ {1} PROVE At(nodes'[k].start, nodes'[k])
  <2>1. At(Here.start, Here)
    BY DEF Here
  <2>2. CASE Quiet
    BY <1>2, <2>2, OpenTyped DEF Quiet
  <2>3. ASSUME NEW m, Same(nodes'[k], m), At(m.start, m) PROVE At(nodes'[k].start, nodes'[k])
    BY <2>3 DEF Same, At
  <2>4. ASSUME NEW kind, NEW to, LeafStepOf(kind, to) PROVE At(nodes'[k].start, nodes'[k])
    <3>1. k \in 2..Len(nodes) + 1 /\ \A i \in 1..Len(nodes) : Same(nodes'[i], nodes[i])
      BY <2>4 DEF LeafStepOf, LeafKept
    <3>2. nodes'[Len(nodes) + 1] = Node(kind, token, to, buf.text)
      BY <2>4 DEF LeafStepOf, LeafKept
    <3>3. CASE k = Len(nodes) + 1
      BY <1>2, <2>3, <3>2, <3>3, NodeAt
    <3>4. CASE k \in 2..Len(nodes)
      BY <1>2, <2>3, <3>1, <3>4
    <3> QED BY <3>1, <3>3, <3>4, OpenTyped
  <2>5. CASE ListOpens
    <3>1. k \in 2..Len(nodes) + 1 /\ \A i \in 1..Len(nodes) : nodes'[i] = nodes[i]
      BY <2>5 DEF ListOpens, OpenKept
    <3>2. nodes'[Len(nodes) + 1] = Node("list", Here, 0, <<>>)
      BY <2>5 DEF ListOpens, OpenKept
    <3>3. CASE k = Len(nodes) + 1
      BY <2>1, <3>2, <3>3, NodeAt
    <3>4. CASE k \in 2..Len(nodes)
      BY <1>2, <3>1, <3>4
    <3> QED BY <3>1, <3>3, <3>4, OpenTyped
  <2>6. CASE ListCloses
    <3>1. k \in 2..Len(nodes) /\ \A i \in 1..Len(nodes) : Same(nodes'[i], nodes[i])
      BY <2>6 DEF ListCloses, CloseKept
    <3> QED BY <1>2, <2>3, <3>1
  <2> QED BY <1>1, <2>2, <2>4, <2>5, <2>6 DEF AtomEnds, StringEnds
<1>6. \A k \in DOMAIN nodes' \ {1} : At(nodes[k].start, nodes[k])'
  BY <1>1, <1>5 DEF At, SameLine
<1> QED BY <1>3, <1>4, <1>6 DEF PositionsRight

-----------------------------------------------------------------------------
(* Strings and their escapes.                                              *)

LEMMA EscapedNext ==
    ASSUME NEW q \in Nat, NEW i \in Nat, q < i
    PROVE  IF src[i] = "\\" THEN IsEscaped(q, i + 1) <=> ~IsEscaped(q, i) ELSE ~IsEscaped(q, i + 1)
<1>1. i - 1 \in Nat /\ i - 1 + 1 = i /\ i + 1 - 1 = i
  OBVIOUS
<1>2. Slashes(q, i) \in SUBSET (1..i - 1)
  BY DEF Slashes
<1>3. Cardinality(Slashes(q, i)) \in Nat /\ Cardinality(Slashes(q, i) \cup {i}) = Cardinality(Slashes(q, i)) + 1
  <2>1. /\ Cardinality(Slashes(q, i)) \in 0..i - 1
        /\ Cardinality(Slashes(q, i) \cup {i - 1 + 1}) = Cardinality(Slashes(q, i)) + 1
    BY <1>1, <1>2, CountNext
  <2> QED BY <1>1, <2>1
<1>4. CASE src[i] = "\\"
  <2>1. \A k : k \in q + 1..i + 1 - 1 <=> k \in q + 1..i - 1 \/ k = i
    OBVIOUS
  <2>2. \A k \in q + 1..i : \A j : j \in k..i + 1 - 1 <=> j \in k..i - 1 \/ j = i
    OBVIOUS
  <2>3. Slashes(q, i + 1) = Slashes(q, i) \cup {i}
    <3>1. \A k : k \in Slashes(q, i + 1) <=> k \in Slashes(q, i) \/ k = i
      BY <1>4, <2>1, <2>2 DEF Slashes
    <3> QED BY <3>1
  <2>4. Cardinality(Slashes(q, i + 1)) = Cardinality(Slashes(q, i)) + 1
    BY <1>3, <2>3
  <2>5. \A c \in Nat : (c + 1) % 2 = 1 <=> ~(c % 2 = 1)
    OBVIOUS
  <2> QED BY <1>3, <1>4, <2>4, <2>5 DEF IsEscaped
<1>5. CASE src[i] # "\\"
  <2>1. \A k \in q + 1..i + 1 - 1 : i \in k..i + 1 - 1
    OBVIOUS
  <2>2. Slashes(q, i + 1) = {}
    BY <1>5, <2>1 DEF Slashes
  <2>3. Cardinality(Slashes(q, i + 1)) = 0
    BY <2>2, FS_EmptySet
  <2> QED BY <1>5, <2>3 DEF IsEscaped
<1> QED BY <1>4, <1>5

LEMMA SpokenNext ==
    ASSUME NEW q \in Nat, NEW i \in Nat, q < i
    PROVE  /\ Cardinality(Spoken(q, i - 1)) \in Nat
           /\ Speaks(q, i) => /\ Spoken(q, i) = Spoken(q, i - 1) \cup {i}
                              /\ Cardinality(Spoken(q, i)) = Cardinality(Spoken(q, i - 1)) + 1
           /\ ~Speaks(q, i) => Spoken(q, i) = Spoken(q, i - 1)
<1>1. i - 1 \in Nat /\ i - 1 + 1 = i
  OBVIOUS
<1>2. Spoken(q, i - 1) \in SUBSET (1..i - 1)
  BY DEF Spoken
<1>3. Cardinality(Spoken(q, i - 1)) \in Nat /\ Cardinality(Spoken(q, i - 1) \cup {i}) = Cardinality(Spoken(q, i - 1)) + 1
  <2>1. /\ Cardinality(Spoken(q, i - 1)) \in 0..i - 1
        /\ Cardinality(Spoken(q, i - 1) \cup {i - 1 + 1}) = Cardinality(Spoken(q, i - 1)) + 1
    BY <1>1, <1>2, CountNext
  <2> QED BY <1>1, <2>1
<1>4. \A k : k \in q + 1..i <=> k \in q + 1..i - 1 \/ k = i
  OBVIOUS
<1>5. Speaks(q, i) => Spoken(q, i) = Spoken(q, i - 1) \cup {i}
  BY <1>4 DEF Spoken, Speaks
<1>6. ~Speaks(q, i) => Spoken(q, i) = Spoken(q, i - 1)
  BY <1>4 DEF Spoken, Speaks
<1> QED BY <1>3, <1>5, <1>6

LEMMA SpokenCounts ==
    ASSUME NEW q \in Nat, NEW i \in Nat, NEW k \in Spoken(q, i)
    PROVE  Cardinality(Spoken(q, k)) \in 1..Cardinality(Spoken(q, i))
<1>1. k \in Nat /\ q < k /\ k <= i /\ k - 1 \in Nat
  BY DEF Spoken
<1>2. Spoken(q, k) \subseteq Spoken(q, i) /\ Spoken(q, i) \in SUBSET (1..i)
  BY <1>1 DEF Spoken
<1>3. IsFiniteSet(Spoken(q, i))
  BY <1>2, CountNext
<1>4. Cardinality(Spoken(q, k)) <= Cardinality(Spoken(q, i)) /\ Cardinality(Spoken(q, i)) \in Nat
  BY <1>2, <1>3, FS_Subset, FS_CardinalityType
<1>5. Speaks(q, k)
  BY DEF Spoken, Speaks
<1>6. Cardinality(Spoken(q, k)) = Cardinality(Spoken(q, k - 1)) + 1 /\ Cardinality(Spoken(q, k - 1)) \in Nat
  BY <1>1, <1>5, SpokenNext
<1> QED BY <1>4, <1>6

LEMMA HeardNext ==
    ASSUME NEW q \in Nat, NEW i \in Nat, q < i, NEW text \in Seq(Chars), Heard(q, i - 1, text)
    PROVE  /\ Speaks(q, i) => \A ch : ch = Says(q, i) => Heard(q, i, Append(text, ch))
           /\ ~Speaks(q, i) => Heard(q, i, text)
<1>1. CASE Speaks(q, i)
  <2> SUFFICES ASSUME NEW ch, ch = Says(q, i) PROVE Heard(q, i, Append(text, ch))
    BY <1>1
  <2>1. /\ Spoken(q, i) = Spoken(q, i - 1) \cup {i} /\ Cardinality(Spoken(q, i - 1)) \in Nat
        /\ Cardinality(Spoken(q, i)) = Cardinality(Spoken(q, i - 1)) + 1
    BY <1>1, SpokenNext
  <2>2. /\ Len(Append(text, ch)) = Len(text) + 1 /\ Append(text, ch)[Len(text) + 1] = ch
        /\ \A m \in 1..Len(text) : Append(text, ch)[m] = text[m]
    OBVIOUS
  <2>3. Len(text) = Cardinality(Spoken(q, i - 1))
    BY DEF Heard
  <2>4. ASSUME NEW k \in Spoken(q, i - 1)
        PROVE  Append(text, ch)[Cardinality(Spoken(q, k))] = Says(q, k)
    <3>1. i - 1 \in Nat
      OBVIOUS
    <3>2. Cardinality(Spoken(q, k)) \in 1..Len(text)
      BY <2>3, <3>1, SpokenCounts
    <3> QED BY <2>2, <3>2 DEF Heard
  <2>5. Append(text, ch)[Cardinality(Spoken(q, i))] = Says(q, i)
    BY <2>1, <2>2, <2>3
  <2> QED BY <2>1, <2>2, <2>3, <2>4, <2>5 DEF Heard
<1>2. CASE ~Speaks(q, i)
  BY <1>2, SpokenNext DEF Heard
<1> QED BY <1>1, <1>2

LEMMA HeardNothing ==
    ASSUME NEW q \in Nat
    PROVE  Heard(q, q, <<>>) /\ ~IsEscaped(q, q + 1)
<1>1. Spoken(q, q) = {} /\ Slashes(q, q + 1) = {}
  <2>1. q + 1..q = {} /\ q + 1..q + 1 - 1 = {}
    OBVIOUS
  <2> QED BY <2>1 DEF Spoken, Slashes
<1>2. Cardinality(Spoken(q, q)) = 0 /\ Cardinality(Slashes(q, q + 1)) = 0
  BY <1>1, FS_EmptySet
<1> QED BY <1>1, <1>2 DEF Heard, IsEscaped

-----------------------------------------------------------------------------
(* The token.                                                              *)

LEMMA AtomNext ==
    ASSUME src \in Seq(Chars), NEW q \in Nat \ {0}, NEW p \in Nat, q <= p, AtomAt(p),
          NEW text, AtomRead(q, p, text)
    PROVE  AtomRead(q, p + 1, Append(text, src[p]))
<1>1. p \in 1..Len(src) /\ text = SubSeq(src, q, p - 1)
  BY DEF AtomAt, AtomRead
<1>2. Append(text, src[p]) = SubSeq(src, q, p)
  <2>1. text \in Seq(Chars) /\ Len(text) = p - q /\ \A k \in 1..p - q : text[k] = src[q + k - 1]
    BY <1>1
  <2>2. SubSeq(src, q, p) \in Seq(Chars) /\ Len(SubSeq(src, q, p)) = p - q + 1
        /\ \A k \in 1..p - q + 1 : SubSeq(src, q, p)[k] = src[q + k - 1]
    BY <1>1
  <2>3. src[p] \in Chars
    BY <1>1
  <2>4. Append(text, src[p]) \in Seq(Chars) /\ Len(Append(text, src[p])) = p - q + 1
        /\ \A k \in 1..p - q + 1 : Append(text, src[p])[k] = IF k = p - q + 1 THEN src[p] ELSE text[k]
    BY <2>1, <2>3
  <2>5. \A k \in 1..p - q + 1 : Append(text, src[p])[k] = SubSeq(src, q, p)[k]
    <3> SUFFICES ASSUME NEW k \in 1..p - q + 1 PROVE Append(text, src[p])[k] = SubSeq(src, q, p)[k]
      OBVIOUS
    <3>1. CASE k = p - q + 1
      <4>1. q + k - 1 = p
        BY <3>1
      <4> QED BY <2>2, <2>4, <3>1, <4>1
    <3>2. CASE k # p - q + 1
      <4>1. k \in 1..p - q
        BY <3>2
      <4> QED BY <2>1, <2>2, <2>4, <3>2, <4>1
    <3> QED BY <3>1, <3>2
  <2> QED BY <2>2, <2>4, <2>5
<1>3. p + 1 - 1 = p /\ \A k \in q..p : k \in q..p - 1 \/ k = p
  BY <1>1
<1> QED BY <1>1, <1>2, <1>3 DEF AtomRead

LEMMA StringBegins ==
    ASSUME NEW q \in Nat, src[q] = Quote
    PROVE  StringRead(q, q + 1, <<>>, "string")
<1>1. \A p : p = q + 1 => q < p /\ p - 1 = q /\ \A k \in q + 1..p - 1 : FALSE
  OBVIOUS
<1>2. Heard(q, q, <<>>) /\ ~IsEscaped(q, q + 1)
  BY HeardNothing
<1>3. ASSUME NEW p, p = q + 1 PROVE StringRead(q, p, <<>>, "string")
  <2>1. q < p /\ p - 1 = q /\ (\A k \in q + 1..p - 1 : FALSE) /\ ~IsEscaped(q, p)
    BY <1>1, <1>2, <1>3
  <2>2. Heard(q, p - 1, <<>>)
    BY <1>2, <2>1
  <2> QED BY <2>1, <2>2 DEF StringRead
<1> QED BY <1>3

LEMMA StringNext ==
    ASSUME src \in Seq(Chars), NEW q \in Nat \ {0}, NEW p \in Nat, NEW text \in Seq(Chars), NEW loop,
           StringRead(q, p, text, loop), src[p] = Quote => IsEscaped(q, p)
    PROVE  /\ Speaks(q, p) => \A ch : ch = Says(q, p) =>
                 StringRead(q, p + 1, Append(text, ch), "string")
           /\ ~Speaks(q, p) => StringRead(q, p + 1, text, "escape")
<1>1. q < p /\ src[q] = Quote /\ Heard(q, p - 1, text) /\ p + 1 - 1 = p /\ q < p + 1
  BY DEF StringRead
<1>2. \A k \in q + 1..p : src[k] = Quote => IsEscaped(q, k)
  <2>1. \A k \in q + 1..p : k \in q + 1..p - 1 \/ k = p
    OBVIOUS
  <2> QED BY <2>1 DEF StringRead
<1>3. IsEscaped(q, p + 1) <=> ~Speaks(q, p)
  BY <1>1, EscapedNext DEF Speaks
<1>4. /\ Speaks(q, p) => \A ch : ch = Says(q, p) => Heard(q, p, Append(text, ch))
      /\ ~Speaks(q, p) => Heard(q, p, text)
  BY <1>1, HeardNext
<1> QED BY <1>1, <1>2, <1>3, <1>4 DEF StringRead

LEMMA AtomChars ==
    ASSUME Typed
    PROVE  AtomChar(Peek) <=> AtomAt(pos)
<1>1. CASE Peek = EOF
  <2>1. pos \notin DOMAIN src
    BY <1>1, PeekTyped DEF Typed
  <2> QED BY <1>1, <2>1 DEF AtomChar, AtomAt
<1>2. CASE Peek # EOF
  <2>1. pos \in DOMAIN src /\ Peek = src[pos] /\ Peek \in Chars
    BY <1>2, PeekTyped DEF Typed
  <2>2. AtomChar(Peek) <=> Peek \in {"n", "\\"}
    BY <1>2, <2>1, QuoteIs DEF AtomChar, Spaces, Chars, EOF
  <2> QED BY <2>1, <2>2 DEF AtomAt
<1> QED BY <1>1, <1>2

LEMMA TokenKept ==
    ASSUME Typed, OpenLists, Buffered, TokenRead, Next
    PROVE  TokenRead'
<1>1. src' = src
  BY TreeStep
<1>2. TokenRead' <=> TokenIs(mode', pos', token'.start, buf'.text)
  BY <1>1 DEF TokenRead, TokenIs, AtomRead, StringRead, Heard, AtomAt, IsEscaped, Slashes, Spoken, Says
<1>3. TokenIs(mode, pos, token.start, buf.text)
  BY DEF TokenRead
<1>4. /\ src \in Seq(Chars) /\ pos \in Nat \ {0} /\ pos' \in Nat \ {0} /\ buf.text \in Seq(Chars)
      /\ token.start \in 1..pos /\ Here.start = pos
  <2>1. pos' \in Nat \ {0}
    BY PlacesAfter, TypedKept
  <2> QED BY <2>1 DEF Typed, Here, Bufs
<1>5. pos' = pos + 1 => pos' - 1 = pos
  BY <1>4
<1>6. Stay \/ Get => pos' \in {pos, pos + 1}
  BY DEF Stay, Get
\* Between two tokens.
<1>7. ASSUME mode' = "skip", pos' = pos + 1, ~AtomAt(pos) PROVE TokenRead'
  BY <1>2, <1>5, <1>7 DEF TokenIs
<1>8. ASSUME mode' = "skip", pos' = pos, ~AtomAt(pos) PROVE TokenRead'
  BY <1>2, <1>8 DEF TokenIs
<1>9. ASSUME mode' \in {"comment"} \cup Ended PROVE TokenRead'
  BY <1>2, <1>9 DEF TokenIs, Ended
<1>10. ~AtomAt(pos) <=> ~AtomChar(Peek)
  BY AtomChars
<1>11. CASE SkipSpace
  <2>1. mode' = "skip" /\ pos' = pos + 1 /\ ~AtomChar(Peek)
    BY <1>11 DEF SkipSpace, Get, AtomChar
  <2> QED BY <1>7, <1>10, <2>1
<1>12. CASE StartComment
  BY <1>9, <1>12 DEF StartComment
<1>13. CASE CommentChar
  <2>1. CASE Peek = EOF
    <3>1. mode' = "skip" /\ pos' = pos /\ ~AtomChar(Peek)
      BY <1>13, <2>1 DEF CommentChar, Stay, AtomChar
    <3> QED BY <1>8, <1>10, <3>1
  <2>2. CASE Peek = "\n"
    <3>1. mode' = "skip" /\ pos' = pos + 1 /\ ~AtomChar(Peek)
      BY <1>13, <2>2 DEF CommentChar, Get, AtomChar, Spaces, EOF
    <3> QED BY <1>7, <1>10, <3>1
  <2>3. CASE Peek \notin {EOF, "\n"}
    BY <1>9, <1>13, <2>3 DEF CommentChar
  <2> QED BY <2>1, <2>2, <2>3
<1>14. CASE OpenList
  <2>1. mode' = "skip" /\ pos' = pos + 1 /\ ~AtomChar(Peek)
    BY <1>14 DEF OpenList, Get, AtomChar
  <2> QED BY <1>7, <1>10, <2>1
<1>15. CASE CloseList
  <2>1. mode' \in {"skip", "died"} /\ pos' = pos + 1 /\ ~AtomChar(Peek)
    BY <1>15 DEF CloseList, Get, AtomChar
  <2> QED BY <1>7, <1>9, <1>10, <2>1 DEF Ended
<1>16. CASE EndOfText
  BY <1>9, <1>16 DEF EndOfText, Ended
<1>17. CASE StartAtom
  <2>1. mode = "skip" /\ mode' = "atom" /\ pos' = pos /\ token' = Here /\ buf' = EmptyBuf /\ AtomAt(pos)
    BY <1>17, AtomChars DEF StartAtom, Stay
  <2>2. AtomRead(pos, pos, <<>>)
    <3>1. pos # 1 => ~AtomAt(pos - 1)
      BY <1>3, <2>1 DEF TokenIs
    <3>2. pos..pos - 1 = {} /\ SubSeq(src, pos, pos - 1) = <<>>
      BY <1>4
    <3> QED BY <2>1, <3>1, <3>2 DEF AtomRead
  <2> QED BY <1>2, <1>4, <2>1, <2>2 DEF TokenIs, EmptyBuf
<1>18. CASE StartString
  <2>1. mode' = "string" /\ pos' = pos + 1 /\ token' = Here /\ buf' = EmptyBuf /\ Peek = Quote /\ Peek # EOF
    BY <1>18, QuoteIs DEF StartString, Get
  <2>2. StringRead(pos, pos + 1, <<>>, "string")
    <3>1. src[pos] = Quote
      BY <2>1, PeekTyped
    <3> QED BY <1>4, <3>1, StringBegins
  <2> QED BY <1>2, <1>4, <2>1, <2>2 DEF TokenIs, EmptyBuf
<1>19. CASE ReadAtom
  <2>1. CASE AtomChar(Peek)
    <3>1. /\ mode = "atom" /\ mode' \in {"atom", "hung"} /\ pos' = pos + 1 /\ token' = token
          /\ buf'.text = Append(buf.text, Peek)
      BY <1>19, <2>1 DEF ReadAtom, Keep, Get, Append1
    <3>2. Peek = src[pos] /\ AtomAt(pos)
      <4>1. Peek # EOF
        BY <2>1 DEF AtomChar
      <4> QED BY <2>1, <4>1, PeekTyped, AtomChars
    <3>3. AtomRead(token.start, pos, buf.text)
      BY <1>3, <3>1 DEF TokenIs
    <3>4. AtomRead(token.start, pos + 1, Append(buf.text, src[pos]))
      BY <1>4, <3>2, <3>3, AtomNext
    <3> QED BY <1>2, <1>9, <3>1, <3>2, <3>4 DEF TokenIs, Ended
  <2>2. CASE ~AtomChar(Peek)
    <3>1. mode' = "skip" /\ pos' = pos
      BY <1>19, <2>2 DEF ReadAtom, Leaf, Stay
    <3> QED BY <1>8, <1>10, <2>2, <3>1
  <2> QED BY <2>1, <2>2
<1>20. ASSUME mode \in {"string", "escape"} PROVE StringRead(token.start, pos, buf.text, mode)
  BY <1>3, <1>20 DEF TokenIs
<1>21. CASE ReadString
  <2>1. mode = "string" /\ StringRead(token.start, pos, buf.text, mode) /\ ~IsEscaped(token.start, pos)
    BY <1>20, <1>21 DEF ReadString, StringRead
  <2>2. CASE Peek = EOF
    BY <1>9, <1>21, <2>2, QuoteIs DEF ReadString, Dies, EOF, Ended
  <2>3. CASE Peek = Quote
    <3>1. mode' = "skip" /\ pos' = pos + 1 /\ ~AtomChar(Peek)
      BY <1>21, <2>3, QuoteIs DEF ReadString, Leaf, Get, AtomChar
    <3> QED BY <1>7, <1>10, <3>1
  <2>4. CASE Peek = "\\"
    <3>1. mode' = "escape" /\ pos' = pos + 1 /\ token' = token /\ buf' = buf /\ Peek # EOF
      BY <1>21, <2>4, QuoteIs DEF ReadString, Get, EOF
    <3>2. src[pos] = "\\" /\ ~Speaks(token.start, pos)
      BY <2>1, <2>4, <3>1, PeekTyped DEF Speaks
    <3>3. src[pos] # Quote
      BY <3>2, QuoteIs
    <3>4. StringRead(token.start, pos + 1, buf.text, "escape")
      BY <1>4, <2>1, <3>2, <3>3, StringNext
    <3> QED BY <1>2, <3>1, <3>4 DEF TokenIs
  <2>5. CASE Peek \notin {EOF, Quote, "\\"}
    <3>1. /\ mode' \in {"string", "hung"} /\ pos' = pos + 1 /\ token' = token
          /\ buf'.text = Append(buf.text, Peek)
      BY <1>21, <2>5 DEF ReadString, Keep, Get, Append1
    <3>2. Peek = src[pos] /\ Speaks(token.start, pos) /\ Says(token.start, pos) = src[pos]
      BY <2>1, <2>5, PeekTyped DEF Speaks, Says
    <3>3. src[pos] # Quote
      BY <2>5, <3>2
    <3>4. StringRead(token.start, pos + 1, Append(buf.text, src[pos]), "string")
      BY <1>4, <2>1, <3>2, <3>3, StringNext
    <3> QED BY <1>2, <1>9, <3>1, <3>2, <3>4 DEF TokenIs, Ended
  <2> QED BY <2>2, <2>3, <2>4, <2>5
<1>22. CASE ReadEscape
  <2>1. mode = "escape" /\ StringRead(token.start, pos, buf.text, mode) /\ IsEscaped(token.start, pos)
    BY <1>20, <1>22 DEF ReadEscape, StringRead
  <2>2. CASE Peek = EOF
    BY <1>9, <1>22, <2>2 DEF ReadEscape, Dies, Ended
  <2>3. CASE Peek # EOF
    <3>1. /\ mode' \in {"string", "hung"} /\ pos' = pos + 1 /\ token' = token
          /\ buf'.text = Append(buf.text, Escaped(Peek))
      BY <1>22, <2>3 DEF ReadEscape, Keep, Get, Append1
    <3>2. Peek = src[pos] /\ Speaks(token.start, pos) /\ Says(token.start, pos) = Escaped(Peek)
      BY <2>1, <2>3, PeekTyped DEF Speaks, Says, Escaped
    <3>3. StringRead(token.start, pos + 1, Append(buf.text, Escaped(Peek)), "string")
      BY <1>4, <2>1, <3>2, StringNext
    <3> QED BY <1>2, <1>9, <3>1, <3>3 DEF TokenIs, Ended
  <2> QED BY <2>2, <2>3
<1>23. CASE OutOfMemory \/ Overrun
  BY <1>9, <1>23, Halting DEF Halts, Stops, Ended
<1> QED BY <1>11, <1>12, <1>13, <1>14, <1>15, <1>16, <1>17, <1>18, <1>19, <1>21, <1>22, <1>23 DEF Next

-----------------------------------------------------------------------------
(* The leaves.                                                             *)

LEMMA LeavesKept ==
    ASSUME Typed, OpenLists, Buffered, TokenRead, LeavesRight, Next
    PROVE  LeavesRight'
<1>1. src' = src /\ (Quiet \/ AtomEnds \/ StringEnds \/ ListOpens \/ ListCloses)
  BY TreeStep
<1>2. \A k \in 1..Len(nodes) : LeafRight(nodes[k])
  BY OpenTyped DEF LeavesRight
<1>3. src \in Seq(Chars) /\ pos \in Nat \ {0} /\ pos <= Len(src) + 1 /\ token.start \in 1..pos
  BY DEF Typed
<1>4. ASSUME NEW m, NEW n, LeafRight(n), Same(m, n), m.end = n.end PROVE LeafRight(m)
  BY <1>4 DEF LeafRight, Same, AtomWhole, StringText
<1>5. ASSUME NEW kind, NEW to, LeafStepOf(kind, to), LeafRight(Node(kind, token, to, buf.text)),
        NEW k \in DOMAIN nodes'
      PROVE  LeafRight(nodes'[k])
  <2>1. /\ k \in 1..Len(nodes) + 1
        /\ \A i \in 1..Len(nodes) : Same(nodes'[i], nodes[i]) /\ nodes'[i].end = nodes[i].end
    BY <1>5 DEF LeafStepOf, LeafKept
  <2>2. nodes'[Len(nodes) + 1] = Node(kind, token, to, buf.text)
    BY <1>5 DEF LeafStepOf, LeafKept
  <2>3. CASE k = Len(nodes) + 1
    BY <1>5, <2>2, <2>3
  <2>4. CASE k \in 1..Len(nodes)
    BY <1>2, <1>4, <2>1, <2>4
  <2> QED BY <2>1, <2>3, <2>4, OpenTyped
<1>6. ASSUME AtomEnds PROVE LeafRight(Node("atom", token, pos, buf.text))
  <2> DEFINE n == Node("atom", token, pos, buf.text)
  <2>1. n.kind = "atom" /\ n.start = token.start /\ n.end = pos /\ n.text = buf.text
    BY DEF Node
  <2>2. AtomRead(token.start, pos, buf.text) /\ ~AtomAt(pos)
    BY <1>6, AtomChars DEF AtomEnds, TokenRead, TokenIs
  <2> HIDE DEF n
  <2>3. \A k \in n.start..n.end - 1 : src[k] \in {"n", "\\"}
    BY <2>1, <2>2 DEF AtomRead, AtomAt
  <2>4. n.start # 1 => src[n.start - 1] \notin {"n", "\\"}
    <3>1. n.start # 1 => n.start - 1 \in DOMAIN src
      BY <1>3, <2>1
    <3> QED BY <2>1, <2>2, <3>1 DEF AtomRead, AtomAt
  <2>5. n.end <= Len(src) => src[n.end] \notin {"n", "\\"}
    <3>1. n.end <= Len(src) => n.end \in DOMAIN src
      BY <1>3, <2>1
    <3> QED BY <2>1, <2>2, <3>1 DEF AtomAt
  <2>6. n.text = SubSeq(src, n.start, n.end - 1)
    BY <2>1, <2>2 DEF AtomRead
  <2>7. LeafRight(n)
    BY <2>1, <2>3, <2>4, <2>5, <2>6 DEF LeafRight, AtomWhole
  <2> QED BY <2>7 DEF n
<1>7. ASSUME StringEnds PROVE LeafRight(Node("string", token, pos + 1, buf.text))
  <2> DEFINE n == Node("string", token, pos + 1, buf.text)
  <2>1. n.kind = "string" /\ n.start = token.start /\ n.end = pos + 1 /\ n.text = buf.text /\ n.end - 1 = pos
    <3>1. n.kind = "string" /\ n.start = token.start /\ n.end = pos + 1 /\ n.text = buf.text
      BY DEF Node
    <3>2. \A e : e = pos + 1 => e - 1 = pos
      BY <1>3
    <3> QED BY <3>1, <3>2
  <2>2. StringRead(token.start, pos, buf.text, "string") /\ src[pos] = Quote
    <3>1. mode = "string" /\ Peek = Quote /\ Peek # EOF
      BY <1>7, QuoteIs DEF StringEnds
    <3> QED BY <3>1, PeekTyped DEF TokenRead, TokenIs
  <2> HIDE DEF n
  <2>3. \A k \in token.start + 1..pos : (k \in token.start + 1..pos - 1 /\ k # pos) \/ k = pos
    BY <1>3
  <2>4. ~IsEscaped(token.start, pos) /\ \A k \in token.start + 1..pos - 1 : src[k] = Quote
          => IsEscaped(token.start, k)
    BY <2>2 DEF StringRead
  <2>5. \A k \in token.start + 1..pos : src[k] = Quote => (k = pos <=> ~IsEscaped(token.start, k))
    BY <2>3, <2>4
  <2>6. StringText(n, pos)
    BY <2>1, <2>2, <2>5 DEF StringRead, StringText
  <2>7. LeafRight(n)
    BY <2>1, <2>6 DEF LeafRight
  <2> QED BY <2>7 DEF n
<1>8. ASSUME NEW k \in DOMAIN nodes' PROVE LeafRight(nodes'[k])
  <2>1. CASE Quiet
    BY <1>2, <1>8, <2>1, OpenTyped DEF Quiet
  <2>2. CASE AtomEnds
    BY <1>5, <1>6, <1>8, <2>2 DEF AtomEnds
  <2>3. CASE StringEnds
    BY <1>5, <1>7, <1>8, <2>3 DEF StringEnds
  <2>4. CASE ListOpens
    <3>1. k \in 1..Len(nodes) + 1 /\ \A i \in 1..Len(nodes) : nodes'[i] = nodes[i]
      BY <1>8, <2>4 DEF ListOpens, OpenKept
    <3>2. nodes'[Len(nodes) + 1] = Node("list", Here, 0, <<>>)
      BY <2>4 DEF ListOpens, OpenKept
    <3>3. Node("list", Here, 0, <<>>).kind = "list"
      BY DEF Node
    <3>4. CASE k = Len(nodes) + 1
      BY <3>2, <3>3, <3>4 DEF LeafRight
    <3>5. CASE k \in 1..Len(nodes)
      BY <1>2, <3>1, <3>5
    <3> QED BY <3>1, <3>4, <3>5, OpenTyped
  <2>5. CASE ListCloses
    <3>1. k \in 1..Len(nodes) /\ Same(nodes'[k], nodes[k])
            /\ nodes'[k].end = IF k = Inner THEN pos + 1 ELSE nodes[k].end
      <4>1. k \in 1..Len(nodes)
        BY <1>8, <2>5 DEF ListCloses, CloseKept
      <4>2. \A j \in 1..Len(nodes) : /\ Same(nodes'[j], nodes[j])
                                     /\ nodes'[j].end = IF j = Inner THEN pos + 1 ELSE nodes[j].end
        BY <2>5 DEF ListCloses, CloseKept
      <4> QED BY <4>1, <4>2
    <3>2. CASE k = Inner
      <4>1. nodes'[k].kind = "list"
        BY <3>1, <3>2, OpenTyped DEF Same
      <4> QED BY <4>1 DEF LeafRight
    <3>3. CASE k # Inner
      BY <1>2, <1>4, <3>1, <3>3
    <3> QED BY <3>2, <3>3
  <2> QED BY <1>1, <2>1, <2>2, <2>3, <2>4, <2>5
<1>9. ASSUME NEW k \in DOMAIN nodes' PROVE LeafRight(nodes[k])'
  <2>1. LeafRight(nodes'[k])
    BY <1>8
  <2>2. AtomWhole(nodes[k])' <=> AtomWhole(nodes'[k])
    BY <1>1 DEF AtomWhole
  <2>3. (\A q, i, t : Heard(q, i, t)' <=> Heard(q, i, t)) /\ \A q, i : IsEscaped(q, i)' <=> IsEscaped(q, i)
    BY <1>1 DEF Heard, IsEscaped, Slashes, Spoken, Says
  <2>4. StringText(nodes[k], nodes[k].end - 1)' <=> StringText(nodes'[k], nodes'[k].end - 1)
    BY <1>1, <2>3 DEF StringText
  <2> QED BY <1>1, <2>1, <2>2, <2>4 DEF LeafRight
<1> QED BY <1>9 DEF LeavesRight

LEMMA LeavesSay ==
    ASSUME LeavesRight
    PROVE  TextKept
BY DEF LeavesRight, LeafRight, StringText, Heard, TextKept, Leaves

-----------------------------------------------------------------------------
(* What is between the nodes.                                              *)

\* Character i is one of a node's own, and node k is the one of the tree.
Owns(n, i) == IF n.kind # "list" THEN i \in n.start..n.end - 1 ELSE n.end # 0 /\ i = n.end - 1
Begins(n, k, i) == n.kind = "list" /\ k # 1 /\ i = n.start

CoveredIff == \A c : c \in Covered <=> \E k \in DOMAIN nodes : Owns(nodes[k], c) \/ Begins(nodes[k], k, c)
LEMMA CoveredIs == CoveredIff
<1> SUFFICES ASSUME NEW c PROVE c \in Covered <=> \E k \in DOMAIN nodes : Owns(nodes[k], c) \/ Begins(nodes[k], k, c)
  BY DEF CoveredIff
<1> DEFINE A == UNION {nodes[i].start..nodes[i].end - 1 : i \in Leaves}
           B == {nodes[i].start : i \in Lists \ {1}}
           C == {nodes[i].end - 1 : i \in Lists \cap Closed}
<1>1. c \in A <=> \E k \in DOMAIN nodes : nodes[k].kind # "list" /\ c \in nodes[k].start..nodes[k].end - 1
  BY DEF Leaves
<1>2. c \in B <=> \E k \in DOMAIN nodes : Begins(nodes[k], k, c)
  BY DEF Lists, Leaves, Begins
<1>3. c \in C <=> \E k \in DOMAIN nodes : nodes[k].kind = "list" /\ nodes[k].end # 0 /\ c = nodes[k].end - 1
  BY DEF Lists, Leaves, Closed
<1>4. c \in Covered <=> c \in A \/ c \in B \/ c \in C
  BY DEF Covered
<1> HIDE DEF A, B, C
<1> QED BY <1>1, <1>2, <1>3, <1>4 DEF Owns

LEMMA CoveredIsNext == CoveredIff'
BY CoveredIs, PTL

LEMMA CoveredBehind ==
    ASSUME Typed, OpenLists, Places, Edge \in Nat
    PROVE  \A i \in Covered : i \in 1..Edge - 1
<1> SUFFICES ASSUME NEW i \in Covered PROVE i \in 1..Edge - 1
  OBVIOUS
<1> DEFINE E == Edge
<1>1. PICK k \in 1..Len(nodes) : Owns(nodes[k], i) \/ Begins(nodes[k], k, i)
  BY CoveredIs, OpenTyped DEF CoveredIff
<1>2. /\ nodes[k].start \in 1..E /\ (k # 1 => nodes[k].start < E)
      /\ nodes[k].end # 0 => nodes[k].start < nodes[k].end /\ nodes[k].end <= E
      /\ nodes[k].kind # "list" => nodes[k].end # 0
  BY OpenTyped DEF Places, OpenLists, Range
<1>3. E \in Nat /\ nodes[k].start \in Nat /\ nodes[k].end \in Nat
  BY OpenTyped DEF NodeSet
<1> HIDE DEF E
<1>4. i \in 1..E - 1
  BY <1>1, <1>2, <1>3 DEF Owns, Begins
<1> QED BY <1>4 DEF E

TreeMoves == AtomEnds \/ StringEnds \/ ListOpens \/ ListCloses

LEMMA CoveredGrows ==
    ASSUME Typed, OpenLists, Buffered, TokenRead, Places, Next
    PROVE  /\ Quiet => Covered' = Covered
           /\ TreeMoves => Covered' = Covered \cup (Edge..Edge' - 1)
<1> DEFINE N == Len(nodes)
           E == Edge
           F == Edge'
<1>1. /\ nodes' \in Seq(NodeSet) /\ Len(nodes') \in {N, N + 1}
      /\ \A k \in 1..N :
          /\ Same(nodes'[k], nodes[k])
          /\ \/ nodes'[k].end = nodes[k].end
             \/ ListCloses /\ k = Inner /\ nodes[k].end = 0 /\ nodes[k].kind = "list" /\ nodes'[k].end = F
      /\ Len(nodes') # Len(nodes) => Fresh(nodes'[Len(nodes) + 1])
  BY TreeGrows DEF Grows
<1>2. E \in Nat \ {0} /\ F \in Nat \ {0} /\ (ListOpens \/ ListCloses => F = E + 1)
  BY EdgeMoves
<1>3. N \in Nat \ {0} /\ DOMAIN nodes = 1..N /\ DOMAIN nodes' = 1..Len(nodes') /\ Inner \in 1..N
  BY <1>1, OpenTyped
<1>4. N + 1 # N
  <2>1. \A x \in Nat : x + 1 # x
    OBVIOUS
  <2> QED BY <1>3, <2>1
<1>5. ASSUME Quiet PROVE Covered' = Covered
  <2>1. \A c : c \in Covered' <=> c \in Covered
    BY <1>5, CoveredIs, CoveredIsNext DEF CoveredIff, Quiet
  <2> QED BY <2>1
<1>6. ASSUME NEW k \in 1..N, NEW i, ~(ListCloses /\ k = Inner)
      PROVE  (Owns(nodes'[k], i) <=> Owns(nodes[k], i)) /\ (Begins(nodes'[k], k, i) <=> Begins(nodes[k], k, i))
  BY <1>1, <1>6 DEF Same, Owns, Begins
<1>7. ASSUME Len(nodes') = N + 1, Fresh(nodes'[N + 1]), ~ListCloses,
             nodes'[N + 1].kind = "list" => F = E + 1
      PROVE  Covered' = Covered \cup (E..F - 1)
  <2>1. ASSUME NEW i PROVE Owns(nodes'[N + 1], i) \/ Begins(nodes'[N + 1], N + 1, i) <=> i \in E..F - 1
    <3>1. nodes'[N + 1].start = E /\ IF nodes'[N + 1].kind = "list" THEN nodes'[N + 1].end = 0 ELSE nodes'[N + 1].end = F
      BY <1>7 DEF Fresh
    <3>2. N + 1 # 1
      BY <1>3
    <3> HIDE DEF N, E, F
    <3>3. CASE nodes'[N + 1].kind # "list"
      BY <3>1, <3>3 DEF Owns, Begins
    <3>4. CASE nodes'[N + 1].kind = "list"
      <4>1. i \in E..F - 1 <=> i = E
        BY <1>2, <1>7, <3>4
      <4> QED BY <3>1, <3>2, <3>4, <4>1 DEF Owns, Begins
    <3> QED BY <3>3, <3>4
  <2>2. ASSUME NEW i PROVE i \in Covered' <=> i \in Covered \/ i \in E..F - 1
    <3> HIDE DEF E, F
    <3>1. i \in Covered <=> \E k \in 1..N : Owns(nodes[k], i) \/ Begins(nodes[k], k, i)
      BY <1>3, CoveredIs DEF CoveredIff
    <3>2. i \in Covered' <=> \E k \in 1..N + 1 : Owns(nodes'[k], i) \/ Begins(nodes'[k], k, i)
      BY <1>3, <1>7, CoveredIsNext DEF CoveredIff
    <3> HIDE DEF N
    <3>3. \A k : k \in 1..N + 1 <=> k \in 1..N \/ k = N + 1
      BY <1>3
    <3> QED BY <1>6, <1>7, <2>1, <3>1, <3>2, <3>3
  <2> HIDE DEF E, F
  <2> QED BY <2>2
<1>8. ASSUME ListCloses PROVE Covered' = Covered \cup (E..F - 1)
  <2>1. Len(nodes') = N
    BY <1>8 DEF ListCloses, CloseKept
  <2>2. /\ nodes'[Inner].end = F /\ nodes[Inner].end = 0 /\ nodes[Inner].kind = "list"
        /\ nodes'[Inner].kind = "list" /\ nodes'[Inner].start = nodes[Inner].start
    <3>1. Same(nodes'[Inner], nodes[Inner]) /\ nodes'[Inner].end = pos + 1 /\ F = pos + 1
      BY <1>3, <1>8, EdgeMoves DEF ListCloses, CloseKept
    <3> QED BY <3>1, OpenTyped DEF Same
  <2>3. ASSUME NEW i PROVE /\ ~Owns(nodes[Inner], i) /\ (Begins(nodes'[Inner], Inner, i) <=> Begins(nodes[Inner], Inner, i))
                           /\ Owns(nodes'[Inner], i) <=> i \in E..F - 1
    <3> HIDE DEF E, F
    <3>1. i \in E..F - 1 <=> i = F - 1
      BY <1>2, <1>8
    <3> QED BY <1>2, <2>2, <3>1 DEF Owns, Begins
  <2>4. ASSUME NEW i PROVE i \in Covered' <=> i \in Covered \/ i \in E..F - 1
    <3> HIDE DEF E, F
    <3>1. i \in Covered <=> \E k \in 1..N : Owns(nodes[k], i) \/ Begins(nodes[k], k, i)
      BY <1>3, CoveredIs DEF CoveredIff
    <3>2. i \in Covered' <=> \E k \in 1..N : Owns(nodes'[k], i) \/ Begins(nodes'[k], k, i)
      BY <1>3, <2>1, CoveredIsNext DEF CoveredIff
    <3> HIDE DEF N
    <3> QED BY <1>3, <1>6, <2>3, <3>1, <3>2
  <2> HIDE DEF E, F
  <2> QED BY <2>4
<1>9. ASSUME AtomEnds \/ StringEnds PROVE Covered' = Covered \cup (E..F - 1)
  <2>1. Len(nodes') = N + 1 /\ nodes'[N + 1].kind # "list"
    BY <1>9 DEF AtomEnds, StringEnds, LeafStepOf, LeafKept, Node
  <2>2. ~ListCloses
    BY <1>9 DEF AtomEnds, StringEnds, ListCloses
  <2>3. Fresh(nodes'[N + 1])
    BY <1>1, <1>4, <2>1
  <2> QED BY <1>7, <2>1, <2>2, <2>3
<1>10. ASSUME ListOpens PROVE Covered' = Covered \cup (E..F - 1)
  <2>1. Len(nodes') = N + 1
    BY <1>10 DEF ListOpens, OpenKept
  <2>2. ~ListCloses
    BY <1>10 DEF ListOpens, ListCloses
  <2>3. Fresh(nodes'[N + 1])
    BY <1>1, <1>4, <2>1
  <2>4. F = E + 1
    BY <1>2, <1>10
  <2> QED BY <1>7, <2>1, <2>2, <2>3, <2>4
<1> QED BY <1>5, <1>8, <1>9, <1>10 DEF TreeMoves

LEMMA EdgeStep ==
    ASSUME Typed, OpenLists, Next
    PROVE  TreeMoves \/ (Quiet /\ (Edge' = Edge \/ SkipSpace \/ StartComment \/ CommentChar))
<1> SUFFICES ASSUME ~TreeMoves, ~SkipSpace, ~StartComment, ~CommentChar PROVE Edge' = Edge
  BY TreeStep DEF TreeMoves
<1>1. Here.start = pos
  BY DEF Here
<1>2. Quiet
  BY TreeStep DEF TreeMoves
<1>3. ASSUME NEW kind \in {"atom", "string"}, NEW to \in Nat, Leaf(kind, to) PROVE FALSE
  <2>1. Len(nodes') = Len(nodes) + 1
    BY <1>3, LeafStep DEF LeafKept
  <2> QED BY <1>2, <2>1, OpenTyped DEF Quiet
<1>4. pos \in Nat /\ pos + 1 \in Nat
  BY DEF Typed
<1>5. CASE OpenList
  <2>1. Len(nodes') = Len(nodes) + 1
    BY <1>5, OpenStep DEF OpenKept
  <2> QED BY <1>2, <2>1, OpenTyped DEF Quiet
<1>6. CASE CloseList
  <2>1. CASE Len(open) = 1
    BY <1>1, <1>6, <2>1 DEF CloseList, Edge
  <2>2. CASE Len(open) # 1
    <3>1. Len(open') = Len(open) - 1
      BY <1>6, <2>2, CloseStep DEF CloseKept
    <3> QED BY <1>2, <3>1, OpenTyped DEF Quiet
  <2> QED BY <2>1, <2>2
<1>7. CASE EndOfText \/ StartAtom \/ StartString
  BY <1>1, <1>7 DEF EndOfText, StartAtom, StartString, Edge
<1>8. CASE ReadAtom
  <2>1. AtomChar(Peek)
    BY <1>3, <1>4, <1>8 DEF ReadAtom
  <2> QED BY <1>8, <2>1 DEF ReadAtom, Keep, Edge
<1>9. CASE ReadString
  <2>1. ~Leaf("string", pos + 1)
    BY <1>3, <1>4
  <2> QED BY <1>9, <2>1 DEF ReadString, Keep, Dies, Edge
<1>10. CASE ReadEscape
  BY <1>10 DEF ReadEscape, Keep, Dies, Edge
<1>11. CASE OutOfMemory \/ Overrun
  <2>1. Stops("exhausted") \/ Stops("overrun")
    BY <1>11, Halting DEF Halts
  <2>2. mode = "skip" \/ mode \in Reading
    BY <1>11 DEF OutOfMemory, Overrun, LeafEnds, ListEnds, CharKept, Reading
  <2> QED BY <1>1, <2>1, <2>2 DEF Stops, Edge, Reading
<1> QED BY <1>5, <1>6, <1>7, <1>8, <1>9, <1>10, <1>11 DEF Next

LEMMA PassedStays ==
    ASSUME NEW cov, NEW e \in Nat, NEW new, \A c \in new : c >= e, NEW i \in Nat, i < e, Passed(i, cov)
    PROVE  Passed(i, cov \cup new)
<1>1. \A k \in 1..i : \A c \in k..i : c \notin new
  OBVIOUS
<1> QED BY <1>1 DEF Passed, Bare

LEMMA SameLineNext ==
    ASSUME NEW k \in Nat, NEW i \in Nat, k <= i
    PROVE  SameLine(k, i + 1) <=> SameLine(k, i) /\ src[i] # "\n"
<1>1. \A j : j \in k..i + 1 - 1 <=> j \in k..i - 1 \/ j = i
  OBVIOUS
<1> QED BY <1>1 DEF SameLine

\* A blank, or a character of a comment.
LEMMA SkippedOver ==
    ASSUME Typed, Gaps, \A i \in Covered : i \in 1..Edge - 1, SkipSpace \/ StartComment \/ CommentChar
    PROVE  /\ Edge = pos /\ Edge' \in {pos, pos + 1} /\ (Edge' = pos + 1 => Passed(pos, Covered))
           /\ mode' = "comment" => pos' = pos + 1
           /\ mode' = "comment" => \E k \in 1..pos : src[k] = ";" /\ SameLine(k, pos + 1)
                 /\ Bare(k, pos, Covered)
<1>1. pos \in Nat \ {0}
  BY DEF Typed
<1>2. Edge = pos
  BY DEF Edge, SkipSpace, StartComment, CommentChar
<1>3. Edge' = pos' /\ pos' \in {pos, pos + 1}
  BY DEF Edge, SkipSpace, StartComment, CommentChar, Get, Stay
<1>4. pos \notin Covered
  BY <1>1, <1>2
<1>5. CASE SkipSpace
  <2>1. src[pos] \in Spaces /\ mode' = "skip"
    BY <1>5, PeekTyped DEF SkipSpace, Spaces, EOF
  <2> QED BY <1>2, <1>3, <2>1 DEF Passed
<1>6. ASSUME src[pos] = ";" PROVE SameLine(pos, pos) /\ SameLine(pos, pos + 1) /\ Bare(pos, pos, Covered)
  <2>1. (\A j : ~(j \in pos..pos - 1)) /\ (\A j : j \in pos..pos <=> j = pos)
    BY <1>1
  <2>2. SameLine(pos, pos) /\ Bare(pos, pos, Covered)
    BY <1>4, <2>1 DEF SameLine, Bare
  <2>3. src[pos] # "\n"
    BY <1>6
  <2>4. pos \in Nat /\ pos <= pos
    BY <1>1
  <2> QED BY <2>2, <2>3, <2>4, SameLineNext
<1>7. CASE StartComment
  <2>1. pos \in 1..pos
    BY <1>1
  <2>2. src[pos] = ";" /\ pos' = pos + 1 /\ pos \in 1..pos
    <3>1. Peek = ";" /\ Peek # EOF /\ pos' = pos + 1
      BY <1>7 DEF StartComment, EOF, Get
    <3>2. Peek = src[pos]
      BY <3>1, PeekTyped
    <3> QED BY <2>1, <3>1, <3>2
  <2>3. SameLine(pos, pos) /\ SameLine(pos, pos + 1) /\ Bare(pos, pos, Covered)
    BY <1>6, <2>2
  <2> QED BY <1>2, <1>3, <2>2, <2>3 DEF Passed
<1>8. CASE CommentChar
  <2>1. PICK k \in 1..pos - 1 : src[k] = ";" /\ SameLine(k, pos) /\ Bare(k, pos - 1, Covered)
    BY <1>8 DEF CommentChar, Gaps, Commented
  <2>2. k \in 1..pos /\ \A c \in k..pos : c \in k..pos - 1 \/ c = pos
    BY <1>1
  <2>3. Bare(k, pos, Covered)
    BY <1>4, <2>1, <2>2 DEF Bare
  <2>4. Passed(pos, Covered)
    BY <2>1, <2>2, <2>3 DEF Passed
  <2>5. ASSUME mode' = "comment" PROVE pos' = pos + 1 /\ SameLine(k, pos + 1)
    <3>1. Peek # EOF /\ Peek # "\n" /\ pos' = pos + 1
      BY <1>8, <2>5 DEF CommentChar, Get
    <3>2. src[pos] # "\n"
      BY <3>1, PeekTyped
    <3>3. k \in Nat /\ pos \in Nat /\ k <= pos
      BY <1>1
    <3> QED BY <2>1, <3>1, <3>2, <3>3, SameLineNext
  <2> QED BY <1>2, <1>3, <2>1, <2>2, <2>3, <2>4, <2>5
<1> QED BY <1>5, <1>7, <1>8

LEMMA GapsKept ==
    ASSUME Typed, OpenLists, Buffered, TokenRead, Places, Gaps, Next
    PROVE  Gaps'
<1> DEFINE E == Edge
           F == Edge'
           C == Covered
           D == Covered'
<1>1. E \in Nat \ {0} /\ F \in Nat \ {0} /\ E <= F
  BY EdgeMoves
<1>2. src' = src /\ pos \in Nat \ {0}
  BY TreeStep DEF Typed
<1>3. \A i \in 1..E - 1 : Passed(i, C)
  BY DEF Gaps
<1>4. \A i \in C : i \in 1..Edge - 1
  BY <1>1, CoveredBehind
<1>5. ASSUME \A i \in 1..F - 1 : Passed(i, D), mode' = "comment" => (Commented(Covered))' PROVE Gaps'
  <2>1. \A i : Passed(i, Covered)' <=> Passed(i, D)
    BY <1>2 DEF Passed, SameLine, Bare
  <2> QED BY <1>5, <2>1 DEF Gaps
<1> HIDE DEF E, F, C, D
<1>6. CASE TreeMoves
  <2>1. D = C \cup (E..F - 1)
    BY <1>6, CoveredGrows DEF C, D, E, F
  <2>2. \A i \in 1..F - 1 : i \in 1..E - 1 \/ i \in E..F - 1
    BY <1>1
  <2>3. \A i \in 1..E - 1 : i \in Nat /\ i < E
    BY <1>1
  <2>4. \A c \in E..F - 1 : c >= E
    BY <1>1
  <2>5. \A i \in 1..E - 1 : Passed(i, D)
    BY <1>1, <1>3, <2>1, <2>3, <2>4, PassedStays
  <2>6. \A i \in E..F - 1 : Passed(i, D)
    BY <2>1 DEF Passed
  <2>7. mode' # "comment"
    BY <1>6 DEF TreeMoves, AtomEnds, StringEnds, ListOpens, ListCloses, LeafStepOf
  <2> QED BY <1>5, <2>2, <2>5, <2>6, <2>7
<1>7. CASE Quiet /\ F = E /\ ~SkipSpace /\ ~StartComment /\ ~CommentChar
  <2>1. D = C
    BY <1>7, CoveredGrows DEF C, D
  <2>2. mode' # "comment"
    BY <1>7 DEF Next, OpenList, CloseList, EndOfText, StartAtom, StartString, ReadAtom, ReadString,
       ReadEscape, Keep, Leaf, Dies, OutOfMemory, Overrun, Stops
  <2> QED BY <1>3, <1>5, <1>7, <2>1, <2>2
<1>8. CASE Quiet /\ (SkipSpace \/ StartComment \/ CommentChar)
  <2>1. D = C
    BY <1>8, CoveredGrows DEF C, D
  <2>2. E = pos /\ F \in {pos, pos + 1} /\ (F = pos + 1 => Passed(pos, C))
    BY <1>4, <1>8, SkippedOver DEF C, E, F
  <2>3. ASSUME mode' = "comment"
        PROVE  (\E k \in 1..pos : src[k] = ";" /\ SameLine(k, pos + 1) /\ Bare(k, pos, C)) /\ pos' = pos + 1
    BY <1>4, <1>8, <2>3, SkippedOver DEF C
  <2>4. \A i \in 1..F - 1 : i \in 1..E - 1 \/ (i = pos /\ F = pos + 1)
    BY <1>1, <1>2, <2>2
  <2>5. \A i \in 1..F - 1 : Passed(i, D)
    BY <1>3, <2>1, <2>2, <2>4
  <2>6. ASSUME mode' = "comment" PROVE (Commented(Covered))'
    <3>1. PICK k \in 1..pos : src[k] = ";" /\ SameLine(k, pos + 1) /\ Bare(k, pos, C)
      BY <2>3, <2>6
    <3>2. pos' = pos + 1 /\ pos' - 1 = pos
      <4>1. pos' = pos + 1
        BY <2>3, <2>6
      <4> QED BY <1>2, <4>1
    <3>3. (SameLine(k, pos))' <=> SameLine(k, pos')
      BY <1>2 DEF SameLine
    <3>4. (Bare(k, pos - 1, Covered))' <=> Bare(k, pos' - 1, D)
      BY DEF Bare, D
    <3> QED BY <1>2, <2>1, <3>1, <3>2, <3>3, <3>4 DEF Commented
  <2> QED BY <1>5, <2>5, <2>6
<1>9. TreeMoves \/ (Quiet /\ (F = E \/ SkipSpace \/ StartComment \/ CommentChar))
  BY EdgeStep DEF E, F
<1> QED BY <1>6, <1>7, <1>8, <1>9

-----------------------------------------------------------------------------
(* The nesting.                                                            *)

\* TreeNests, said of a heap.
Surrounds(heap, l, i) ==
    /\ l \in 1..Len(heap) /\ heap[l].kind = "list" /\ l # i
    /\ l = 1 \/ heap[l].start < heap[i].start
    /\ heap[l].end = 0 \/ heap[i].end \in 1..heap[l].end - 1
ItemOf(heap, l, x) ==
    /\ x \in 1..Len(heap) /\ heap[x].end # 0 /\ Surrounds(heap, l, x)
    /\ \A m \in 1..Len(heap) : Surrounds(heap, m, x) => m = l \/ Surrounds(heap, m, l)
InOrder(heap, items) == \A k \in 2..Len(items) : heap[items[k - 1]].end <= heap[items[k]].start
Parens(n, l) ==
    n.kind = "list" => (l # 1 => src[n.start] = "(") /\ (n.end # 0 => src[n.end - 1] = ")")
NestsIn(heap) ==
    /\ \A l \in 1..Len(heap) : Parens(heap[l], l) /\ InOrder(heap, heap[l].items)
    /\ \A l \in 1..Len(heap) : \A x : Has(heap[l], x) => ItemOf(heap, l, x)
    /\ \A x \in 1..Len(heap) : heap[x].end # 0 => \E l \in 1..Len(heap) : Has(heap[l], x)

NestsIff == (nodes \in Seq(NodeSet)) => (TreeNests <=> NestsIn(nodes))
LEMMA NestsIs == NestsIff
<1> SUFFICES ASSUME nodes \in Seq(NodeSet) PROVE TreeNests <=> NestsIn(nodes)
  BY DEF NestsIff
<1> DEFINE N == Len(nodes)
<1>1. DOMAIN nodes = 1..N /\ \A l \in 1..N : nodes[l] \in NodeSet
  OBVIOUS
<1>2. \A l \in 1..N : DOMAIN nodes[l].items = 1..Len(nodes[l].items)
  BY <1>1 DEF NodeSet
<1> HIDE DEF N
<1>3. \A l : (l \in Lists <=> l \in 1..N /\ nodes[l].kind = "list")
        /\ (l \in Closed <=> l \in 1..N /\ nodes[l].end # 0)
  BY <1>1 DEF Lists, Leaves, Closed
<1>4. \A l, i : Around(l, i) <=> Surrounds(nodes, l, i)
  BY <1>3 DEF Around, Surrounds, N
<1>5. \A l \in 1..N : \A x : x \in Range(nodes[l].items) <=> Has(nodes[l], x)
  BY <1>2 DEF Range, Has
<1> DEFINE T1 == \A l \in Lists \ {1} : src[nodes[l].start] = "("
           T2 == \A l \in Lists \cap Closed : src[nodes[l].end - 1] = ")"
           T3 == \A l \in DOMAIN nodes : LET items == nodes[l].items IN
                    \A k \in DOMAIN items :
                       /\ items[k] \in Closed /\ Around(l, items[k])
                       /\ \A m \in DOMAIN nodes : Around(m, items[k]) => m = l \/ Around(m, l)
           T4 == \A l \in DOMAIN nodes : LET items == nodes[l].items IN
                    \A k \in 2..Len(items) : nodes[items[k - 1]].end <= nodes[items[k]].start
           T5 == \A i \in Closed : \E l \in DOMAIN nodes : i \in Range(nodes[l].items)
<1>6. TreeNests <=> T1 /\ T2 /\ T3 /\ T4 /\ T5
  BY DEF TreeNests
<1>7. T1 /\ T2 <=> \A l \in 1..N : Parens(nodes[l], l)
  BY <1>3 DEF Parens
<1>8. T4 <=> \A l \in 1..N : InOrder(nodes, nodes[l].items)
  BY <1>1 DEF InOrder
<1>9. T5 <=> \A x \in 1..N : nodes[x].end # 0 => \E l \in 1..N : Has(nodes[l], x)
  BY <1>1, <1>3, <1>5
<1>10. T3 <=> \A l \in 1..N : \A x : Has(nodes[l], x) => ItemOf(nodes, l, x)
  <2>1. ASSUME NEW l \in 1..N, NEW x
        PROVE  ItemOf(nodes, l, x) <=> /\ x \in Closed /\ Around(l, x)
                                       /\ \A m \in DOMAIN nodes : Around(m, x) => m = l \/ Around(m, l)
    BY <1>1, <1>3, <1>4 DEF ItemOf, N
  <2>2. T3 <=> \A l \in 1..N : \A k \in 1..Len(nodes[l].items) : ItemOf(nodes, l, nodes[l].items[k])
    BY <1>1, <1>2, <2>1
  <2> HIDE DEF T3
  <2> QED BY <2>2 DEF Has
<1> HIDE DEF T1, T2, T3, T4, T5
<1> QED BY <1>6, <1>7, <1>8, <1>9, <1>10 DEF NestsIn, N

LEMMA NestsIsNext == NestsIff'
BY NestsIs, PTL

\* What the nodes there are already contain does not change, and a new one contains none of them
\* that ended.
LEMMA ContainsKept ==
    ASSUME Typed, OpenLists, Buffered, TokenRead, Places, Next
    PROVE  /\ \A m, i \in 1..Len(nodes) : Surrounds(nodes', m, i) <=> Surrounds(nodes, m, i)
           /\ \A m \in 1..Len(nodes'), i \in 1..Len(nodes) :
                 m \notin 1..Len(nodes) /\ nodes[i].end # 0 => ~Surrounds(nodes', m, i)
<1> DEFINE N == Len(nodes)
           E == Edge
           F == Edge'
<1>1. /\ nodes' \in Seq(NodeSet) /\ Len(nodes') \in {N, N + 1}
      /\ \A k \in 1..N :
          /\ Same(nodes'[k], nodes[k])
          /\ \/ nodes'[k].end = nodes[k].end
             \/ ListCloses /\ k = Inner /\ nodes[k].end = 0 /\ nodes[k].kind = "list" /\ nodes'[k].end = F
      /\ Len(nodes') # Len(nodes) => Fresh(nodes'[Len(nodes) + 1])
  BY TreeGrows DEF Grows
<1>2. E \in Nat \ {0} /\ F \in Nat \ {0} /\ (ListCloses => F = E + 1)
  BY EdgeMoves
<1>3. N \in Nat \ {0} /\ Inner \in 1..N /\ 1 \in 1..N /\ \A k \in 1..N : k \in 1..Len(nodes')
        /\ nodes[k].start \in Nat /\ nodes[k].end \in Nat
  <2>1. N \in Nat \ {0} /\ Inner \in 1..N /\ \A k \in 1..N : nodes[k].start \in Nat /\ nodes[k].end \in Nat
    BY OpenTyped DEF NodeSet
  <2> HIDE DEF N
  <2> QED BY <1>1, <2>1
<1>4. /\ nodes[1].start = 1
      /\ \A i \in 1..N :
          /\ nodes[i].start \in 1..E
          /\ nodes[i].end # 0 => nodes[i].start < nodes[i].end /\ nodes[i].end <= E
      /\ \A i, j \in 1..N : i < j /\ i # 1 => nodes[i].start < nodes[j].start
  BY OpenTyped DEF Places
<1>5. \A k \in 1..N : nodes'[k].kind = nodes[k].kind /\ nodes'[k].start = nodes[k].start
  BY <1>1 DEF Same
<1>6. ASSUME NEW m \in 1..Len(nodes'), NEW i \in 1..N, m \notin 1..N, nodes[i].end # 0
      PROVE  ~Surrounds(nodes', m, i)
  <2>1. m = N + 1 /\ Len(nodes') # N /\ m # 1
    <3> HIDE DEF N
    <3> QED BY <1>1, <1>3, <1>6
  <2>2. nodes'[m].start = E
    BY <1>1, <2>1 DEF Fresh
  <2>3. nodes'[i].start = nodes[i].start /\ nodes[i].start < E
    <3> HIDE DEF N, E
    <3>1. nodes[i].start < nodes[i].end /\ nodes[i].end <= E
      BY <1>4, <1>6
    <3>2. nodes[i].start \in Nat /\ nodes[i].end \in Nat /\ nodes'[i].start = nodes[i].start
      BY <1>3, <1>5
    <3> QED BY <1>2, <3>1, <3>2
  <2> HIDE DEF N, E, F
  <2> QED BY <1>2, <1>3, <2>1, <2>2, <2>3 DEF Surrounds
<1>7. ASSUME NEW m \in 1..N, NEW i \in 1..N, \A k \in {m, i} : nodes'[k].end = nodes[k].end
      PROVE  Surrounds(nodes', m, i) <=> Surrounds(nodes, m, i)
  BY <1>3, <1>5, <1>7 DEF Surrounds
<1>8. ASSUME ListCloses, NEW m \in 1..N, NEW i \in 1..N
      PROVE  Surrounds(nodes', m, i) <=> Surrounds(nodes, m, i)
  <2>1. nodes'[Inner].end = F /\ nodes[Inner].end = 0 /\ nodes[Inner].kind = "list" /\ F = E + 1
    <3>1. nodes'[Inner].end = pos + 1 /\ F = pos + 1
      BY <1>3, <1>8, EdgeMoves DEF ListCloses, CloseKept
    <3> QED BY <1>2, <1>8, <3>1, OpenTyped
  <2>2. \A k \in 1..N : k # Inner => nodes'[k].end = nodes[k].end
    BY <1>1
  <2>3. \A k \in 1..N : nodes[k].end = 0 => k <= Inner
    <3> SUFFICES ASSUME NEW k \in 1..N, nodes[k].end = 0 PROVE k <= Inner
      OBVIOUS
    <3>1. PICK j \in DOMAIN open : open[j] = k
      BY OpenTyped DEF OpenLists, Range
    <3>2. j = Len(open) \/ j < Len(open)
      BY <3>1, OpenTyped
    <3>3. Len(open) \in DOMAIN open
      BY OpenTyped
    <3>4. k = Inner \/ k < Inner
      BY <3>1, <3>2, <3>3 DEF OpenLists, Inner
    <3> QED BY <1>3, <3>4
  <2>4. Inner # 1
    BY <1>3, <1>8 DEF ListCloses, CloseKept
  <2> HIDE DEF N, E, F
  <2>5. CASE m # Inner /\ i # Inner
    BY <1>7, <2>2, <2>5
  <2>6. CASE m = Inner /\ i # Inner
    <3>1. nodes[Inner].start < nodes[i].start => nodes[i].end # 0
      <4> SUFFICES ASSUME nodes[i].end = 0 PROVE ~(nodes[Inner].start < nodes[i].start)
        OBVIOUS
      <4>1. i < Inner
        BY <1>3, <2>3, <2>6
      <4>2. nodes[Inner].start \in 1..E /\ nodes[i].start \in Nat
        BY <1>3, <1>4
      <4>3. CASE i = 1
        BY <1>2, <1>4, <4>2, <4>3
      <4>4. CASE i # 1
        BY <1>3, <1>4, <4>1, <4>2, <4>4
      <4> QED BY <4>3, <4>4
    <3>2. nodes[i].end # 0 => nodes[i].end \in 1..F - 1
      BY <1>2, <1>3, <1>4, <2>1
    <3>3. F # 0
      BY <1>2
    <3>4. Surrounds(nodes, m, i) <=> nodes[Inner].start < nodes[i].start
      BY <1>3, <2>1, <2>4, <2>6 DEF Surrounds, N
    <3>5. Surrounds(nodes', m, i) <=> nodes[Inner].start < nodes[i].start /\ nodes[i].end \in 1..F - 1
      BY <1>3, <1>5, <2>1, <2>2, <2>4, <2>6, <3>3 DEF Surrounds
    <3> QED BY <3>1, <3>2, <3>4, <3>5
  <2>7. CASE m # Inner /\ i = Inner
    <3>1. ~(F \in 1..nodes[m].end - 1) /\ ~(0 \in 1..nodes[m].end - 1)
      BY <1>2, <1>3, <1>4, <2>1
    <3>2. Surrounds(nodes, m, i) <=> nodes[m].kind = "list" /\ (m = 1 \/ nodes[m].start < nodes[i].start)
            /\ nodes[m].end = 0
      BY <1>3, <2>1, <2>7, <3>1 DEF Surrounds, N
    <3>3. Surrounds(nodes', m, i) <=> nodes[m].kind = "list"
            /\ (m = 1 \/ nodes[m].start < nodes[i].start) /\ nodes[m].end = 0
      BY <1>3, <1>5, <2>1, <2>2, <2>7, <3>1 DEF Surrounds
    <3> QED BY <3>2, <3>3
  <2>8. CASE m = Inner /\ i = Inner
    BY <2>8 DEF Surrounds
  <2> QED BY <2>5, <2>6, <2>7, <2>8
<1>9. ASSUME NEW m \in 1..N, NEW i \in 1..N PROVE Surrounds(nodes', m, i) <=> Surrounds(nodes, m, i)
  <2>1. CASE ListCloses
    BY <1>8, <2>1
  <2>2. CASE ~ListCloses
    <3>1. \A k \in {m, i} : nodes'[k].end = nodes[k].end
      BY <1>1, <2>2
    <3> QED BY <1>7, <3>1
  <2> QED BY <2>1, <2>2
<1> QED BY <1>6, <1>9

LEMMA ItemStays ==
    ASSUME Typed, OpenLists, Buffered, TokenRead, Places, Next, NEW l \in 1..Len(nodes),
          NEW x, ItemOf(nodes, l, x)
    PROVE  ItemOf(nodes', l, x) /\ nodes'[x].end = nodes[x].end /\ nodes'[x].start = nodes[x].start
<1>1. /\ Len(nodes') \in {Len(nodes), Len(nodes) + 1}
      /\ \A k \in 1..Len(nodes) :
          /\ nodes'[k].start = nodes[k].start
          /\ nodes'[k].end = nodes[k].end \/ nodes[k].end = 0
  BY TreeGrows DEF Grows, Same
<1>2. x \in 1..Len(nodes) /\ nodes[x].end # 0 /\ Surrounds(nodes, l, x)
      /\ \A m \in 1..Len(nodes) : Surrounds(nodes, m, x) => m = l \/ Surrounds(nodes, m, l)
  BY DEF ItemOf
<1>3. nodes'[x].end = nodes[x].end /\ nodes'[x].start = nodes[x].start
  BY <1>1, <1>2
<1>4. x \in 1..Len(nodes')
  BY <1>1, <1>2, OpenTyped
<1>5. \A m \in 1..Len(nodes') : Surrounds(nodes', m, x) => m = l \/ Surrounds(nodes', m, l)
  BY <1>2, ContainsKept
<1>6. Surrounds(nodes', l, x)
  BY <1>2, ContainsKept
<1> QED BY <1>2, <1>3, <1>4, <1>5, <1>6 DEF ItemOf

\* The item of the innermost of the lists that are open around it.
LEMMA ItemOfInnermost ==
    ASSUME Typed, OpenLists, Buffered, TokenRead, Places, Next,
           NEW j \in 1..Len(open), NEW x \in 1..Len(nodes'), nodes'[x].end # 0, Surrounds(nodes', open[j], x),
           \A m \in 1..Len(nodes') : Surrounds(nodes', m, x) => \E i \in 1..j : m = open[i]
    PROVE  ItemOf(nodes', open[j], x)
<1> SUFFICES ASSUME NEW m \in 1..Len(nodes'), Surrounds(nodes', m, x), m # open[j]
             PROVE  Surrounds(nodes', m, open[j])
  BY DEF ItemOf
<1>1. PICK i \in 1..j : m = open[i]
  OBVIOUS
<1>2. i \in DOMAIN open /\ j \in DOMAIN open /\ i < j
  BY <1>1, OpenTyped
<1>3. m \in 1..Len(nodes) /\ open[j] \in 1..Len(nodes) /\ m < open[j] /\ nodes[m].kind = "list"
  BY <1>1, <1>2, OpenTyped DEF OpenLists
<1>4. nodes[m].end = 0
  BY <1>1, <1>2, <1>3, OpenTyped DEF OpenLists, Range
<1>5. m = 1 \/ nodes[m].start < nodes[open[j]].start
  BY <1>3, OpenTyped DEF Places
<1>6. Surrounds(nodes, m, open[j])
  BY <1>3, <1>4, <1>5 DEF Surrounds
<1> QED BY <1>3, <1>6, ContainsKept

LEMMA OrderAppend ==
    ASSUME NEW heap, NEW h, NEW items \in Seq(Nat), NEW x, InOrder(heap, items),
           \A y : (\E k \in 1..Len(items) : items[k] = y) =>
                h[y].end = heap[y].end /\ h[y].start = heap[y].start /\ heap[y].end <= h[x].start
    PROVE  InOrder(h, items) /\ InOrder(h, Append(items, x))
<1> DEFINE n == Len(items)
           a == Append(items, x)
<1>1. n \in Nat /\ Len(a) = n + 1 /\ a[n + 1] = x /\ \A k \in 1..n : a[k] = items[k]
  OBVIOUS
<1>2. ASSUME NEW k \in 1..n
      PROVE  h[items[k]].end = heap[items[k]].end /\ h[items[k]].start = heap[items[k]].start
            /\ heap[items[k]].end <= h[x].start
  OBVIOUS
<1> HIDE DEF n, a
<1>3. ASSUME NEW k \in 2..n PROVE h[items[k - 1]].end <= h[items[k]].start
  <2>1. k \in 1..n /\ k - 1 \in 1..n
    BY <1>1
  <2>2. heap[items[k - 1]].end <= heap[items[k]].start
    BY DEF InOrder, n
  <2> QED BY <1>2, <2>1, <2>2
<1>4. ASSUME NEW k \in 2..n + 1 PROVE h[a[k - 1]].end <= h[a[k]].start
  <2>1. k - 1 \in 1..n /\ (k = n + 1 \/ (k \in 2..n /\ k \in 1..n))
    BY <1>1
  <2>2. CASE k = n + 1
    <3>1. a[k] = x /\ a[k - 1] = items[k - 1]
      BY <1>1, <2>1, <2>2
    <3> QED BY <1>2, <2>1, <3>1
  <2>3. CASE k \in 2..n /\ k \in 1..n
    BY <1>1, <1>3, <2>1, <2>3
  <2> QED BY <2>1, <2>2, <2>3
<1> QED BY <1>1, <1>3, <1>4 DEF InOrder, a, n

LEMMA HasAppend ==
    ASSUME NEW m, NEW n, m.items \in Seq(Nat), NEW x, n.items = Append(m.items, x)
    PROVE  \A y : Has(n, y) <=> Has(m, y) \/ y = x
<1>1. /\ Len(n.items) = Len(m.items) + 1 /\ n.items[Len(m.items) + 1] = x /\ Len(m.items) \in Nat
      /\ \A k \in 1..Len(m.items) : n.items[k] = m.items[k]
  OBVIOUS
<1>2. \A k : k \in 1..Len(m.items) + 1 <=> k \in 1..Len(m.items) \/ k = Len(m.items) + 1
  BY <1>1
<1> QED BY <1>1, <1>2 DEF Has

\* An item is pushed.
LEMMA PushNests ==
    ASSUME Typed, OpenLists, Buffered, TokenRead, Places, NestsIn(nodes), Next,
           NEW l \in 1..Len(nodes), NEW x \in 1..Len(nodes'),
           nodes'[l].items = Append(nodes[l].items, x),
           \A k \in 1..Len(nodes) : k # l => nodes'[k].items = nodes[k].items,
           \A k \in 1..Len(nodes') : k \notin 1..Len(nodes) => nodes'[k].items = <<>>,
           ItemOf(nodes', l, x),
           \A y : Has(nodes[l], y) => nodes[y].end <= nodes'[x].start,
           \A y \in 1..Len(nodes') : nodes'[y].end # 0 => y = x \/ (y \in 1..Len(nodes) /\ nodes[y].end # 0),
           \A k \in 1..Len(nodes') : Parens(nodes'[k], k)
    PROVE  NestsIn(nodes')
<1>1. \A k \in 1..Len(nodes) : nodes[k] \in NodeSet /\ k \in 1..Len(nodes')
  BY OpenTyped, TreeGrows DEF Grows
<1>2. \A k \in 1..Len(nodes) : nodes[k].items \in Seq(Nat)
  BY <1>1 DEF NodeSet
<1>3. \A k \in 1..Len(nodes) : \A y : Has(nodes[k], y) => ItemOf(nodes, k, y)
  BY DEF NestsIn
<1>4. \A k \in 1..Len(nodes) : \A y : ItemOf(nodes, k, y) => ItemOf(nodes', k, y)
        /\ nodes'[y].end = nodes[y].end /\ nodes'[y].start = nodes[y].start
  BY ItemStays
<1>5. \A y : Has(nodes'[l], y) <=> Has(nodes[l], y) \/ y = x
  BY <1>2, HasAppend
<1>6. \A k \in 1..Len(nodes) : \A y : k # l => (Has(nodes'[k], y) <=> Has(nodes[k], y))
  BY DEF Has
<1>7. \A k \in 1..Len(nodes') : \A y : k \notin 1..Len(nodes) => ~Has(nodes'[k], y)
  <2>1. \A k : ~(k \in 1..Len(<<>>))
    OBVIOUS
  <2> QED BY <2>1 DEF Has
<1>8. ASSUME NEW k \in 1..Len(nodes') PROVE InOrder(nodes', nodes'[k].items)
  <2>1. CASE k \notin 1..Len(nodes)
    <3>1. \A i : ~(i \in 2..Len(<<>>))
      OBVIOUS
    <3> QED BY <2>1, <3>1 DEF InOrder
  <2>2. ASSUME k \in 1..Len(nodes), k # l PROVE InOrder(nodes', nodes'[k].items)
    <3>1. nodes[k].items \in Seq(Nat) /\ InOrder(nodes, nodes[k].items)
      BY <1>2, <2>2 DEF NestsIn
    <3>2. \A i \in 1..Len(nodes[k].items) : LET y == nodes[k].items[i] IN nodes'[y].end = nodes[y].end
            /\ nodes'[y].start = nodes[y].start
      <4>1. \A y : Has(nodes[k], y) => nodes'[y].end = nodes[y].end /\ nodes'[y].start = nodes[y].start
        BY <1>3, <1>4, <2>2
      <4>2. \A i \in 1..Len(nodes[k].items) : Has(nodes[k], nodes[k].items[i])
        BY DEF Has
      <4> QED BY <4>1, <4>2
    <3>3. \A i \in 2..Len(nodes[k].items) : i \in 1..Len(nodes[k].items) /\ i - 1 \in 1..Len(nodes[k].items)
      BY <3>1
    <3>4. InOrder(nodes', nodes[k].items)
      BY <3>1, <3>2, <3>3 DEF InOrder
    <3> QED BY <2>2, <3>4
  <2>3. CASE k = l
    <3>1. nodes[l].items \in Seq(Nat) /\ InOrder(nodes, nodes[l].items)
      BY <1>2 DEF NestsIn
    <3>2. ASSUME NEW y, \E i \in 1..Len(nodes[l].items) : nodes[l].items[i] = y
          PROVE  nodes'[y].end = nodes[y].end /\ nodes'[y].start = nodes[y].start
                /\ nodes[y].end <= nodes'[x].start
      <4>1. Has(nodes[l], y)
        BY <3>2 DEF Has
      <4> QED BY <1>3, <1>4, <4>1
    <3>3. InOrder(nodes', Append(nodes[l].items, x))
      BY <3>1, <3>2, OrderAppend
    <3> QED BY <2>3, <3>3
  <2> QED BY <2>1, <2>2, <2>3
<1>9. ASSUME NEW k \in 1..Len(nodes'), NEW y, Has(nodes'[k], y) PROVE ItemOf(nodes', k, y)
  <2>1. k \in 1..Len(nodes)
    BY <1>7, <1>9
  <2>2. CASE k = l
    BY <1>3, <1>4, <1>5, <1>9, <2>2
  <2>3. CASE k # l
    BY <1>3, <1>4, <1>6, <1>9, <2>1, <2>3
  <2> QED BY <2>2, <2>3
<1>10. ASSUME NEW y \in 1..Len(nodes'), nodes'[y].end # 0 PROVE \E k \in 1..Len(nodes') : Has(nodes'[k], y)
  <2>1. CASE y = x
    BY <1>1, <1>5, <2>1
  <2>2. CASE y \in 1..Len(nodes) /\ nodes[y].end # 0
    <3>1. PICK k \in 1..Len(nodes) : Has(nodes[k], y)
      BY <2>2 DEF NestsIn
    <3>2. Has(nodes'[k], y)
      BY <1>5, <1>6, <3>1
    <3> QED BY <1>1, <3>2
  <2> QED BY <1>10, <2>1, <2>2
<1> QED BY <1>8, <1>9, <1>10 DEF NestsIn

\* An item of an open list ends where a list within it begins, or before.
LEMMA BehindOf ==
    ASSUME Typed, OpenLists, Behind, NEW i \in 1..Len(open), NEW j \in 1..Len(open), i < j,
           NEW y, Has(nodes[open[i]], y)
    PROVE  nodes[y].end <= nodes[open[j]].start
<1>1. i \in DOMAIN open /\ j \in DOMAIN open
  BY OpenTyped
<1> QED BY <1>1 DEF Behind, Has

LEMMA LeafNests ==
    ASSUME Typed, OpenLists, Buffered, TokenRead, Places, NestsIn(nodes), Next,
           NEW kind \in {"atom", "string"}, NEW to, LeafStepOf(kind, to), ~ListCloses
    PROVE  NestsIn(nodes')
<1> DEFINE N == Len(nodes)
           x == N + 1
           E == Edge
           F == Edge'
<1>1. N \in Nat \ {0} /\ Inner \in 1..N /\ nodes[Inner].kind = "list" /\ nodes[Inner].end = 0
        /\ Len(open) \in 1..Len(open)
  BY OpenTyped
<1>2. Len(nodes') = x /\ nodes'[x] = Node(kind, token, to, buf.text)
  BY DEF LeafStepOf, LeafKept
<1>3. nodes'[x].kind # "list" /\ nodes'[x].items = <<>>
  BY <1>2 DEF Node
<1>4. nodes'[x].start = E /\ E < F /\ nodes'[x].end = F /\ E \in Nat \ {0} /\ F \in Nat \ {0}
  <2>1. Len(nodes') # Len(nodes)
    <3>1. \A n \in Nat : n + 1 # n
      OBVIOUS
    <3> QED BY <1>1, <1>2, <3>1
  <2>2. Fresh(nodes'[x])
    BY <2>1, TreeGrows DEF Grows
  <2> QED BY <1>3, <2>2, EdgeMoves DEF Fresh
<1>5. \A k \in 1..N : nodes'[k].kind = nodes[k].kind /\ nodes'[k].start = nodes[k].start
        /\ nodes'[k].end = nodes[k].end
  BY DEF LeafStepOf, LeafKept, Same
<1>6. \A k \in 1..N :
        /\ nodes[k].start \in 1..E /\ (k # 1 => nodes[k].start < E) /\ nodes[k].end \in Nat
        /\ nodes[k].end # 0 => nodes[k].end <= E
  <2>1. \A k \in 1..N : nodes[k].end \in Nat
    BY OpenTyped DEF NodeSet
  <2> QED BY <2>1, OpenTyped DEF Places
<1> HIDE DEF E, F
<1>7. \A k : k \in 1..x <=> k \in 1..N \/ k = x
  BY <1>1
<1>8. ItemOf(nodes', Inner, x)
  <2>1. Surrounds(nodes', Inner, x)
    <3>1. Inner \in 1..Len(nodes') /\ Inner # x
      <4> HIDE DEF N
      <4> QED BY <1>1, <1>2
    <3>2. nodes'[Inner].kind = "list" /\ nodes'[Inner].end = 0
      BY <1>1, <1>5
    <3>3. Inner = 1 \/ nodes'[Inner].start < nodes'[x].start
      BY <1>1, <1>4, <1>5, <1>6
    <3> QED BY <3>1, <3>2, <3>3 DEF Surrounds
  <2>2. ASSUME NEW m \in 1..Len(nodes'), Surrounds(nodes', m, x) PROVE \E i \in 1..Len(open) : m = open[i]
    <3>1. m \in 1..N /\ (nodes'[m].end = 0 \/ F \in 1..nodes'[m].end - 1)
      BY <1>2, <1>4, <1>7, <2>2 DEF Surrounds
    <3>2. nodes[m].end = 0
      BY <1>4, <1>5, <1>6, <3>1
    <3>3. m \in DOMAIN nodes
      BY <3>1, OpenTyped
    <3>4. m \in Range(open)
      BY <3>2, <3>3 DEF OpenLists
    <3> QED BY <3>4, OpenTyped DEF Range
  <2>3. x \in 1..Len(nodes') /\ nodes'[x].end # 0
    <3> HIDE DEF N
    <3> QED BY <1>1, <1>2, <1>4
  <2> HIDE DEF x
  <2> QED BY <1>1, <2>1, <2>2, <2>3, ItemOfInnermost DEF Inner
<1>9. \A y : Has(nodes[Inner], y) => nodes[y].end <= nodes'[x].start
  <2>1. \A y : Has(nodes[Inner], y) => y \in 1..N /\ nodes[y].end # 0
    BY <1>1 DEF NestsIn, ItemOf
  <2> QED BY <1>4, <1>6, <2>1
<1>10. \A k \in 1..x : Parens(nodes'[k], k)
  <2>1. \A k \in 1..N : Parens(nodes'[k], k)
    BY <1>5 DEF NestsIn, Parens
  <2> QED BY <1>3, <1>7, <2>1 DEF Parens
<1>11. /\ nodes'[Inner].items = Append(nodes[Inner].items, x)
       /\ \A k \in 1..Len(nodes) : k # Inner => nodes'[k].items = nodes[k].items
       /\ \A k \in 1..Len(nodes') : k \notin 1..Len(nodes) => nodes'[k].items = <<>>
  BY <1>2, <1>3, <1>7 DEF LeafStepOf, LeafKept
<1>12. \A y \in 1..Len(nodes') : nodes'[y].end # 0 => y = x \/ (y \in 1..Len(nodes) /\ nodes[y].end # 0)
  BY <1>2, <1>5, <1>7
<1>13. x \in 1..Len(nodes') /\ Inner \in 1..Len(nodes) /\ Len(nodes') = x
  BY <1>1, <1>2, <1>7
<1> HIDE DEF x
<1> QED BY <1>8, <1>9, <1>10, <1>11, <1>12, <1>13, PushNests

LEMMA OpenNests ==
    ASSUME Typed, OpenLists, Buffered, TokenRead, Places, NestsIn(nodes), Next, ListOpens
    PROVE  NestsIn(nodes')
<1> DEFINE N == Len(nodes)
<1>1. N \in Nat \ {0} /\ OpenKept
  BY OpenTyped DEF ListOpens
<1>2. Len(nodes') = N + 1 /\ (\A k \in 1..N : nodes'[k] = nodes[k])
      /\ nodes'[N + 1].kind = "list" /\ nodes'[N + 1].start = pos /\ nodes'[N + 1].end = 0
            /\ nodes'[N + 1].items = <<>>
  BY <1>1 DEF OpenKept, Node, Here
<1>3. src[pos] = "("
  <2>1. Peek = "(" /\ Peek # EOF
    BY DEF ListOpens, EOF
  <2> QED BY <2>1, PeekTyped
<1>4. \A y : ~Has(nodes'[N + 1], y)
  <2>1. \A k : ~(k \in 1..Len(<<>>))
    OBVIOUS
  <2> QED BY <1>2, <2>1 DEF Has
<1>5. InOrder(nodes', nodes'[N + 1].items)
  <2>1. \A i : ~(i \in 2..Len(<<>>))
    OBVIOUS
  <2> QED BY <1>2, <2>1 DEF InOrder
<1>6. \A k \in 1..N : \A y : Has(nodes[k], y) => ItemOf(nodes, k, y)
  BY DEF NestsIn
<1>7. \A k \in 1..N : \A y : Has(nodes'[k], y) => ItemOf(nodes', k, y)
  BY <1>2, <1>6, ItemStays
<1>8. ASSUME NEW k \in 1..N PROVE InOrder(nodes', nodes'[k].items)
  <2>1. nodes[k].items \in Seq(Nat) /\ InOrder(nodes, nodes[k].items)
    BY OpenTyped DEF NestsIn, NodeSet
  <2>2. \A i \in 1..Len(nodes[k].items) : nodes[k].items[i] \in 1..N
    BY <1>6 DEF Has, ItemOf
  <2>3. \A i \in 2..Len(nodes[k].items) : i \in 1..Len(nodes[k].items) /\ i - 1 \in 1..Len(nodes[k].items)
    BY <2>1
  <2> QED BY <1>2, <2>1, <2>2, <2>3 DEF InOrder
<1>9. \A k \in 1..N : Parens(nodes'[k], k)
  BY <1>2 DEF NestsIn
<1>10. Parens(nodes'[N + 1], N + 1)
  BY <1>2, <1>3 DEF Parens
<1>11. ASSUME NEW y \in 1..N, nodes'[y].end # 0 PROVE \E l \in 1..N : Has(nodes'[l], y)
  <2>1. PICK l \in 1..N : Has(nodes[l], y)
    BY <1>2, <1>11 DEF NestsIn
  <2> QED BY <1>2, <2>1
<1>12. \A k : k \in 1..N + 1 <=> k \in 1..N \/ k = N + 1
  BY <1>1
<1> HIDE DEF N
<1> QED BY <1>2, <1>4, <1>5, <1>7, <1>8, <1>9, <1>10, <1>11, <1>12 DEF NestsIn

LEMMA CloseNests ==
    ASSUME Typed, OpenLists, Buffered, TokenRead, Places, Behind, NestsIn(nodes), Next, ListCloses
    PROVE  NestsIn(nodes')
<1> DEFINE N == Len(nodes)
           L == Len(open)
<1>1. /\ L \in Nat \ {0} /\ L # 1 /\ CloseKept /\ Inner \in 1..N /\ nodes[Inner].kind = "list"
      /\ nodes[Inner].end = 0 /\ N \in Nat
  BY OpenTyped DEF ListCloses
<1>2. L - 1 \in 1..L /\ L \in 1..L /\ L - 1 < L /\ L - 1 \in DOMAIN open /\ L \in DOMAIN open
        /\ DOMAIN open = 1..L
      /\ \A i \in 1..L : i # L => i \in 1..L - 1
  <2>1. DOMAIN open = 1..L
    BY DEF Typed
  <2> HIDE DEF L
  <2> QED BY <1>1, <2>1
<1>3. /\ Len(nodes') = N /\ Outer \in 1..N /\ Outer < Inner /\ nodes[Outer].end = 0
        /\ nodes[Outer].kind = "list"
      /\ nodes'[Outer].items = Append(nodes[Outer].items, Inner)
      /\ \A k \in 1..N : /\ Same(nodes'[k], nodes[k]) /\ nodes'[k].end = IF k = Inner THEN pos + 1 ELSE nodes[k].end
                         /\ k # Outer => nodes'[k].items = nodes[k].items
  BY <1>1 DEF CloseKept
<1>4. \A k \in 1..N : nodes'[k].kind = nodes[k].kind /\ nodes'[k].start = nodes[k].start
  BY <1>3 DEF Same
<1>5. pos + 1 # 0 /\ \A e : e = pos + 1 => e - 1 = pos
  BY DEF Typed
<1>6. src[pos] = ")"
  <2>1. Peek = ")" /\ Peek # EOF
    BY DEF ListCloses, EOF
  <2> QED BY <2>1, PeekTyped
<1>7. ItemOf(nodes', Outer, Inner)
  <2>1. Surrounds(nodes, Outer, Inner)
    <3>1. Outer = 1 \/ nodes[Outer].start < nodes[Inner].start
      BY <1>1, <1>3, OpenTyped DEF Places
    <3>2. Outer # Inner
      BY <1>1, <1>3
    <3> QED BY <1>3, <3>1, <3>2 DEF Surrounds
  <2>2. Surrounds(nodes', Outer, Inner)
    BY <1>1, <1>3, <2>1, ContainsKept
  <2>3. ASSUME NEW m \in 1..Len(nodes'), Surrounds(nodes', m, Inner) PROVE \E i \in 1..L - 1 : m = open[i]
    <3>1. m \in 1..N /\ Surrounds(nodes, m, Inner)
      BY <1>1, <1>3, <2>3, ContainsKept
    <3>2. m # Inner /\ nodes[m].end = 0
      <4>1. nodes[m].end \in Nat
        BY <3>1, OpenTyped DEF NodeSet
      <4>2. ~(0 \in 1..nodes[m].end - 1)
        BY <4>1
      <4> QED BY <1>1, <3>1, <4>2 DEF Surrounds
    <3>3. m \in DOMAIN nodes
      BY <3>1, OpenTyped
    <3>4. PICK i \in 1..L : m = open[i]
      BY <1>2, <3>2, <3>3 DEF OpenLists, Range
    <3>5. i # L
      BY <3>2, <3>4 DEF Inner
    <3> QED BY <1>2, <3>4, <3>5
  <2>4. Inner \in 1..Len(nodes') /\ nodes'[Inner].end # 0
    BY <1>1, <1>3, <1>5
  <2>5. open[L - 1] = Outer
    BY DEF Outer
  <2> HIDE DEF L
  <2>6. ItemOf(nodes', open[L - 1], Inner)
    BY <1>2, <2>2, <2>3, <2>4, <2>5, ItemOfInnermost DEF L
  <2> QED BY <2>5, <2>6
<1>8. \A y : Has(nodes[Outer], y) => nodes[y].end <= nodes'[Inner].start
  <2>1. \A y : Has(nodes[open[L - 1]], y) => nodes[y].end <= nodes[open[L]].start
    <3> HIDE DEF L
    <3> QED BY <1>2, BehindOf DEF L
  <2> QED BY <1>1, <1>4, <2>1 DEF Outer, Inner
<1>9. \A k \in 1..N : Parens(nodes'[k], k)
  <2> SUFFICES ASSUME NEW k \in 1..N PROVE Parens(nodes'[k], k)
    OBVIOUS
  <2>1. Parens(nodes[k], k)
    BY DEF NestsIn
  <2>2. CASE k = Inner
    <3>1. nodes'[k].end = pos + 1
      BY <1>3, <2>2
    <3>2. nodes'[k].end - 1 = pos
      BY <1>5, <3>1
    <3>3. src[nodes'[k].end - 1] = ")"
      BY <1>6, <3>2
    <3> QED BY <1>4, <2>1, <3>3 DEF Parens
  <2>3. CASE k # Inner
    <3>1. nodes'[k].end = nodes[k].end
      BY <1>3, <2>3
    <3> QED BY <1>4, <2>1, <3>1 DEF Parens
  <2> QED BY <2>2, <2>3
<1>10. \A y \in 1..N : nodes'[y].end # 0 => y = Inner \/ nodes[y].end # 0
  BY <1>3
<1> QED BY <1>1, <1>3, <1>7, <1>8, <1>9, <1>10, PushNests

LEMMA NestsKept ==
    ASSUME Typed, OpenLists, Buffered, TokenRead, Places, Behind, TreeNests, Next
    PROVE  TreeNests'
<1>1. src' = src /\ (Quiet \/ AtomEnds \/ StringEnds \/ ListOpens \/ ListCloses)
  BY TreeStep
<1>2. NestsIn(nodes)
  BY NestsIs DEF NestsIff, Typed
<1>3. NestsIn(nodes')
  <2>1. CASE Quiet
    BY <1>2, <2>1 DEF Quiet
  <2>2. CASE AtomEnds
    <3>1. ~ListCloses /\ LeafStepOf("atom", pos)
      BY <2>2 DEF AtomEnds, ListCloses
    <3> QED BY <1>2, <3>1, LeafNests
  <2>3. CASE StringEnds
    <3>1. ~ListCloses /\ LeafStepOf("string", pos + 1)
      BY <2>3 DEF StringEnds, ListCloses
    <3> QED BY <1>2, <3>1, LeafNests
  <2>4. CASE ListOpens
    BY <1>2, <2>4, OpenNests
  <2>5. CASE ListCloses
    BY <1>2, <2>5, CloseNests
  <2> QED BY <1>1, <2>1, <2>2, <2>3, <2>4, <2>5
<1>4. NestsIn(nodes)'
  <2>1. (\A n, l : Parens(n, l)' <=> Parens(n, l))
    BY <1>1 DEF Parens
  <2>2. (\A h, items : InOrder(h, items)' <=> InOrder(h, items))
          /\ (\A h, l, x : ItemOf(h, l, x)' <=> ItemOf(h, l, x))
        /\ \A n, x : Has(n, x)' <=> Has(n, x)
    BY DEF InOrder, ItemOf, Surrounds, Has
  <2> QED BY <1>3, <2>1, <2>2 DEF NestsIn
<1> QED BY <1>4, NestsIsNext, TypedKept DEF NestsIff, Typed

LEMMA BehindKept ==
    ASSUME Typed, OpenLists, Buffered, TokenRead, Places, Behind, TreeNests, Next
    PROVE  Behind'
<1> DEFINE N == Len(nodes)
           L == Len(open)
           G(h, o) == \A i, j \in 1..Len(o) : i < j => \A y : Has(h[o[i]], y) => h[y].end <= h[o[j]].start
<1>1. N \in Nat \ {0} /\ L \in Nat \ {0} /\ DOMAIN open = 1..L /\ \A i \in 1..L : open[i] \in 1..N
        /\ nodes[open[i]].end = 0
  <2>1. N \in Nat \ {0} /\ L \in Nat \ {0} /\ DOMAIN open = 1..L /\ DOMAIN nodes = 1..N
    BY OpenTyped DEF Typed
  <2> QED BY <2>1 DEF OpenLists, Range
<1>2. \A i, j \in 1..L : i < j => \A y : Has(nodes[open[i]], y) => nodes[y].end <= nodes[open[j]].start
  BY BehindOf
<1>3. \A k \in 1..N : \A y : Has(nodes[k], y) => y \in 1..N /\ nodes[y].end # 0 /\ nodes[y].end <= Edge
  <2>1. NestsIn(nodes)
    BY NestsIs DEF NestsIff, Typed
  <2>2. \A k \in 1..N : \A y : Has(nodes[k], y) => y \in 1..N /\ nodes[y].end # 0
    BY <2>1 DEF NestsIn, ItemOf
  <2> QED BY <2>2, OpenTyped DEF Places
<1>4. ASSUME G(nodes', open') PROVE Behind'
  <2>1. open' \in Seq(Nat)
    BY TypedKept DEF Typed
  <2>2. DOMAIN open' = 1..Len(open')
    BY <2>1
  <2> QED BY <1>4, <2>2 DEF Behind, Has
<1>5. \A k \in 1..N : nodes'[k].start = nodes[k].start /\ (nodes[k].end # 0 => nodes'[k].end = nodes[k].end)
  BY TreeGrows DEF Grows, Same
<1>6. ASSUME NEW kind, NEW to, LeafStepOf(kind, to) PROVE G(nodes', open')
  <2>1. open' = open /\ \A k \in 1..N : k # Inner => nodes'[k].items = nodes[k].items
    BY <1>6 DEF LeafStepOf, LeafKept
  <2> SUFFICES ASSUME NEW i \in 1..L, NEW j \in 1..L, i < j, NEW y, Has(nodes'[open[i]], y)
               PROVE  nodes'[y].end <= nodes'[open[j]].start
    BY <2>1
  <2>2. open[i] # Inner
    <3>1. L \in DOMAIN open /\ i \in DOMAIN open /\ i < L
      <4> HIDE DEF L
      <4> QED BY <1>1
    <3>2. open[i] < open[L] /\ open[i] \in 1..N /\ open[L] \in 1..N
      BY <1>1, <3>1 DEF OpenLists
    <3> QED BY <3>2 DEF Inner
  <2>3. Has(nodes[open[i]], y)
    BY <1>1, <2>1, <2>2 DEF Has
  <2>4. nodes[y].end <= nodes[open[j]].start
    BY <1>2, <2>3
  <2>5. nodes'[y].end = nodes[y].end /\ nodes'[open[j]].start = nodes[open[j]].start
    BY <1>1, <1>3, <1>5, <2>3
  <2> QED BY <2>4, <2>5
<1>7. CASE Quiet
  <2>1. G(nodes, open)
    BY <1>2
  <2> QED BY <1>4, <1>7, <2>1 DEF Quiet
<1>8. CASE AtomEnds \/ StringEnds
  BY <1>4, <1>6, <1>8 DEF AtomEnds, StringEnds
<1>9. CASE ListOpens
  <2>1. /\ OpenKept /\ Len(open') = L + 1 /\ open'[L + 1] = N + 1 /\ (\A k \in 1..L : open'[k] = open[k])
        /\ \A k \in 1..N : nodes'[k] = nodes[k]
    BY <1>9 DEF ListOpens, OpenKept
  <2>2. nodes'[N + 1].start = Edge
    <3>1. nodes'[N + 1].start = pos
      BY <2>1 DEF OpenKept, Node, Here
    <3> QED BY <1>9, <3>1, EdgeMoves
  <2> SUFFICES ASSUME NEW i \in 1..L + 1, NEW j \in 1..L + 1, i < j, NEW y, Has(nodes'[open'[i]], y)
               PROVE  nodes'[y].end <= nodes'[open'[j]].start
    BY <1>4, <2>1
  <2>3. i \in 1..L /\ (j = L + 1 \/ j \in 1..L)
    BY <1>1
  <2>4. Has(nodes[open[i]], y)
    BY <1>1, <2>1, <2>3
  <2>5. y \in 1..N /\ nodes[y].end <= Edge /\ nodes'[y] = nodes[y]
    BY <1>1, <1>3, <2>1, <2>3, <2>4
  <2>6. CASE j = L + 1
    BY <2>1, <2>2, <2>5, <2>6
  <2>7. CASE j \in 1..L
    <3>1. nodes[y].end <= nodes[open[j]].start
      BY <1>2, <2>3, <2>4, <2>7
    <3> QED BY <1>1, <2>1, <2>5, <2>7, <3>1
  <2> QED BY <2>3, <2>6, <2>7
<1>10. CASE ListCloses
  <2>1. Len(open') = L - 1 /\ (\A k \in 1..L - 1 : open'[k] = open[k])
          /\ (\A k \in 1..N : k # Outer => nodes'[k].items = nodes[k].items)
    BY <1>10 DEF ListCloses, CloseKept
  <2> SUFFICES ASSUME NEW i \in 1..L - 1, NEW j \in 1..L - 1, i < j, NEW y, Has(nodes'[open'[i]], y)
               PROVE  nodes'[y].end <= nodes'[open'[j]].start
    BY <1>4, <2>1
  <2>2. i \in 1..L /\ j \in 1..L /\ L - 1 \in 1..L /\ i < L - 1
    BY <1>1
  <2>3. open[i] # Outer
    <3>1. L - 1 \in DOMAIN open /\ i \in DOMAIN open
      BY <1>1, <2>2
    <3>2. open[i] < open[L - 1] /\ open[i] \in 1..N /\ open[L - 1] \in 1..N
      BY <1>1, <2>2, <3>1 DEF OpenLists
    <3> QED BY <3>2 DEF Outer
  <2>4. Has(nodes[open[i]], y)
    BY <1>1, <2>1, <2>2, <2>3 DEF Has
  <2>5. nodes[y].end <= nodes[open[j]].start
    BY <1>2, <2>2, <2>4
  <2>6. nodes'[y].end = nodes[y].end /\ nodes'[open[j]].start = nodes[open[j]].start
    BY <1>1, <1>3, <1>5, <2>2, <2>4
  <2> QED BY <2>1, <2>5, <2>6
<1> QED BY <1>7, <1>8, <1>9, <1>10, TreeStep

-----------------------------------------------------------------------------
(* The arrays.                                                             *)

\* Numbers an int and a size_t can say.
LEMMA Multiplied ==
    ASSUME NEW a \in Nat, NEW b \in Nat, a <= b, NEW c \in Nat
    PROVE  a * c <= b * c
<1>1. PICK d \in Nat : b = a + d
  <2>1. b - a \in Nat /\ b = a + (b - a)
    OBVIOUS
  <2> QED BY <2>1
<1>2. b * c = a * c + d * c
  BY <1>1
<1>3. a * c \in Nat /\ d * c \in Nat
  BY <1>1
<1> QED BY <1>2, <1>3

LEMMA Numbers ==
    ASSUME NEW Q \in Nat \ {0}, NEW P \in Nat \ {0}, NEW W \in Nat, 4 * Q * P <= W
    PROVE  /\ \A g \in 1..2 * Q : 0 < g * P /\ g * P < W /\ (g * P) % W = g * P
           /\ \A g \in 0..2 * Q - 1 : (g + 2 * Q) % (4 * Q) = g + 2 * Q
           /\ (2 * Q + 2 * Q) % (4 * Q) = 0
           /\ 2 * Q * P <= ((-(2 * Q)) * P) % W /\ 0 < 2 * Q * P
<1>1. 2 * Q * P \in Nat \ {0} /\ 4 * Q * P = 2 * Q * P + 2 * Q * P /\ 2 * Q * P < W
  <2>1. Q * P \in Nat \ {0}
    OBVIOUS
  <2>2. 2 * Q * P = 2 * (Q * P) /\ 4 * Q * P = 4 * (Q * P)
    OBVIOUS
  <2> HIDE DEF Multiplied
  <2> QED BY <2>1, <2>2
<1>2. \A x \in Nat : x < W => x % W = x
  OBVIOUS
<1>3. ASSUME NEW g \in 1..2 * Q PROVE 0 < g * P /\ g * P < W /\ (g * P) % W = g * P
  <2>1. g * P <= 2 * Q * P
    BY Multiplied
  <2>2. g * P \in Nat \ {0}
    OBVIOUS
  <2> QED BY <1>1, <1>2, <2>1, <2>2
<1>4. \A g \in 0..2 * Q - 1 : (g + 2 * Q) % (4 * Q) = g + 2 * Q
  OBVIOUS
<1>5. (2 * Q + 2 * Q) % (4 * Q) = 0
  OBVIOUS
<1>6. 2 * Q * P <= ((-(2 * Q)) * P) % W
  <2> DEFINE z == 2 * Q * P
  <2>1. (-(2 * Q)) * P = -z
    OBVIOUS
  <2>2. z \in Nat \ {0} /\ z < W /\ z + z <= W
    BY <1>1
  <2> HIDE DEF z
  <2>3. (-z) % W = W - z
    BY <2>2
  <2> QED BY <2>1, <2>2, <2>3 DEF z
<1> QED BY <1>1, <1>3, <1>4, <1>5, <1>6

\* An array that gets an item has room for it, unless its capacity overflowed.
LEMMA ArrayGrows ==
    ASSUME NEW array \in [cap : Int, room : Nat], NEW count \in Nat, RoomFor(array, count),
           NEW b \in Arrays(array, count)
    PROVE  RoomFor(b, count + 1) /\ (~Fits(b, count) => count > 2^(IntWidth - 2))
<1> DEFINE Q == 2^(IntWidth - 2)
           H == 2^(IntWidth - 1)
           P == PointerBytes
           W == 2^Width
           g == Grown(array.cap)
<1>1. /\ Q \in Nat \ {0} /\ H = 2 * Q /\ 2^IntWidth = 4 * Q /\ P \in Nat \ {0} /\ W \in Nat
      /\ 4 * Q * P <= W /\ FirstItems \in 1..H - 1
  BY BuffersAssumption
<1>2. \A m : AsInt(m) = ((m + H) % (4 * Q)) - H /\ Bytes(m) = LET n == (m * P) % W IN IF n = 0 THEN 1 ELSE n
  BY <1>1 DEF AsInt, Bytes
<1>3. \A a, c : /\ Fits(a, c) <=> (c + 1) * P <= a.room
                /\ RoomFor(a, c) <=> c > Q \/ (a.cap \in 0..H - 1 /\ c <= a.cap /\ a.cap * P <= a.room)
  BY DEF Fits, RoomFor
<1>4. g = IF array.cap = 0 THEN FirstItems ELSE 2 * array.cap
  BY DEF Grown
<1>5. array.cap \in Int /\ array.room \in Nat
  OBVIOUS
<1> HIDE DEF Q, H, P, W, g
<1>6. CASE count > Q
  BY <1>1, <1>3, <1>6 DEF Q
<1>7. CASE ~(count > Q)
  <2>1. array.cap \in 0..H - 1 /\ count <= array.cap /\ array.cap * P <= array.room
    BY <1>3, <1>7
  <2> SUFFICES RoomFor(b, count + 1) /\ Fits(b, count)
    OBVIOUS
  <2>2. CASE count + 1 <= array.cap
    <3>1. b = array
      BY <1>5, <2>2 DEF Arrays, Full
    <3>2. (count + 1) * P <= array.cap * P
      BY <1>1, <2>1, <2>2, Multiplied
    <3>3. (count + 1) * P \in Nat /\ array.cap * P \in Nat
      BY <1>1, <2>1
    <3>4. (count + 1) * P <= array.room
      BY <1>5, <2>1, <3>2, <3>3
    <3> QED BY <1>3, <2>1, <2>2, <3>1, <3>4
  <2>3. CASE ~(count + 1 <= array.cap)
    <3>1. array.cap = count /\ g \in count + 1..H /\ g \in 1..2 * Q /\ (g = H => count + 1 > Q)
      BY <1>1, <1>4, <1>7, <2>1, <2>3
    <3>2. b.cap = AsInt(g) /\ (b.room = Bytes(g) \/ b.room = Bytes(AsInt(g)))
      BY <1>5, <2>1, <2>3 DEF Arrays, Full, g
    <3>3. Bytes(g) = g * P
      <4>1. 0 < g * P /\ (g * P) % W = g * P
        BY <1>1, <3>1, Numbers
      <4> QED BY <1>2, <4>1
    <3>4. (count + 1) * P <= g * P /\ g * P <= 2 * Q * P
      BY <1>1, <3>1, Multiplied
    <3>5. CASE g < H
      <4>1. AsInt(g) = g
        <5>1. (g + 2 * Q) % (4 * Q) = g + 2 * Q
          BY <1>1, <3>1, <3>5, Numbers
        <5> QED BY <1>1, <1>2, <3>1, <5>1
      <4>2. b.room = g * P /\ b.cap = g
        BY <3>2, <3>3, <4>1
      <4>3. g * P \in Nat /\ g * P <= g * P /\ g \in 0..H - 1 /\ count + 1 <= g
        BY <1>1, <3>1, <3>5
      <4>4. RoomFor(b, count + 1)
        BY ONLY <1>3, <4>2, <4>3
      <4>5. Fits(b, count)
        BY ONLY <1>3, <3>4, <4>2
      <4> QED BY <4>4, <4>5
    <3>6. CASE g = H
      <4>1. AsInt(g) = -(2 * Q)
        <5>1. (2 * Q + 2 * Q) % (4 * Q) = 0
          BY <1>1, Numbers
        <5> QED BY <1>1, <1>2, <3>6, <5>1
      <4>2. Bytes(-(2 * Q)) = ((-(2 * Q)) * P) % W
        <5>1. 2 * Q * P <= ((-(2 * Q)) * P) % W /\ 0 < 2 * Q * P
          BY <1>1, Numbers
        <5>2. ((-(2 * Q)) * P) % W # 0
          <6>1. \A x, y : y \in Nat /\ y <= x /\ 0 < y => x # 0
            OBVIOUS
          <6>2. 2 * Q * P \in Nat
            BY <1>1
          <6> QED BY <5>1, <6>1, <6>2
        <5> QED BY <1>2, <5>2
      <4>3. g * P <= b.room
        <5>1. 2 * Q * P <= ((-(2 * Q)) * P) % W
          BY <1>1, Numbers
        <5>2. g * P = 2 * Q * P /\ g * P <= g * P
          BY <1>1, <3>6
        <5> QED BY <3>2, <3>3, <4>1, <4>2, <5>1, <5>2
      <4>4. b.room \in Int
        <5>1. b \in [cap : Int, room : Nat]
          BY ArraysTyped
        <5> QED BY <5>1
      <4>5. (count + 1) * P <= b.room
        <5>1. (count + 1) * P \in Int /\ g * P \in Int
          BY <1>1, <3>1
        <5> QED BY <3>4, <4>3, <4>4, <5>1
      <4> QED BY <1>3, <3>1, <3>6, <4>5
    <3> QED BY <1>1, <3>1, <3>5, <3>6
  <2> QED BY <1>1, <2>1, <2>2, <2>3
<1> QED BY <1>1, <1>6, <1>7

LEMMA RoomKept ==
    ASSUME Typed, OpenLists, Room, Next
    PROVE  Room'
<1> DEFINE N == Len(nodes)
           Kept(n) == RoomFor(n.array, Len(n.items))
<1>1. N \in Nat \ {0} /\ DOMAIN nodes = 1..N /\ \A k \in 1..N : nodes[k] \in NodeSet /\ Kept(nodes[k])
  <2>1. N \in Nat \ {0} /\ DOMAIN nodes = 1..N /\ \A k \in 1..N : nodes[k] \in NodeSet
    BY OpenTyped
  <2> QED BY <2>1 DEF Room
<1>2. ASSUME NEW m \in NodeSet, Kept(m), NEW n, NEW x, n.items = Append(m.items, x),
             n.array \in Arrays(m.array, Len(m.items))
      PROVE  Kept(n)
  <2>1. m.items \in Seq(Nat) /\ m.array \in [cap : Int, room : Nat]
    BY DEF NodeSet
  <2>2. Len(n.items) = Len(m.items) + 1 /\ Len(m.items) \in Nat
    BY <1>2, <2>1
  <2>3. RoomFor(n.array, Len(m.items) + 1)
    BY <1>2, <2>1, <2>2, ArrayGrows
  <2> QED BY <2>2, <2>3
<1>3. ASSUME NEW m, Kept(m), NEW n, n.items = m.items, n.array = m.array PROVE Kept(n)
  BY <1>3
<1>4. ASSUME NEW kind, NEW from, NEW to, NEW text PROVE Kept(Node(kind, from, to, text))
  <2>1. Len(<<>>) = 0 /\ RoomFor([cap |-> 0, room |-> 0], 0)
    <3>1. 0 \in 0..2^(IntWidth - 1) - 1 /\ 0 * PointerBytes <= 0
      BY BuffersAssumption
    <3> QED BY <3>1 DEF RoomFor
  <2> QED BY <2>1 DEF Node, NoArray
<1>5. \A k : k \in 1..N + 1 <=> k \in 1..N \/ k = N + 1
  BY <1>1
<1>6. ASSUME NEW h, NEW l \in 1..N, NEW x,
             h[l].items = Append(nodes[l].items, x), h[l].array \in ArraysOf(l),
             \A k \in 1..N : k # l => h[k].items = nodes[k].items /\ h[k].array = nodes[k].array
      PROVE  \A k \in 1..N : Kept(h[k])
  <2> SUFFICES ASSUME NEW k \in 1..N PROVE Kept(h[k])
    OBVIOUS
  <2> HIDE DEF Kept, N
  <2>1. CASE k = l
    BY <1>1, <1>2, <1>6, <2>1 DEF ArraysOf
  <2>2. CASE k # l
    BY <1>1, <1>3, <1>6, <2>2
  <2> QED BY <2>1, <2>2
<1>7. nodes' \in Seq(NodeSet) => DOMAIN nodes' = 1..Len(nodes')
  OBVIOUS
<1>8. ASSUME NEW kind, NEW to, LeafStepOf(kind, to) PROVE \A k \in DOMAIN nodes' : Kept(nodes'[k])
  <2>1. \A k \in 1..N : Kept(nodes'[k])
    <3>1. Inner \in 1..N
      BY OpenTyped
    <3>2. /\ \A k \in 1..N : k # Inner => nodes'[k].items = nodes[k].items /\ nodes'[k].array = nodes[k].array
          /\ nodes'[Inner].items = Append(nodes[Inner].items, N + 1)
          /\ nodes'[Inner].array \in ArraysOf(Inner)
      BY <1>8 DEF LeafStepOf, LeafKept
    <3> HIDE DEF Kept, N
    <3> QED BY <1>6, <3>1, <3>2
  <2>2. Kept(nodes'[N + 1])
    <3>1. nodes'[N + 1] = Node(kind, token, to, buf.text)
      BY <1>8 DEF LeafStepOf, LeafKept
    <3> HIDE DEF Kept
    <3> QED BY <1>4, <3>1
  <2>3. DOMAIN nodes' = 1..N + 1
    BY <1>7, <1>8 DEF LeafStepOf, LeafKept
  <2> HIDE DEF Kept, N
  <2> QED BY <1>5, <2>1, <2>2, <2>3
<1>9. ASSUME ListOpens PROVE \A k \in DOMAIN nodes' : Kept(nodes'[k])
  <2>1. \A k \in 1..N : nodes'[k] = nodes[k]
    BY <1>9 DEF ListOpens, OpenKept
  <2>2. Kept(nodes'[N + 1])
    <3>1. nodes'[N + 1] = Node("list", Here, 0, <<>>)
      BY <1>9 DEF ListOpens, OpenKept
    <3> HIDE DEF Kept
    <3> QED BY <1>4, <3>1
  <2>3. DOMAIN nodes' = 1..N + 1
    BY <1>7, <1>9 DEF ListOpens, OpenKept
  <2> HIDE DEF Kept, N
  <2> QED BY <1>1, <1>5, <2>1, <2>2, <2>3
<1>10. ASSUME ListCloses PROVE \A k \in DOMAIN nodes' : Kept(nodes'[k])
  <2>1. \A k \in 1..N : Kept(nodes'[k])
    <3> HIDE DEF Kept
    <3>1. /\ Outer \in 1..N
          /\ nodes'[Outer].items = Append(nodes[Outer].items, Inner)
          /\ nodes'[Outer].array \in ArraysOf(Outer)
          /\ \A k \in 1..N : k # Outer => nodes'[k].items = nodes[k].items /\ nodes'[k].array = nodes[k].array
      BY <1>10 DEF ListCloses, CloseKept
    <3> HIDE DEF N
    <3> QED BY <1>6, <3>1
  <2>2. DOMAIN nodes' = 1..N
    BY <1>7, <1>10 DEF ListCloses, CloseKept
  <2> QED BY <2>1, <2>2
<1>11. ASSUME Quiet PROVE \A k \in DOMAIN nodes' : Kept(nodes'[k])
  BY <1>1, <1>11 DEF Quiet
<1>12. \A k \in DOMAIN nodes' : Kept(nodes'[k])
  <2> HIDE DEF Kept
  <2> QED BY <1>8, <1>9, <1>10, <1>11, TreeStep DEF AtomEnds, StringEnds
\* An item that is written beyond its array is one too many for the list it was for.
<1>13. OverrunsAtLimit'
  <2>1. CASE OutOfMemory
    BY <2>1 DEF OutOfMemory, Stops, OverrunsAtLimit
  <2>2. CASE Overrun
    <3>1. PICK l \in DOMAIN nodes : \E a \in ArraysOf(l) : ~RoomIn(a, l)
      BY <2>2 DEF Overrun
    <3>2. PICK a \in Arrays(nodes[l].array, Len(nodes[l].items)) : ~Fits(a, Len(nodes[l].items))
      BY <3>1 DEF ArraysOf, RoomIn
    <3>3. nodes[l].array \in [cap : Int, room : Nat] /\ Len(nodes[l].items) \in Nat
      <4>1. nodes[l] \in NodeSet
        BY <1>1
      <4> QED BY <4>1 DEF NodeSet
    <3>4. RoomFor(nodes[l].array, Len(nodes[l].items))
      BY DEF Room
    <3>5. Len(nodes[l].items) > 2^(IntWidth - 2)
      BY <3>2, <3>3, <3>4, ArrayGrows
    <3>6. nodes' = nodes
      BY <2>2 DEF Overrun, Stops
    <3> QED BY <3>5, <3>6 DEF OverrunsAtLimit
  <2>3. CASE ~OutOfMemory /\ ~Overrun
    <3>1. mode' # "overrun"
      BY <2>3 DEF Next, SkipSpace, StartComment, CommentChar, OpenList, CloseList, EndOfText, StartAtom,
         StartString, ReadAtom, ReadString, ReadEscape, Keep, Leaf, Dies
    <3> QED BY <3>1 DEF OverrunsAtLimit
  <2> QED BY <2>1, <2>2, <2>3
<1> QED BY <1>12, <1>13 DEF Room

-----------------------------------------------------------------------------
(* The language.                                                           *)

\* Where a character leads the reader of the language.
Scanning(x, ch, y) ==
    /\ x.in = "code" =>
          /\ ch = ";" => y.in = "comment" /\ y.depth = x.depth
          /\ ch = Quote => y.in = "string" /\ y.depth = x.depth
          /\ ch = "(" => y.in = "code" /\ y.depth = x.depth + 1
          /\ ch = ")" => y.in = "code" /\ y.depth = x.depth - 1
          /\ ch \notin {";", Quote, "(", ")"} => y = x
    /\ x.in = "comment" =>
          /\ ch = "\n" => y.in = "code" /\ y.depth = x.depth
          /\ ch # "\n" => y = x
    /\ x.in = "string" =>
          /\ ch = Quote => y.in = "code" /\ y.depth = x.depth
          /\ ch = "\\" => y.in = "escape" /\ y.depth = x.depth
          /\ ch \notin {Quote, "\\"} => y = x
    /\ x.in = "escape" => y.in = "string" /\ y.depth = x.depth

LEMMA ScanIs ==
    ASSUME NEW x \in ScanStates, x.depth # 0, NEW ch
    PROVE  Scanning(x, ch, Scan(x, ch))
<1>1. \A v : [x EXCEPT !.in = v].in = v /\ [x EXCEPT !.in = v].depth = x.depth
  BY DEF ScanStates
<1>2. \A v : [x EXCEPT !.depth = v].in = x.in /\ [x EXCEPT !.depth = v].depth = v
  BY DEF ScanStates
<1>3. ASSUME x.in = "code"
      PROVE  /\ ch = ";" => Scan(x, ch) = [x EXCEPT !.in = "comment"]
             /\ ch = Quote => Scan(x, ch) = [x EXCEPT !.in = "string"]
             /\ ch = "(" => Scan(x, ch) = [x EXCEPT !.depth = x.depth + 1]
             /\ ch = ")" => Scan(x, ch) = [x EXCEPT !.depth = x.depth - 1]
             /\ ch \notin {";", Quote, "(", ")"} => Scan(x, ch) = x
  <2>1. Scan(x, ch) = ScanCode(x, ch)
    BY <1>3 DEF Scan
  <2>2. CASE ch = ";"
    BY <2>1, <2>2, QuoteIs DEF ScanCode
  <2>3. CASE ch = Quote
    BY <2>1, <2>3, QuoteIs DEF ScanCode
  <2>4. CASE ch = "("
    BY <2>1, <2>4, QuoteIs DEF ScanCode
  <2>5. CASE ch = ")"
    BY <2>1, <2>5, QuoteIs DEF ScanCode
  <2>6. CASE ch \notin {";", Quote, "(", ")"}
    BY <2>1, <2>6, QuoteIs DEF ScanCode
  <2> QED BY <2>2, <2>3, <2>4, <2>5, <2>6
<1>4. ASSUME x.in = "comment" PROVE Scan(x, ch) = IF ch = "\n" THEN [x EXCEPT !.in = "code"] ELSE x
  BY <1>4 DEF Scan
<1>5. ASSUME x.in = "string"
      PROVE  Scan(x, ch) = IF ch = Quote THEN [x EXCEPT !.in = "code"] ELSE IF ch = "\\" THEN [x EXCEPT !.in = "escape"] ELSE x
  BY <1>5 DEF Scan
<1>6. ASSUME x.in = "escape" PROVE Scan(x, ch) = [x EXCEPT !.in = "string"]
  BY <1>6 DEF Scan
<1>7. ASSUME x.in = "code"
      PROVE  /\ ch = ";" => Scan(x, ch).in = "comment" /\ Scan(x, ch).depth = x.depth
             /\ ch = Quote => Scan(x, ch).in = "string" /\ Scan(x, ch).depth = x.depth
             /\ ch = "(" => Scan(x, ch).in = "code" /\ Scan(x, ch).depth = x.depth + 1
             /\ ch = ")" => Scan(x, ch).in = "code" /\ Scan(x, ch).depth = x.depth - 1
             /\ ch \notin {";", Quote, "(", ")"} => Scan(x, ch) = x
  <2>1. ch = ";" => Scan(x, ch).in = "comment" /\ Scan(x, ch).depth = x.depth
    BY <1>1, <1>3, <1>7
  <2>2. ch = Quote => Scan(x, ch).in = "string" /\ Scan(x, ch).depth = x.depth
    BY <1>1, <1>3, <1>7
  <2>3. ch = "(" => Scan(x, ch).in = "code" /\ Scan(x, ch).depth = x.depth + 1
    BY <1>2, <1>3, <1>7
  <2>4. ch = ")" => Scan(x, ch).in = "code" /\ Scan(x, ch).depth = x.depth - 1
    BY <1>2, <1>3, <1>7
  <2>5. ch \notin {";", Quote, "(", ")"} => Scan(x, ch) = x
    BY <1>3, <1>7
  <2> QED BY <2>1, <2>2, <2>3, <2>4, <2>5
<1>8. ASSUME x.in = "string"
      PROVE  /\ ch = Quote => Scan(x, ch).in = "code" /\ Scan(x, ch).depth = x.depth
             /\ ch = "\\" => Scan(x, ch).in = "escape" /\ Scan(x, ch).depth = x.depth
             /\ ch \notin {Quote, "\\"} => Scan(x, ch) = x
  BY <1>1, <1>5, <1>8, QuoteIs
<1>9. x.in = "comment" =>
         /\ ch = "\n" => Scan(x, ch).in = "code" /\ Scan(x, ch).depth = x.depth
         /\ ch # "\n" => Scan(x, ch) = x
  BY <1>1, <1>4
<1>10. x.in = "escape" => Scan(x, ch).in = "string" /\ Scan(x, ch).depth = x.depth
  BY <1>1, <1>6
<1> QED BY <1>7, <1>8, <1>9, <1>10 DEF Scanning

LEMMA InStepKept ==
    ASSUME Typed, OpenLists, Buffered, InStep, AcceptsBalanced, Next
    PROVE  InStep' /\ AcceptsBalanced'
<1> DEFINE x == Scans[pos - 1]
           y == Scans[pos]
           L == Len(open)
           Accepted == Scanned.depth = 1 /\ Scanned.in \in {"code", "comment"}
<1>1. src' = src /\ Scans' = Scans
  <2>1. src' = src
    BY TreeStep
  <2> QED BY <2>1 DEF Scans, Scan, ScanCode
<1>2. /\ src \in Seq(Chars) /\ pos \in Nat \ {0} /\ pos <= Len(src) + 1 /\ L \in Nat \ {0}
      /\ pos - 1 \in 0..Len(src)
  <2>1. src \in Seq(Chars) /\ pos \in Nat \ {0} /\ pos <= Len(src) + 1
    BY DEF Typed
  <2> QED BY <2>1, OpenTyped
<1>3. x \in ScanStates
  BY <1>2, ScansOf
<1>4. Place(mode, pos, L, x)
  BY DEF InStep
<1>5. InStep' <=> Place(mode', pos', Len(open'), Scans[pos' - 1])
  BY <1>1 DEF InStep, Place
<1>6. AcceptsBalanced' <=> (mode' \in {"done", "died"} => (mode' = "done" <=> Accepted))
  BY <1>1 DEF AcceptsBalanced, Scanned
<1>7. ASSUME mode' \notin {"done", "died"} PROVE AcceptsBalanced'
  BY <1>6, <1>7
<1>8. ASSUME mode' \in Ended PROVE InStep'
  BY <1>5, <1>8 DEF Place, Ended
\* The character that is read.
<1>9. ASSUME Peek # EOF
      PROVE  pos \in 1..Len(src) /\ Peek = src[pos] /\ y \in ScanStates /\ y = Scan(x, Peek)
  <2>1. pos \in 1..Len(src) /\ Peek = src[pos]
    BY <1>2, <1>9, PeekTyped
  <2>2. pos \in 0..Len(src)
    BY <2>1
  <2> QED BY <1>2, <2>1, <2>2, ScansOf
<1>10. ASSUME pos' = pos + 1 PROVE Scans[pos' - 1] = y
  <2>1. pos' - 1 = pos
    BY <1>2, <1>10
  <2> QED BY <2>1
<1>11. ASSUME pos' = pos PROVE Scans[pos' - 1] = x
  BY <1>11
<1>12. ASSUME Peek = EOF PROVE pos = Len(src) + 1 /\ Scanned = x
  <2>1. pos = Len(src) + 1
    BY <1>12, PeekTyped
  <2>2. pos - 1 = Len(src)
    BY <1>2, <2>1
  <2> QED BY <2>1, <2>2 DEF Scanned
<1> HIDE DEF x, y, L, Accepted
\* In a list or a comment, at a character or at the end.
<1>13. ASSUME Peek # EOF, x.depth # 0 PROVE Scanning(x, Peek, y)
  BY <1>3, <1>9, <1>13, ScanIs
<1>14. ASSUME mode = "skip", Peek # EOF PROVE x.in = "code" /\ x.depth = L /\ x.depth # 0
  <2>1. pos # Len(src) + 1
    BY <1>9, <1>14, <1>2
  <2> QED BY <1>2, <1>4, <1>14, <2>1 DEF Place
<1>15. ASSUME mode \in {"comment", "string", "escape"} PROVE x.in = mode /\ x.depth = L /\ x.depth # 0
  BY <1>2, <1>4, <1>15 DEF Place
<1>16. CASE SkipSpace
  <2>1. Peek \in Spaces /\ Peek # EOF /\ mode = "skip" /\ mode' = "skip" /\ pos' = pos + 1 /\ open' = open
    BY <1>16 DEF SkipSpace, Get, Spaces, EOF
  <2>2. Peek \notin {";", Quote, "(", ")"}
    BY <2>1, QuoteIs DEF Spaces
  <2>3. y = x
    BY <1>13, <1>14, <2>1, <2>2 DEF Scanning
  <2> QED BY <1>5, <1>7, <1>10, <1>14, <2>1, <2>3 DEF Place, L
<1>17. CASE StartComment
  <2>1. Peek = ";" /\ Peek # EOF /\ mode = "skip" /\ mode' = "comment" /\ pos' = pos + 1 /\ open' = open
    BY <1>17 DEF StartComment, Get, EOF
  <2>2. y.in = "comment" /\ y.depth = x.depth
    BY <1>13, <1>14, <2>1 DEF Scanning
  <2> QED BY <1>5, <1>7, <1>10, <1>14, <2>1, <2>2 DEF Place, L
<1>18. CASE CommentChar
  <2>1. mode = "comment" /\ open' = open
    BY <1>18 DEF CommentChar
  <2>2. CASE Peek = EOF
    <3>1. mode' = "skip" /\ pos' = pos
      BY <1>18, <2>2 DEF CommentChar, Stay
    <3> QED BY <1>5, <1>7, <1>11, <1>12, <1>15, <2>1, <2>2, <3>1 DEF Place, L
  <2>3. CASE Peek = "\n"
    <3>1. mode' = "skip" /\ pos' = pos + 1 /\ Peek # EOF
      BY <1>18, <2>3 DEF CommentChar, Get, EOF
    <3>2. y.in = "code" /\ y.depth = x.depth
      BY <1>13, <1>15, <2>1, <2>3, <3>1 DEF Scanning
    <3> QED BY <1>5, <1>7, <1>10, <1>15, <2>1, <3>1, <3>2 DEF Place, L
  <2>4. CASE Peek \notin {EOF, "\n"}
    <3>1. mode' = "comment" /\ pos' = pos + 1 /\ Peek # EOF
      BY <1>18, <2>4 DEF CommentChar, Get
    <3>2. y = x
      BY <1>13, <1>15, <2>1, <2>4, <3>1 DEF Scanning
    <3> QED BY <1>5, <1>7, <1>10, <1>15, <2>1, <3>1, <3>2 DEF Place, L
  <2> QED BY <2>2, <2>3, <2>4
<1>19. CASE OpenList
  <2>1. Peek = "(" /\ Peek # EOF /\ mode = "skip" /\ mode' = "skip" /\ pos' = pos + 1
    BY <1>19 DEF OpenList, Get, EOF
  <2>2. Len(open') = L + 1
    BY <1>19, OpenStep DEF OpenKept, L
  <2>3. y.in = "code" /\ y.depth = x.depth + 1
    BY <1>13, <1>14, <2>1 DEF Scanning
  <2> QED BY <1>5, <1>7, <1>10, <1>14, <2>1, <2>2, <2>3 DEF Place
<1>20. CASE CloseList
  <2>1. Peek = ")" /\ Peek # EOF /\ mode = "skip" /\ pos' = pos + 1
    BY <1>20 DEF CloseList, Get, EOF
  <2>2. y.in = "code" /\ y.depth = x.depth - 1
    BY <1>13, <1>14, <2>1 DEF Scanning
  <2>3. CASE L = 1
    <3>1. mode' = "died"
      BY <1>20, <2>3 DEF CloseList, L
    <3>2. Scanned.depth = 0
      <4>1. y.depth = 0
        BY <1>14, <2>1, <2>2, <2>3
      <4>2. pos \in 0..Len(src)
        BY <1>9, <2>1
      <4> QED BY <1>2, <4>1, <4>2, Outside DEF Scanned, y
    <3>3. ~Accepted
      BY <3>2 DEF Accepted
    <3> QED BY <1>6, <1>8, <3>1, <3>3 DEF Ended
  <2>4. CASE L # 1
    <3>1. mode' = "skip"
      BY <1>20, <2>1, <2>4 DEF CloseList, L
    <3>2. Len(open') = L - 1
      BY <1>20, <2>4, CloseStep DEF CloseKept, L
    <3> QED BY <1>5, <1>7, <1>10, <1>14, <2>1, <2>2, <3>1, <3>2 DEF Place
  <2> QED BY <2>3, <2>4
<1>21. CASE EndOfText
  <2>1. Peek = EOF /\ mode = "skip" /\ mode' = IF L = 1 THEN "done" ELSE "died"
    BY <1>21 DEF EndOfText, L
  <2>2. Scanned = x /\ x.depth = L /\ x.in \in {"code", "comment"}
    BY <1>4, <1>12, <2>1 DEF Place
  <2> QED BY <1>6, <1>8, <2>1, <2>2 DEF Accepted, Ended
<1>22. CASE StartAtom
  <2>1. Peek # EOF /\ mode = "skip" /\ mode' = "atom" /\ pos' = pos /\ open' = open
    BY <1>22 DEF StartAtom, AtomChar, Stay
  <2> QED BY <1>5, <1>7, <1>11, <1>14, <2>1 DEF Place, L
<1>23. CASE StartString
  <2>1. Peek = Quote /\ Peek # EOF /\ mode = "skip" /\ mode' = "string" /\ pos' = pos + 1 /\ open' = open
    BY <1>23, QuoteIs DEF StartString, Get
  <2>2. y.in = "string" /\ y.depth = x.depth
    BY <1>13, <1>14, <2>1 DEF Scanning
  <2> QED BY <1>5, <1>7, <1>10, <1>14, <2>1, <2>2 DEF Place, L
<1>24. CASE ReadAtom
  <2>1. mode = "atom" /\ open' = open
    BY <1>24 DEF ReadAtom, Keep, Leaf
  <2>2. CASE AtomChar(Peek)
    <3>1. Peek # EOF /\ mode' \in {"atom", "hung"} /\ pos' = pos + 1
      <4>1. Peek # EOF
        BY <2>2 DEF AtomChar
      <4> QED BY <1>24, <2>2, <4>1 DEF ReadAtom, Keep, Get
    <3>2. Peek \notin {";", Quote, "(", ")"}
      BY <2>2 DEF AtomChar
    <3>3. x.in = "code" /\ x.depth = L /\ x.depth # 0
      <4>1. pos # Len(src) + 1
        BY <1>2, <1>9, <3>1
      <4> QED BY <1>2, <1>4, <2>1, <4>1 DEF Place
    <3>4. y = x
      BY <1>13, <3>1, <3>2, <3>3 DEF Scanning
    <3> QED BY <1>5, <1>7, <1>8, <1>10, <2>1, <3>1, <3>3, <3>4 DEF Place, L, Ended
  <2>3. CASE ~AtomChar(Peek)
    <3>1. mode' = "skip" /\ pos' = pos
      BY <1>24, <2>3 DEF ReadAtom, Leaf, Stay
    <3> QED BY <1>4, <1>5, <1>7, <1>11, <2>1, <3>1 DEF Place, L
  <2> QED BY <2>2, <2>3
<1>25. CASE ReadString
  <2>1. mode = "string" /\ open' = open
    BY <1>25 DEF ReadString, Keep, Leaf, Dies
  <2>2. CASE Peek = EOF
    <3>1. mode' = "died"
      BY <1>25, <2>2, QuoteIs DEF ReadString, Dies, EOF
    <3>2. ~Accepted
      BY <1>12, <1>15, <2>1, <2>2 DEF Accepted
    <3> QED BY <1>6, <1>8, <3>1, <3>2 DEF Ended
  <2>3. CASE Peek = Quote
    <3>1. mode' = "skip" /\ pos' = pos + 1 /\ Peek # EOF
      BY <1>25, <2>3, QuoteIs DEF ReadString, Leaf, Get
    <3>2. y.in = "code" /\ y.depth = x.depth
      BY <1>13, <1>15, <2>1, <2>3, <3>1 DEF Scanning
    <3> QED BY <1>5, <1>7, <1>10, <1>15, <2>1, <3>1, <3>2 DEF Place, L
  <2>4. CASE Peek = "\\"
    <3>1. mode' = "escape" /\ pos' = pos + 1 /\ Peek # EOF
      BY <1>25, <2>4, QuoteIs DEF ReadString, Get, EOF
    <3>2. y.in = "escape" /\ y.depth = x.depth
      BY <1>13, <1>15, <2>1, <2>4, <3>1 DEF Scanning
    <3> QED BY <1>5, <1>7, <1>10, <1>15, <2>1, <3>1, <3>2 DEF Place, L
  <2>5. CASE Peek \notin {EOF, Quote, "\\"}
    <3>1. mode' \in {"string", "hung"} /\ pos' = pos + 1 /\ Peek # EOF
      BY <1>25, <2>5 DEF ReadString, Keep, Get
    <3>2. y = x
      BY <1>13, <1>15, <2>1, <2>5, <3>1 DEF Scanning
    <3> QED BY <1>5, <1>7, <1>8, <1>10, <1>15, <2>1, <3>1, <3>2 DEF Place, L, Ended
  <2> QED BY <2>2, <2>3, <2>4, <2>5
<1>26. CASE ReadEscape
  <2>1. mode = "escape" /\ open' = open
    BY <1>26 DEF ReadEscape, Keep, Dies
  <2>2. CASE Peek = EOF
    <3>1. mode' = "died"
      BY <1>26, <2>2 DEF ReadEscape, Dies
    <3>2. ~Accepted
      BY <1>12, <1>15, <2>1, <2>2 DEF Accepted
    <3> QED BY <1>6, <1>8, <3>1, <3>2 DEF Ended
  <2>3. CASE Peek # EOF
    <3>1. mode' \in {"string", "hung"} /\ pos' = pos + 1
      BY <1>26, <2>3 DEF ReadEscape, Keep, Get
    <3>2. y.in = "string" /\ y.depth = x.depth
      BY <1>13, <1>15, <2>1, <2>3 DEF Scanning
    <3> QED BY <1>5, <1>7, <1>8, <1>10, <1>15, <2>1, <3>1, <3>2 DEF Place, L, Ended
  <2> QED BY <2>2, <2>3
<1>27. CASE OutOfMemory \/ Overrun
  <2>1. mode' \in Ended /\ mode' \notin {"done", "died"}
    BY <1>27, Halting DEF Halts, Stops, Ended
  <2> QED BY <1>7, <1>8, <2>1
<1> QED BY <1>16, <1>17, <1>18, <1>19, <1>20, <1>21, <1>22, <1>23, <1>24, <1>25, <1>26, <1>27 DEF Next

LEMMA WholeKept ==
    ASSUME Typed, OpenLists, Next
    PROVE  Whole'
<1>1. src' = src
  BY TreeStep
<1>2. CASE EndOfText
  <2>1. pos = Len(src) + 1 /\ token' = Here
    BY <1>2, PeekTyped DEF EndOfText
  <2> QED BY <1>1, <2>1 DEF Whole, Here
<1>3. CASE ~EndOfText
  <2>1. mode' # "done"
    BY <1>3 DEF Next, SkipSpace, StartComment, CommentChar, OpenList, CloseList, StartAtom, StartString,
                ReadAtom, ReadString, ReadEscape, Keep, Leaf, Dies, OutOfMemory, Overrun, Stops
  <2> QED BY <2>1 DEF Whole
<1> QED BY <1>2, <1>3

-----------------------------------------------------------------------------
(* The invariant holds at first, and is kept.                              *)

LEMMA InitHolds ==
    ASSUME Init
    PROVE  IInv
<1> DEFINE n == Node("list", [Here EXCEPT !.line = 0, !.col = 0], 0, <<>>)
<1>1. src \in Seq(Chars) /\ Len(src) \in Nat
  BY ReaderAssumption DEF Init
<1>2. /\ pos = 1 /\ line = 1 /\ col = 1 /\ mode = "skip" /\ token = Here /\ buf = EmptyBuf
      /\ nodes = <<n>> /\ open = <<1>>
  BY DEF Init
<1>3. Here = [start |-> 1, line |-> 1, col |-> 1]
  BY <1>2 DEF Here
<1>4. /\ n \in NodeSet /\ n.kind = "list" /\ n.start = 1 /\ n.end = 0
      /\ n.items = <<>> /\ n.array = NoArray
  BY <1>3 DEF Node, NodeSet, NoArray
<1> HIDE DEF n
<1>5. /\ nodes \in Seq(NodeSet) /\ Len(nodes) = 1 /\ nodes[1] = n /\ DOMAIN nodes = {1}
      /\ open \in Seq(Nat) /\ Len(open) = 1 /\ open[1] = 1 /\ DOMAIN open = {1} /\ open # <<>>
  BY <1>2, <1>4
<1>6. Typed
  <2>1. buf \in Bufs
    <3>1. 0 \in 0..2^Width - 2
      BY BuffersAssumption
    <3> QED BY <1>2, <3>1 DEF EmptyBuf, Bufs
  <2>2. token \in [start : Nat, line : Nat, col : Nat] /\ token.start = 1
    BY <1>2, <1>3
  <2>3. pos \in 1..Len(src) + 1 /\ line \in 1..pos /\ col \in 1..pos /\ token.start \in 1..pos
    BY <1>1, <1>2, <2>2
  <2> QED BY <1>1, <1>2, <1>5, <2>1, <2>2, <2>3 DEF Typed
<1>7. OpenLists
  <2>1. Range(open) = {1}
    BY <1>5 DEF Range
  <2> QED BY <1>4, <1>5, <2>1 DEF OpenLists
<1>8. Edge = 1
  BY <1>2 DEF Edge
<1>9. Places
  <2>1. \A i \in DOMAIN nodes : nodes[i].start \in 1..Edge /\ i = 1 /\ nodes[i].end = 0
    BY <1>4, <1>5, <1>8
  <2>2. \A i, j \in DOMAIN nodes : ~(i < j)
    BY <1>5
  <2> QED BY <1>4, <1>5, <2>1, <2>2 DEF Places
<1>10. ASSUME NEW m, m.line = 1, m.col = 1 PROVE At(1, m)
  <2>1. {k \in 1..1 - 1 : src[k] = "\n"} = {}
    OBVIOUS
  <2>2. {k \in 1..1 : SameLine(k, 1)} = {1}
    BY DEF SameLine
  <2>3. Cardinality({}) = 0 /\ Cardinality({1}) = 1
    BY FS_EmptySet, FS_Singleton
  <2> QED BY <1>10, <2>1, <2>2, <2>3 DEF At
<1>11. At(pos, Here) /\ PositionsRight
  <2>1. At(1, Here)
    BY <1>3, <1>10
  <2>2. token.start = 1 /\ token = Here
    BY <1>2, <1>3
  <2> QED BY <1>2, <1>4, <1>5, <2>1, <2>2 DEF PositionsRight
<1>12. TokenRead
  BY <1>2 DEF TokenRead, TokenIs
<1>13. LeavesRight
  BY <1>4, <1>5 DEF LeavesRight, LeafRight
<1>14. Gaps
  <2>1. \A i : ~(i \in 1..Edge - 1)
    BY <1>8
  <2> QED BY <1>2, <2>1 DEF Gaps
<1>15. TreeNests
  <2>1. \A l \in 1..Len(nodes) : l = 1 /\ nodes[l].items = <<>> /\ nodes[l].end = 0
    BY <1>4, <1>5
  <2>2. \A k : ~(k \in 1..Len(<<>>)) /\ ~(k \in 2..Len(<<>>))
    OBVIOUS
  <2>3. NestsIn(nodes)
    BY <2>1, <2>2 DEF NestsIn, Parens, InOrder, Has
  <2> QED BY <1>5, <2>3, NestsIs DEF NestsIff
<1>16. Behind
  BY <1>5 DEF Behind
<1>17. Buffered
  BY <1>2 DEF Buffered, Holds, HangsAtLimit
<1>18. Room
  <2>1. RoomFor(NoArray, 0) /\ Len(<<>>) = 0
    <3>1. 0 \in 0..2^(IntWidth - 1) - 1 /\ 0 * PointerBytes <= 0
      BY BuffersAssumption
    <3> QED BY <3>1 DEF RoomFor, NoArray
  <2> QED BY <1>2, <1>4, <1>5, <2>1 DEF Room, OverrunsAtLimit
<1>19. InStep
  <2>1. pos - 1 = 0 /\ Len(open) = 1 /\ mode = "skip"
    BY <1>2, <1>5
  <2>2. Scans[0] = [in |-> "code", depth |-> 1]
    BY <1>1, ScansOf
  <2> QED BY <2>1, <2>2 DEF InStep, Place
<1>20. AcceptsBalanced /\ Whole
  BY <1>2 DEF AcceptsBalanced, Whole
<1> QED
  BY <1>6, <1>7, <1>9, <1>11, <1>12, <1>13, <1>14, <1>15, <1>16, <1>17, <1>18, <1>19, <1>20 DEF IInv

LEMMA StepHolds ==
    ASSUME IInv, [Next]_vars
    PROVE  IInv'
<1>1. CASE Next
  BY <1>1, TypedKept, OpenListsKept, PlacesKept, PositionsKept, TokenKept, LeavesKept, GapsKept,
     NestsKept, BehindKept, RoomKept, InStepKept, WholeKept DEF IInv
<1>2. CASE UNCHANGED vars
  <2>1. /\ src' = src /\ pos' = pos /\ line' = line /\ col' = col /\ mode' = mode
        /\ token' = token /\ buf' = buf /\ nodes' = nodes /\ open' = open
    BY <1>2 DEF vars
  <2>2. Typed' /\ OpenLists' /\ Places'
    BY <2>1 DEF IInv, Typed, OpenLists, Places, Edge
  <2>3. At(pos, Here)' /\ PositionsRight'
    BY <2>1 DEF IInv, At, Here, SameLine, PositionsRight
  <2>4. TokenRead'
    <3>1. TokenRead' <=> TokenIs(mode', pos', token'.start, buf'.text)
      BY <2>1 DEF TokenRead, TokenIs, AtomRead, StringRead, Heard, AtomAt, IsEscaped, Slashes, Spoken, Says
    <3> QED BY <2>1, <3>1 DEF IInv, TokenRead
  <2>5. LeavesRight'
    <3>1. ASSUME NEW n PROVE LeafRight(n)' <=> LeafRight(n)
      BY <2>1 DEF LeafRight, AtomWhole, StringText, Heard, IsEscaped, Slashes, Spoken, Says
    <3> QED BY <2>1, <3>1 DEF IInv, LeavesRight
  <2>6. Gaps'
    <3>1. Covered' = Covered /\ Edge' = Edge
      BY <2>1 DEF Covered, Leaves, Lists, Closed, Edge
    <3>2. ASSUME NEW i PROVE Passed(i, Covered)' <=> Passed(i, Covered)
      BY <2>1, <3>1 DEF Passed, SameLine, Bare
    <3>3. Commented(Covered)' <=> Commented(Covered)
      BY <2>1, <3>1 DEF Commented, SameLine, Bare
    <3> QED BY <2>1, <3>1, <3>2, <3>3 DEF IInv, Gaps
  <2>7. TreeNests' /\ Behind'
    BY <2>1 DEF IInv, TreeNests, Around, Leaves, Lists, Closed, Behind
  <2>8. Buffered' /\ Room'
    BY <2>1 DEF IInv, Buffered, HangsAtLimit, Room, OverrunsAtLimit
  <2>9. InStep' /\ AcceptsBalanced' /\ Whole'
    <3>1. Scans' = Scans
      BY <2>1 DEF Scans, Scan, ScanCode
    <3>2. InStep' <=> Place(mode', pos', Len(open'), Scans[pos' - 1])
      BY <2>1, <3>1 DEF InStep, Place
    <3>3. AcceptsBalanced'
      BY <2>1, <3>1 DEF IInv, AcceptsBalanced, Scanned
    <3> QED BY <2>1, <3>2, <3>3 DEF IInv, InStep, Whole
  <2> QED BY <2>2, <2>3, <2>4, <2>5, <2>6, <2>7, <2>8, <2>9 DEF IInv
<1> QED BY <1>1, <1>2

-----------------------------------------------------------------------------
(* What the invariant says.                                                *)

LEMMA InvTyped ==
    ASSUME IInv
    PROVE  TypeOK
<1>1. buf.text \in Seq(Chars) /\ buf.cap \in 0..2^Width - 1
  <2>1. buf.text \in Seq(Chars) /\ buf.cap \in 0..2^Width - 2
    BY DEF IInv, Typed, Bufs
  <2> QED BY <2>1, BuffersAssumption
<1> QED BY <1>1 DEF IInv, Typed, OpenLists, TypeOK

LEMMA InvTiled ==
    ASSUME IInv
    PROVE  TextTiled
<1> SUFFICES ASSUME mode = "done" PROVE TextTiled
  BY DEF TextTiled
<1>1. Edge - 1 = Len(src) /\ DOMAIN src = 1..Len(src)
  <2>1. Len(src) \in Nat /\ DOMAIN src = 1..Len(src)
    BY DEF IInv, Typed
  <2>2. Edge = Len(src) + 1
    BY DEF IInv, Whole, Edge
  <2> QED BY <2>1, <2>2
<1>2. \A i, j \in Leaves : i < j => nodes[i].end <= nodes[j].start
  BY DEF IInv, Places, Leaves
<1>3. \A i \in Leaves : nodes[i].kind = "atom" => AtomWhole(nodes[i])
  BY DEF IInv, LeavesRight, LeafRight, Leaves
<1>4. ASSUME NEW i \in DOMAIN src \ Covered
      PROVE  \/ src[i] \in Spaces
             \/ \E k \in 1..i : src[k] = ";" /\ SameLine(k, i) /\ k..i \cap Covered = {}
  <2>1. Passed(i, Covered)
    BY <1>1 DEF IInv, Gaps
  <2> QED BY <2>1 DEF Passed, Bare
<1> QED BY <1>2, <1>3, <1>4 DEF TextTiled, AtomWhole

LEMMA InvCapacity ==
    ASSUME IInv
    PROVE  CapacityKept
BY DEF IInv, Buffered, Room, CapacityKept

-----------------------------------------------------------------------------
(* The theorems.                                                           *)

\* Every text, read to any point, is as the invariant says (lexer.c:24-128, sexpr.c:30-120).
THEOREM ReaderInductive == Spec => []IInv
BY InitHolds, StepHolds, PTL DEF Spec

\* Every text is read in range, whatever its length and whatever the buffers begin with: the
\* lists on the stack are all that is still being built (sexpr.c:30-120).
THEOREM TypeCorrect == Spec => []TypeOK
BY ReaderInductive, InvTyped, PTL

\* The line and column of every node but the program itself and of the token an error is
\* reported at are those of its first character (lexer.c:11-22 and 91-128, sexpr.c:30-106).
THEOREM PositionsKnown == Spec => []PositionsRight
<1>1. IInv => PositionsRight
  BY DEF IInv
<1> QED BY <1>1, ReaderInductive, PTL

\* The tree is the tree of the text: nothing that was read is lost, its lists nest as the
\* parentheses do, and its leaves say what the text says (sexpr.c:30-106, lexer.c:24-81).
THEOREM TreeIsOfText == Spec => []TreeOfText
<1>1. IInv => TreeOfText
  BY InvTiled, LeavesSay DEF IInv, TreeOfText
<1> QED BY <1>1, ReaderInductive, PTL

\* The texts it accepts are those that are balanced and whose strings end, and no other
\* (sexpr.c:30-106, lexer.c:60-81).
THEOREM BalancedAccepted == Spec => []AcceptsBalanced
<1>1. IInv => AcceptsBalanced
  BY DEF IInv
<1> QED BY <1>1, ReaderInductive, PTL

\* Whatever the widths of an int, a pointer and a size_t and the first capacities, what is
\* written to a buffer or an array lies within what was allocated until a capacity overflows,
\* which takes a text of half the address space or a list of a quarter of the ints
\* (common.c:46-70, sexpr.c:19-28).
THEOREM CapacitySuffices == Spec => []CapacityKept
BY ReaderInductive, InvCapacity, PTL
=============================================================================
