------------------------- MODULE EmbeddedTestsProofs -------------------------
(***************************************************************************)
(* Proofs about EmbeddedTests, for every shape of program: each test that  *)
(* is selected becomes one function that the generated main calls once,    *)
(* its text is well formed but for the cases that are named, and what it   *)
(* answers and reports is what its expectations and values say.            *)
(***************************************************************************)
EXTENDS EmbeddedTests, FiniteSetTheorems, WellFoundedInduction, TLAPS

-----------------------------------------------------------------------------
(* Numbers.                                                                *)

LEMMA Least ==
    ASSUME NEW U \in SUBSET Nat, U # {}
    PROVE  \E x \in U : \A y \in U : x <= y
<1> DEFINE R == OpToRel(<, Nat)
<1>1. IsWellFoundedOn(R, Nat)
  BY NatLessThanWellFounded
<1>2. \A x, y \in Nat : x < y => <<x, y>> \in R
  BY DEF OpToRel
<1> HIDE DEF R
<1>3. PICK x \in U : \A y \in U : ~ (<<y, x>> \in R)
  <2>1. \E x \in U : \A y \in U : ~ (<<y, x>> \in R)
    BY <1>1, WFMin
  <2> QED
    BY <2>1
<1>4. ASSUME NEW y \in U
      PROVE  x <= y
  <2>1. x \in Nat /\ y \in Nat /\ ~(y < x)
    BY <1>2, <1>3
  <2> QED
    BY <2>1
<1> QED
  BY <1>4


\* Induction, over a set of numbers in place of a predicate.
LEMMA Upward ==
    ASSUME NEW n \in Nat, NEW P, 0 \in P, \A i \in 1..n : i - 1 \in P => i \in P
    PROVE  \A i \in 0..n : i \in P
<1> DEFINE Bad == {m \in 0..n : m \notin P}
<1> SUFFICES ASSUME Bad # {} PROVE FALSE
  OBVIOUS
<1>1. PICK m \in Bad : \A k \in Bad : m <= k
  <2>1. Bad \in SUBSET Nat
    OBVIOUS
  <2> HIDE DEF Bad
  <2> QED BY <2>1, Least
<1>2. m \in 1..n /\ m - 1 \in 0..n /\ ~(m <= m - 1)
  OBVIOUS
<1>3. m - 1 \in P
  BY <1>1, <1>2
<1> QED BY <1>2, <1>3

-----------------------------------------------------------------------------
(* Running a text.                                                         *)

Ops   == {"inst", "label", "br", "ret", "print", "debug"}
Vals  == {"", "zero", "one", "value"}
Lines == [op : Ops, to : SUBSET Nat, at : Nat, then : Nat, when : BOOLEAN, val : Vals]

\* Every branch of a text lands further down, in one of two places.
Lands(T, i) ==
    /\ T[i].then \in T[i].to
    /\ \E l \in T[i].to : l # T[i].then
    /\ \A l \in T[i].to : \E j \in i + 1..Len(T) : T[j].op = "label" /\ T[j].to = {l}
Forward(T) ==
    /\ T \in Seq(Lines) /\ EndsInTerminator(T) /\ UniqueLabels(T)
    /\ \A i \in 1..Len(T) : T[i].op = "br" => Lands(T, i)

LEMMA LineIs ==
    ASSUME NEW T, UniqueLabels(T), NEW j \in DOMAIN T, NEW l, T[j].op = "label", T[j].to = {l}
    PROVE  LineOf(T, l) = j
<1>1. \A i \in DOMAIN T : T[i].op = "label" /\ T[i].to = {l} => i = j
  BY DEF UniqueLabels
<1> QED BY <1>1 DEF LineOf

\* Where a branch goes.
Goto(T, agrees, i) ==
    IF T[i].at = 0 \/ T[i].when = agrees[T[i].at] THEN T[i].then ELSE CHOOSE l \in T[i].to : l # T[i].then

LEMMA GoesForward ==
    ASSUME NEW T, Forward(T), NEW agrees, NEW i \in 1..Len(T), T[i].op = "br"
    PROVE  LineOf(T, Goto(T, agrees, i)) \in i + 1..Len(T)
<1> DEFINE l == Goto(T, agrees, i)
<1>1. Lands(T, i) /\ DOMAIN T = 1..Len(T) /\ Len(T) \in Nat /\ UniqueLabels(T)
  BY DEF Forward
<1>2. l \in T[i].to
  <2>1. (CHOOSE x \in T[i].to : x # T[i].then) \in T[i].to
    BY <1>1 DEF Lands
  <2> QED BY <1>1, <2>1 DEF Lands, Goto
<1> HIDE DEF l
<1>3. PICK j \in i + 1..Len(T) : T[j].op = "label" /\ T[j].to = {l}
  BY <1>1, <1>2 DEF Lands
<1>4. j \in DOMAIN T
  BY <1>1
<1>5. LineOf(T, l) = j
  BY <1>1, <1>3, <1>4, LineIs
<1> QED BY <1>3, <1>5 DEF l

\* What a line does is known from what those further down do.
LEMMA Downward ==
    ASSUME NEW T, Forward(T), NEW agrees, NEW i \in 1..Len(T), NEW F, NEW G,
           \A j \in i + 1..Len(T) : F[j] = G[j]
    PROVE  Outcome(T, agrees, F, i) = Outcome(T, agrees, G, i)
<1>1. Len(T) \in Nat /\ T # <<>> /\ T[Len(T)].op \in {"br", "ret"}
  BY DEF Forward, EndsInTerminator, IsTerminator
<1>2. CASE T[i].op = "ret"
  BY <1>2 DEF Outcome
<1>3. CASE T[i].op = "br"
  <2>1. LineOf(T, Goto(T, agrees, i)) \in i + 1..Len(T)
    BY <1>3, GoesForward
  <2>2. \A H : Outcome(T, agrees, H, i) = H[LineOf(T, Goto(T, agrees, i))]
    BY <1>3 DEF Outcome, Goto
  <2> QED BY <2>1, <2>2
<1>4. CASE T[i].op \notin {"br", "ret"}
  <2>1. i + 1 \in i + 1..Len(T)
    BY <1>1, <1>4
  <2>2. F[i + 1] = G[i + 1]
    BY <2>1
  <2> QED BY <1>4, <2>2 DEF Outcome
<1> QED BY <1>2, <1>3, <1>4

\* So a text has an outcome from each line on.
LEMMA Runs ==
    ASSUME NEW T, Forward(T), NEW agrees
    PROVE  \A i \in 1..Len(T) : Outcomes(T, agrees)[i] = Outcome(T, agrees, Outcomes(T, agrees), i)
<1> DEFINE n == Len(T)
           G(F, i) == Outcome(T, agrees, F, i)
           P == {k \in 0..n : \E F : \A i \in n + 1 - k..n : F[i] = G(F, i)}
           R == Outcomes(T, agrees)
<1>1. n \in Nat
  BY DEF Forward
<1>2. \A F, H : \A i \in 1..n : (\A j \in i + 1..n : F[j] = H[j]) => G(F, i) = G(H, i)
  BY Downward
<1> HIDE DEF G, n
<1>3. 0 \in P
  <2>1. \A i : i \notin n + 1 - 0..n
    BY <1>1
  <2> QED BY <1>1, <2>1
<1>4. ASSUME NEW k \in 1..n, k - 1 \in P PROVE k \in P
  <2> DEFINE m == n + 1 - k
  <2>1. m \in 1..n /\ n + 1 - (k - 1) = m + 1 /\ k \in 0..n
    BY <1>1
  <2> HIDE DEF m
  <2>2. PICK F : \A i \in m + 1..n : F[i] = G(F, i)
    BY <1>4, <2>1
  <2> DEFINE H == [i \in 1..n |-> IF i = m THEN G(F, m) ELSE F[i]]
  <2>3. H[m] = G(F, m) /\ \A i \in m + 1..n : i \in 1..n /\ H[i] = F[i]
    BY <1>1, <2>1
  <2> HIDE DEF H
  <2>4. G(H, m) = G(F, m) /\ \A i \in m + 1..n : G(H, i) = G(F, i)
    <3>1. ASSUME NEW i \in m..n PROVE i \in 1..n /\ \A j \in i + 1..n : j \in m + 1..n
      BY <1>1, <2>1
    <3>2. m \in m..n /\ \A i \in m + 1..n : i \in m..n
      BY <1>1, <2>1
    <3>3. \A i \in m..n : G(H, i) = G(F, i)
      BY <1>2, <2>3, <3>1
    <3> QED BY <3>2, <3>3
  <2>5. \A i \in m..n : i = m \/ i \in m + 1..n
    BY <1>1, <2>1
  <2>6. \A i \in m..n : H[i] = G(H, i)
    BY <2>2, <2>3, <2>4, <2>5
  <2> QED BY <2>1, <2>6 DEF m
<1>5. n \in P
  <2> HIDE DEF P
  <2> QED BY <1>1, <1>3, <1>4, Upward
<1>6. PICK F : \A i \in 1..n : F[i] = G(F, i)
  <2>1. n + 1 - n = 1
    BY <1>1
  <2> QED BY <1>5, <2>1
<1> DEFINE H == [i \in 1..n |-> F[i]]
<1>7. H = [i \in 1..n |-> G(H, i)]
  <2>1. \A i \in 1..n : H[i] = F[i]
    OBVIOUS
  <2>2. \A i \in 1..n : G(H, i) = G(F, i)
    <3>1. \A i \in 1..n : \A j \in i + 1..n : j \in 1..n
      BY <1>1
    <3> HIDE DEF H
    <3> QED BY <1>2, <2>1, <3>1
  <2>3. \A i \in 1..n : F[i] = G(H, i)
    BY <1>6, <2>2
  <2> QED BY <2>3
<1> HIDE DEF H
<1>8. R = [i \in 1..n |-> G(R, i)]
  BY <1>7 DEF Outcomes, G, n
<1>9. \A i \in 1..n : R[i] = G(R, i)
  <2> HIDE DEF R
  <2> QED BY <1>8
<1> QED BY <1>9 DEF G, n

-----------------------------------------------------------------------------
(* Where the lines of an item stand.                                       *)

ItemSet == [kind : StmtKinds \cup ExpectKinds \cup {"stray"}, debug : BOOLEAN]

\* Lines of an expectation that its debug block takes.
Extra(item) == IF item.kind = "false" /\ item.debug THEN 1 ELSE 0
Holding == ExpectKinds \ {"ne", "ne-string"}

\* From a on to b stands item k, with the labels from l on.
StandsWith(T, item, k, l, a, b) ==
    /\ item.kind = "stray" => b = a
    /\ item.kind \in {"work", "value"} => b = a + 1 /\ T[a].op = "inst"
    /\ item.kind = "return" =>
          /\ b = a + 2 /\ T[a].op = "inst"
          /\ T[a + 1].op = "ret" /\ T[a + 1].val = "value" /\ T[a + 1].at = k
    /\ item.kind \in Holding => LET e == Extra(item) IN
          /\ b = a + 6 + e /\ T[a].op = "inst"
          /\ T[a + 1].op = "br" /\ T[a + 1].to = {l, l + 1} /\ T[a + 1].then = l
          /\ T[a + 1].at = k /\ T[a + 1].when = TRUE
          /\ T[a + 2].op = "label" /\ T[a + 2].to = {l + 1}
          /\ T[a + 3].op = "print" /\ T[a + 3].at = k
          /\ e = 1 => T[a + 4].op = "debug" /\ T[a + 4].at = k
          /\ T[a + 4 + e].op = "ret" /\ T[a + 4 + e].val = "one"
          /\ T[a + 5 + e].op = "label" /\ T[a + 5 + e].to = {l}
    /\ IsNe(item.kind) =>
          /\ b = a + 8
          /\ T[a + 2].op = "label" /\ T[a + 2].to = {l}
          /\ T[a + 7].op = "label" /\ T[a + 7].to = {l}
Stands(T, item, k, a, b) == \E l \in Nat : StandsWith(T, item, k, l, a, b)

\* The items of a test stand one after the other, up to e.
Laid(T, items, s, e) ==
    /\ s \in [1..Len(items) + 1 -> Nat \ {0}] /\ s[1] = 1 /\ s[Len(items) + 1] = e
    /\ \A k \in 1..Len(items) : s[k + 1] <= e /\ s[k] <= s[k + 1] /\ Stands(T, items[k], k, s[k], s[k + 1])

LEMMA KindsAre ==
    /\ \A item \in ItemSet : item.kind \in {"stray", "work", "value", "return"} \cup Holding \cup {"ne", "ne-string"}
    /\ Holding = {"eq", "true", "false"} /\ \A item : Extra(item) \in {0, 1}
    /\ \A kind : IsNe(kind) <=> kind \in {"ne", "ne-string"}
BY DEF ItemSet, StmtKinds, ExpectKinds, Holding, Extra, IsNe

LEMMA StandsKept ==
    ASSUME NEW c, NEW T, NEW item \in ItemSet, NEW k, NEW a \in Nat \ {0}, NEW b \in Nat, Stands(c, item, k, a, b),
           \A i \in 1..b - 1 : T[i] = c[i]
    PROVE  Stands(T, item, k, a, b)
<1>1. PICK l \in Nat : StandsWith(c, item, k, l, a, b)
  BY DEF Stands
<1>2. StandsWith(T, item, k, l, a, b)
  <2>1. CASE item.kind \in {"stray", "work", "value", "return"}
    BY <1>1, <2>1, KindsAre DEF StandsWith
  <2>2. CASE IsNe(item.kind)
    BY <1>1, <2>2, KindsAre DEF StandsWith
  <2>3. CASE item.kind \in Holding
    <3>1. PICK e \in {0, 1} : e = Extra(item)
      BY KindsAre
    <3>2. b = a + 6 + e
      BY <1>1, <2>3, <3>1 DEF StandsWith
    <3>3. /\ a \in 1..b - 1 /\ a + 1 \in 1..b - 1 /\ a + 2 \in 1..b - 1 /\ a + 3 \in 1..b - 1 /\ a + 4 \in 1..b - 1
          /\ a + 4 + e \in 1..b - 1 /\ a + 5 + e \in 1..b - 1
      BY <3>1, <3>2
    <3>4. item.kind \notin {"stray", "work", "value", "return"} /\ ~IsNe(item.kind)
      BY <2>3, KindsAre
    <3> QED BY <1>1, <2>3, <3>1, <3>3, <3>4 DEF StandsWith
  <2> QED BY <2>1, <2>2, <2>3, KindsAre
<1> QED BY <1>2 DEF Stands

LEMMA LaidMore ==
    ASSUME NEW c \in Seq(Lines), NEW T, NEW items \in Seq(ItemSet), NEW s, Laid(c, items, s, Len(c) + 1),
           \A i \in 1..Len(c) : T[i] = c[i]
    PROVE  Laid(T, items, s, Len(c) + 1)
<1> DEFINE n == Len(items)
           e == Len(c) + 1
<1>1. n \in Nat /\ e \in Nat \ {0} /\ e - 1 = Len(c)
  OBVIOUS
<1> HIDE DEF n, e
<1>2. s \in [1..n + 1 -> Nat \ {0}]
  BY DEF Laid, n, e
<1>3. ASSUME NEW k \in 1..n PROVE Stands(T, items[k], k, s[k], s[k + 1])
  <2>1. k \in 1..n + 1 /\ k + 1 \in 1..n + 1 /\ items[k] \in ItemSet
    BY <1>1 DEF n
  <2>2. s[k] \in Nat \ {0} /\ s[k + 1] \in Nat /\ s[k + 1] <= e /\ Stands(c, items[k], k, s[k], s[k + 1])
    BY <1>2, <2>1 DEF Laid, n, e
  <2>3. \A i \in 1..s[k + 1] - 1 : i \in 1..Len(c)
    BY <1>1, <2>2
  <2> QED BY <2>1, <2>2, <2>3, StandsKept
<1> QED BY <1>3 DEF Laid, n, e

LEMMA LaidItem ==
    ASSUME NEW c \in Seq(Lines), NEW T \in Seq(Lines), NEW items \in Seq(ItemSet), NEW s,
           Laid(c, items, s, Len(c) + 1),
           Len(T) >= Len(c), \A i \in 1..Len(c) : T[i] = c[i],
           NEW item \in ItemSet, Stands(T, item, Len(items) + 1, Len(c) + 1, Len(T) + 1)
    PROVE  \E t : Laid(T, Append(items, item), t, Len(T) + 1)
<1> DEFINE n == Len(items)
           e == Len(c) + 1
           f == Len(T) + 1
           new == Append(items, item)
           t == [k \in 1..n + 2 |-> IF k = n + 2 THEN f ELSE s[k]]
<1>1. n \in Nat /\ e \in Nat \ {0} /\ f \in Nat \ {0} /\ e <= f /\ n + 1 + 1 = n + 2
  OBVIOUS
<1>2. Len(new) = n + 1 /\ new[n + 1] = item /\ \A k \in 1..n : new[k] = items[k]
  OBVIOUS
<1>3. Laid(T, items, s, e) /\ Stands(T, item, n + 1, e, f)
  BY LaidMore
<1> HIDE DEF n, e, f, new
<1>4. s \in [1..n + 1 -> Nat \ {0}] /\ s[1] = 1 /\ s[n + 1] = e
  BY <1>3 DEF Laid, n
<1>5. /\ t \in [1..n + 2 -> Nat \ {0}] /\ t[n + 2] = f /\ \A k \in 1..n + 1 : t[k] = s[k]
  BY <1>1, <1>4
<1> HIDE DEF t
<1>6. t[1] = 1
  BY <1>1, <1>4, <1>5
<1>7. ASSUME NEW k \in 1..n + 1 PROVE t[k + 1] <= f /\ t[k] <= t[k + 1] /\ Stands(T, new[k], k, t[k], t[k + 1])
  <2>1. CASE k = n + 1
    BY <1>1, <1>2, <1>3, <1>4, <1>5, <2>1
  <2>2. CASE k \in 1..n
    <3>1. s[k + 1] <= e /\ s[k] <= s[k + 1] /\ Stands(T, items[k], k, s[k], s[k + 1])
      BY <1>3, <2>2 DEF Laid, n
    <3>2. t[k] = s[k] /\ t[k + 1] = s[k + 1] /\ s[k + 1] \in Nat
      BY <1>1, <1>4, <1>5, <2>2
    <3>3. s[k + 1] <= f
      <4>1. PICK b \in Nat : b = s[k + 1]
        BY <3>2
      <4>2. b <= e
        BY <3>1, <4>1
      <4>3. b <= f
        BY <1>1, <4>2
      <4> QED BY <4>1, <4>3
    <3>4. new[k] = items[k]
      BY <1>2, <2>2
    <3> QED BY <3>1, <3>2, <3>3, <3>4
  <2> QED BY <1>1, <2>1, <2>2
<1>8. Laid(T, new, t, f)
  BY <1>1, <1>2, <1>5, <1>6, <1>7 DEF Laid
<1> QED BY <1>8 DEF new, f

-----------------------------------------------------------------------------
(* What an item does when the text runs.                                   *)

Results == [zero : BOOLEAN, shown : SUBSET Nat, debugged : SUBSET Nat]

LEMMA Shows ==
    ASSUME NEW r \in Results, NEW k \in Nat
    PROVE  /\ [r EXCEPT !.shown = @ \cup {k}] = [zero |-> r.zero, shown |-> r.shown \cup {k}, debugged |-> r.debugged]
           /\ [r EXCEPT !.debugged = @ \cup {k}] = [zero |-> r.zero, shown |-> r.shown, debugged |-> r.debugged \cup {k}]
BY DEF Results

\* The outcome F from the line a on, where item k stands, up to b, when it holds or not.
ItemRan(F, item, k, holds, a, b) ==
    /\ item.kind \in {"stray", "work", "value"} \/ (item.kind \in ExpectKinds /\ holds) => F[a] = F[b]
    /\ item.kind = "return" => F[a] = [zero |-> holds, shown |-> {}, debugged |-> {}]
    /\ item.kind \in ExpectKinds /\ ~holds =>
          F[a] = [zero |-> FALSE, shown |-> {k},
                  debugged |-> IF item.kind = "false" /\ item.debug THEN {k} ELSE {}]

LEMMA ItemRuns ==
    ASSUME NEW T, Forward(T), NEW item \in ItemSet, ~IsNe(item.kind), NEW k \in Nat \ {0}, NEW agrees,
           agrees[k] \in BOOLEAN, NEW a \in Nat \ {0}, NEW b \in Nat, Stands(T, item, k, a, b), b <= Len(T) + 1
    PROVE  ItemRan(Outcomes(T, agrees), item, k, agrees[k], a, b)
<1> DEFINE n == Len(T)
           F == Outcomes(T, agrees)
<1>1. n \in Nat /\ DOMAIN T = 1..n /\ UniqueLabels(T) /\ \A i \in 1..n : T[i].op = "br" => Lands(T, i)
  BY DEF Forward
<1>2. \A i \in 1..n : F[i] = Outcome(T, agrees, F, i)
  BY Runs
<1>3. /\ \A i \in 1..n : T[i].op \in {"inst", "label"} => F[i] = F[i + 1]
      /\ \A i \in 1..n : T[i].op = "print" => F[i] = [F[i + 1] EXCEPT !.shown = @ \cup {T[i].at}]
      /\ \A i \in 1..n : T[i].op = "debug" => F[i] = [F[i + 1] EXCEPT !.debugged = @ \cup {T[i].at}]
  <2> HIDE DEF F
  <2> QED BY <1>2 DEF Outcome
<1>4. PICK l \in Nat : StandsWith(T, item, k, l, a, b)
  BY DEF Stands
<1> HIDE DEF n, F
<1> SUFFICES ItemRan(F, item, k, agrees[k], a, b)
  BY DEF F
<1>5. CASE item.kind \in {"stray", "work", "value"}
  <2>1. b = a \/ (b = a + 1 /\ T[a].op = "inst")
    BY <1>4, <1>5 DEF StandsWith
  <2>2. F[a] = F[b]
    BY <1>1, <1>3, <2>1 DEF n
  <2> QED BY <1>5, <2>2 DEF ExpectKinds, ItemRan
<1>6. CASE item.kind = "return"
  <2>1. /\ b = a + 2 /\ T[a].op = "inst" /\ T[a + 1].op = "ret" /\ T[a + 1].val = "value" /\ T[a + 1].at = k
    BY <1>4, <1>6 DEF StandsWith
  <2>2. a \in 1..n /\ a + 1 \in 1..n
    BY <1>1, <2>1 DEF n
  <2>3. F[a] = F[a + 1] /\ F[a + 1] = Outcome(T, agrees, F, a + 1)
    BY <1>2, <1>3, <2>1, <2>2
  <2>4. Outcome(T, agrees, F, a + 1) = [zero |-> agrees[k], shown |-> {}, debugged |-> {}]
    BY <2>1 DEF Outcome
  <2> QED BY <1>6, <2>3, <2>4 DEF ExpectKinds, ItemRan
<1>7. CASE item.kind \in Holding
  <2>1. PICK e \in {0, 1} : e = Extra(item)
    BY KindsAre
  <2>2. /\ b = a + 6 + e /\ T[a].op = "inst"
        /\ T[a + 1].op = "br" /\ T[a + 1].to = {l, l + 1} /\ T[a + 1].then = l
        /\ T[a + 1].at = k /\ T[a + 1].when = TRUE
        /\ T[a + 2].op = "label" /\ T[a + 2].to = {l + 1}
        /\ T[a + 3].op = "print" /\ T[a + 3].at = k
        /\ e = 1 => T[a + 4].op = "debug" /\ T[a + 4].at = k
        /\ T[a + 4 + e].op = "ret" /\ T[a + 4 + e].val = "one"
        /\ T[a + 5 + e].op = "label" /\ T[a + 5 + e].to = {l}
    BY <1>4, <1>7, <2>1 DEF StandsWith
  <2>3. /\ a \in 1..n /\ a + 1 \in 1..n /\ a + 2 \in 1..n /\ a + 3 \in 1..n /\ a + 4 \in 1..n
        /\ a + 4 + e \in 1..n /\ a + 5 + e \in 1..n /\ a + 5 + e + 1 = b
        /\ a + 1 + 1 = a + 2 /\ a + 2 + 1 = a + 3 /\ a + 3 + 1 = a + 4 /\ a + 4 + 1 = a + 5
    <3>1. b = a + 6 + e /\ b \in Nat /\ a \in Nat \ {0}
      BY <2>2
    <3>2. b <= n + 1
      BY DEF n
    <3>3. n \in Nat
      BY <1>1
    <3> QED BY <2>1, <3>1, <3>2, <3>3
  <2>4. LineOf(T, l) = a + 5 + e /\ LineOf(T, l + 1) = a + 2
    <3>1. a + 5 + e \in DOMAIN T /\ T[a + 5 + e].op = "label" /\ T[a + 5 + e].to = {l}
      BY <1>1, <2>2, <2>3
    <3>2. a + 2 \in DOMAIN T /\ T[a + 2].op = "label" /\ T[a + 2].to = {l + 1}
      BY <1>1, <2>2, <2>3
    <3>3. \A j \in DOMAIN T : \A x : T[j].op = "label" /\ T[j].to = {x} => LineOf(T, x) = j
      BY <1>1, LineIs
    <3> QED BY <3>1, <3>2, <3>3
  <2>5. F[a] = F[a + 1] /\ F[a + 1] = F[LineOf(T, Goto(T, agrees, a + 1))]
    <3>1. F[a + 1] = Outcome(T, agrees, F, a + 1)
      BY <1>2, <2>3
    <3> QED BY <1>3, <2>2, <2>3, <3>1 DEF Outcome, Goto
  <2>6. CASE agrees[k]
    <3>1. Goto(T, agrees, a + 1) = l
      BY <2>2, <2>6 DEF Goto
    <3>2. F[a + 5 + e] = F[b]
      <4>1. PICK i : i = a + 5 + e
        OBVIOUS
      <4>2. i \in 1..n /\ T[i].op = "label" /\ i + 1 = b
        BY <2>2, <2>3, <4>1
      <4> QED BY <1>3, <4>1, <4>2
    <3>3. F[a] = F[b]
      BY <2>4, <2>5, <3>1, <3>2
    <3> QED BY <1>7, <2>6, <3>3, KindsAre DEF ItemRan
  <2>7. CASE ~agrees[k]
    <3> DEFINE one == [zero |-> FALSE, shown |-> {}, debugged |-> {}]
    <3>1. Goto(T, agrees, a + 1) = l + 1
      <4>1. Goto(T, agrees, a + 1) = CHOOSE x \in {l, l + 1} : x # l
        BY <2>2, <2>7 DEF Goto
      <4>2. \A x \in {l, l + 1} : x # l <=> x = l + 1
        OBVIOUS
      <4> QED BY <4>1, <4>2
    <3>2. F[a] = F[a + 2] /\ F[a + 2] = F[a + 3]
      <4>1. F[a] = F[a + 2]
        BY <2>4, <2>5, <3>1
      <4>2. PICK i : i = a + 2
        OBVIOUS
      <4>3. i \in 1..n /\ T[i].op = "label" /\ i + 1 = a + 3
        BY <2>2, <2>3, <4>2
      <4> QED BY <1>3, <4>1, <4>2, <4>3
    <3>3. F[a + 3] = [F[a + 4] EXCEPT !.shown = @ \cup {k}]
      <4>1. PICK i : i = a + 3
        OBVIOUS
      <4>2. i \in 1..n /\ T[i].op = "print" /\ i + 1 = a + 4 /\ T[i].at = k
        BY <2>2, <2>3, <4>1
      <4>3. F[i] = [F[i + 1] EXCEPT !.shown = @ \cup {T[i].at}]
        BY <1>3, <4>2
      <4> QED BY <4>1, <4>2, <4>3
    <3>4. F[a + 4 + e] = one
      <4>1. F[a + 4 + e] = Outcome(T, agrees, F, a + 4 + e)
        BY <1>2, <2>3
      <4> QED BY <2>2, <4>1 DEF Outcome
    <3>5. one \in Results /\ one.zero = FALSE /\ one.shown = {} /\ one.debugged = {}
      BY DEF Results
    <3> HIDE DEF one
    <3>6. F[a + 4] \in Results /\ F[a + 4].zero = FALSE /\ F[a + 4].shown = {}
          /\ F[a + 4].debugged = IF e = 1 THEN {k} ELSE {}
      <4>1. CASE e = 0
        <5>1. a + 4 + e = a + 4
          BY <4>1
        <5> QED BY <3>4, <3>5, <4>1, <5>1
      <4>2. CASE e = 1
        <5>1. F[a + 4] = [F[a + 5] EXCEPT !.debugged = @ \cup {k}] /\ a + 4 + e = a + 5
          <6>1. PICK i : i = a + 4
            OBVIOUS
          <6>2. i \in 1..n /\ T[i].op = "debug" /\ i + 1 = a + 5 /\ T[i].at = k
            BY <2>2, <2>3, <4>2, <6>1
          <6>3. F[i] = [F[i + 1] EXCEPT !.debugged = @ \cup {T[i].at}]
            BY <1>3, <6>2
          <6>4. a + 4 + e = a + 5
            BY <4>2
          <6> QED BY <6>1, <6>2, <6>3, <6>4
        <5>2. F[a + 4] = [one EXCEPT !.debugged = @ \cup {k}]
          BY <3>4, <5>1
        <5>3. F[a + 4] = [zero |-> one.zero, shown |-> one.shown, debugged |-> one.debugged \cup {k}]
          BY <3>5, <5>2, Shows
        <5> QED BY <3>5, <4>2, <5>3 DEF Results
      <4> QED BY <4>1, <4>2
    <3>7. PICK r : r = F[a + 4]
      OBVIOUS
    <3>8. F[a + 3] = [zero |-> r.zero, shown |-> r.shown \cup {k}, debugged |-> r.debugged]
      BY <3>3, <3>6, <3>7, Shows
    <3>9. F[a] = [zero |-> FALSE, shown |-> {k}, debugged |-> IF e = 1 THEN {k} ELSE {}]
      BY <3>2, <3>6, <3>7, <3>8
    <3>10. e = 1 <=> item.kind = "false" /\ item.debug
      BY <2>1 DEF Extra
    <3> QED BY <1>7, <2>7, <3>9, <3>10, KindsAre DEF ItemRan
  <2> QED BY <2>6, <2>7
<1> QED BY <1>5, <1>6, <1>7, KindsAre

\* Items that let pass lead to the one after them.
Chain(F, s, m) == \A k \in 1..m : F[s[k]] = F[s[k + 1]]

LEMMA Passes ==
    ASSUME NEW F, NEW s, s[1] = 1, NEW m \in Nat, Chain(F, s, m)
    PROVE  \A k \in 0..m : F[1] = F[s[k + 1]]
<1> DEFINE P == {k \in 0..m : F[1] = F[s[k + 1]]}
<1>1. 0 \in P
  OBVIOUS
<1>2. ASSUME NEW k \in 1..m, k - 1 \in P PROVE k \in P
  <2>1. (k - 1) + 1 = k /\ k \in 0..m
    OBVIOUS
  <2> QED BY <1>2, <2>1 DEF Chain
<1>3. \A k \in 0..m : k \in P
  <2> HIDE DEF P
  <2> QED BY <1>1, <1>2, Upward
<1> QED BY <1>3

\* What the whole of a test answers, up to where its items end.
Failures(items, agrees) == {k \in 1..Len(items) : items[k].kind \in ExpectKinds /\ ~agrees[k]}

AnswersAs(F, items, agrees, e) ==
    /\ \A m \in Failures(items, agrees) : (\A k \in Failures(items, agrees) : m <= k) =>
          F[1] = [zero |-> FALSE, shown |-> {m},
                  debugged |-> IF items[m].kind = "false" /\ items[m].debug THEN {m} ELSE {}]
    /\ Failures(items, agrees) = {} =>
          /\ \A k \in 1..Len(items) : items[k].kind = "return" =>
                F[1] = [zero |-> agrees[k], shown |-> {}, debugged |-> {}]
          /\ (\A k \in 1..Len(items) : items[k].kind # "return") => F[1] = F[e]

LEMMA Answers ==
    ASSUME NEW T, Forward(T), NEW items \in Seq(ItemSet), NEW s, NEW e \in Nat, Laid(T, items, s, e), e <= Len(T) + 1,
           \A k \in 1..Len(items) : ~IsNe(items[k].kind) /\ (items[k].kind = "return" => k = Len(items)),
           NEW agrees \in [1..Len(items) -> BOOLEAN]
    PROVE  AnswersAs(Outcomes(T, agrees), items, agrees, e)
<1>0. PICK F : F = Outcomes(T, agrees)
  OBVIOUS
<1> DEFINE n == Len(items)
           bad == Failures(items, agrees)
<1>1. n \in Nat /\ \A k \in 1..n : items[k] \in ItemSet /\ k \in 1..n + 1 /\ k + 1 \in 1..n + 1 /\ k \in Nat \ {0}
  OBVIOUS
<1>2. s[1] = 1 /\ s[n + 1] = e /\ \A k \in 1..n : s[k] \in Nat \ {0} /\ s[k + 1] \in Nat /\ s[k + 1] <= Len(T) + 1
                                         /\ Stands(T, items[k], k, s[k], s[k + 1])
  <2>1. Len(T) \in Nat
    BY DEF Forward
  <2>2. s \in [1..n + 1 -> Nat \ {0}] /\ s[1] = 1 /\ s[n + 1] = e
        /\ \A k \in 1..n : s[k + 1] <= e /\ Stands(T, items[k], k, s[k], s[k + 1])
    BY DEF Laid
  <2> HIDE DEF n
  <2>3. \A k \in 1..n : s[k] \in Nat \ {0} /\ s[k + 1] \in Nat
    BY <1>1, <2>2
  <2>4. \A x \in Nat : x <= e => x <= Len(T) + 1
    BY <2>1
  <2>5. \A k \in 1..n : s[k + 1] <= Len(T) + 1
    BY <2>2, <2>3, <2>4
  <2> QED BY <2>2, <2>3, <2>5
<1>3. bad = {k \in 1..n : items[k].kind \in ExpectKinds /\ ~agrees[k]}
  BY DEF Failures
<1> HIDE DEF n, bad
<1>4. \A k \in 1..n :
         /\ items[k].kind \in {"stray", "work", "value"} \/ (items[k].kind \in ExpectKinds /\ agrees[k]) => F[s[k]] = F[s[k + 1]]
         /\ items[k].kind = "return" => F[s[k]] = [zero |-> agrees[k], shown |-> {}, debugged |-> {}]
         /\ items[k].kind \in ExpectKinds /\ ~agrees[k] =>
               F[s[k]] = [zero |-> FALSE, shown |-> {k},
                          debugged |-> IF items[k].kind = "false" /\ items[k].debug THEN {k} ELSE {}]
  <2> SUFFICES ASSUME NEW k \in 1..n
               PROVE  /\ items[k].kind \in {"stray", "work", "value"} \/ (items[k].kind \in ExpectKinds /\ agrees[k]) => F[s[k]] = F[s[k + 1]]
                      /\ items[k].kind = "return" => F[s[k]] = [zero |-> agrees[k], shown |-> {}, debugged |-> {}]
                      /\ items[k].kind \in ExpectKinds /\ ~agrees[k] =>
                            F[s[k]] = [zero |-> FALSE, shown |-> {k},
                                       debugged |-> IF items[k].kind = "false" /\ items[k].debug THEN {k} ELSE {}]
    OBVIOUS
  <2>1. PICK x, a, b : x = items[k] /\ a = s[k] /\ b = s[k + 1]
    OBVIOUS
  <2>2. x \in ItemSet /\ ~IsNe(x.kind) /\ k \in Nat \ {0} /\ agrees[k] \in BOOLEAN
    BY <1>1, <2>1 DEF n
  <2>3. a \in Nat \ {0} /\ b \in Nat /\ Stands(T, x, k, a, b) /\ b <= Len(T) + 1
    BY <1>2, <2>1
  <2>4. ItemRan(F, x, k, agrees[k], a, b)
    BY <1>0, <2>2, <2>3, ItemRuns
  <2> QED BY <2>1, <2>4 DEF ItemRan
<1>5. \A k \in 1..n : items[k].kind \in {"stray", "work", "value"} \/ items[k].kind = "return" \/ items[k].kind \in ExpectKinds
  BY <1>1, KindsAre DEF ItemSet, StmtKinds
<1>6. \A k \in 1..n : items[k].kind # "return" /\ k \notin bad => F[s[k]] = F[s[k + 1]]
  BY <1>3, <1>4, <1>5
<1>7. ASSUME NEW m \in bad, \A k \in bad : m <= k
      PROVE  F[1] = [zero |-> FALSE, shown |-> {m},
                     debugged |-> IF items[m].kind = "false" /\ items[m].debug THEN {m} ELSE {}]
  <2>1. m \in 1..n /\ m - 1 \in Nat /\ (m - 1) + 1 = m /\ m - 1 \in 0..m - 1
    BY <1>1, <1>3
  <2>2. ASSUME NEW k \in 1..m - 1 PROVE F[s[k]] = F[s[k + 1]]
    <3>1. k \in 1..n /\ k \notin bad /\ k # n
      BY <1>1, <1>7, <2>1
    <3>2. items[k].kind # "return"
      BY <3>1 DEF n
    <3> QED BY <1>6, <3>1, <3>2
  <2>3. F[1] = F[s[(m - 1) + 1]]
    <3>1. PICK j \in Nat : j = m - 1
      BY <2>1
    <3>2. Chain(F, s, j)
      BY <2>2, <3>1 DEF Chain
    <3>3. \A k \in 0..j : F[1] = F[s[k + 1]]
      BY <1>2, <3>2, Passes
    <3> QED BY <2>1, <3>1, <3>3
  <2>4. F[1] = F[s[m]]
    BY <2>1, <2>3
  <2> QED BY <1>3, <1>4, <2>1, <2>4
<1>8. ASSUME bad = {}, NEW k \in 1..n, items[k].kind = "return"
      PROVE  F[1] = [zero |-> agrees[k], shown |-> {}, debugged |-> {}]
  <2>1. k = n /\ k - 1 \in Nat /\ (k - 1) + 1 = k /\ k - 1 \in 0..k - 1
    BY <1>1, <1>8 DEF n
  <2>2. ASSUME NEW j \in 1..k - 1 PROVE F[s[j]] = F[s[j + 1]]
    <3>1. j \in 1..n /\ j # n /\ j \notin bad
      BY <1>1, <1>8, <2>1
    <3>2. items[j].kind # "return"
      BY <3>1 DEF n
    <3> QED BY <1>6, <3>1, <3>2
  <2>3. F[1] = F[s[(k - 1) + 1]]
    <3>1. PICK i \in Nat : i = k - 1
      BY <2>1
    <3>2. Chain(F, s, i)
      BY <2>2, <3>1 DEF Chain
    <3>3. \A j \in 0..i : F[1] = F[s[j + 1]]
      BY <1>2, <3>2, Passes
    <3> QED BY <2>1, <3>1, <3>3
  <2>4. F[1] = F[s[k]]
    BY <2>1, <2>3
  <2> QED BY <1>4, <1>8, <2>4
<1>9. ASSUME bad = {}, \A k \in 1..n : items[k].kind # "return"
      PROVE  F[1] = F[e]
  <2>1. Chain(F, s, n)
    BY <1>6, <1>9 DEF Chain
  <2>2. n \in 0..n
    BY <1>1
  <2>3. \A k \in 0..n : F[1] = F[s[k + 1]]
    BY <1>1, <1>2, <2>1, Passes
  <2> QED BY <1>2, <2>2, <2>3
<1> QED BY <1>0, <1>7, <1>8, <1>9 DEF n, bad, AnswersAs

LEMMA Answered ==
    ASSUME NEW T, Forward(T), NEW agrees, NEW e \in 1..Len(T), T[e].op = "ret"
    PROVE  /\ T[e].val = "zero" => Outcomes(T, agrees)[e] = [zero |-> TRUE, shown |-> {}, debugged |-> {}]
           /\ T[e].val = "value" /\ agrees[T[e].at] \in BOOLEAN =>
                 Outcomes(T, agrees)[e] = [zero |-> agrees[T[e].at], shown |-> {}, debugged |-> {}]
<1>1. Outcomes(T, agrees)[e] = Outcome(T, agrees, Outcomes(T, agrees), e)
  BY Runs
<1> QED BY <1>1 DEF Outcome

-----------------------------------------------------------------------------
(* The lines that are written.                                             *)

LEMMA LinesChanged ==
    ASSUME NEW r \in Lines, NEW v
    PROVE  /\ [r EXCEPT !.op = v] = [op |-> v, to |-> r.to, at |-> r.at, then |-> r.then, when |-> r.when, val |-> r.val]
           /\ [r EXCEPT !.val = v] = [op |-> r.op, to |-> r.to, at |-> r.at, then |-> r.then, when |-> r.when, val |-> v]
           /\ [r EXCEPT !.then = v] = [op |-> r.op, to |-> r.to, at |-> r.at, then |-> v, when |-> r.when, val |-> r.val]
<1>1. [r EXCEPT !.op = v] = [op |-> v, to |-> r.to, at |-> r.at, then |-> r.then, when |-> r.when, val |-> r.val]
  BY DEF Lines
<1>2. [r EXCEPT !.val = v] = [op |-> r.op, to |-> r.to, at |-> r.at, then |-> r.then, when |-> r.when, val |-> v]
  BY DEF Lines
<1>3. [r EXCEPT !.then = v] = [op |-> r.op, to |-> r.to, at |-> r.at, then |-> v, when |-> r.when, val |-> r.val]
  BY DEF Lines
<1> QED BY <1>1, <1>2, <1>3

LEMMA LinesAre ==
    ASSUME NEW i \in Nat
    PROVE  /\ Work(i) \in Lines /\ Work(i).op = "inst"
           /\ Report(i) \in Lines /\ Report(i).op = "print" /\ Report(i).at = i
           /\ Debug(i) \in Lines /\ Debug(i).op = "debug" /\ Debug(i).at = i
           /\ \A val \in {"zero", "one", "value"} : /\ ReturnStmt(val, i) \in Lines /\ ReturnStmt(val, i).op = "ret"
                                  /\ ReturnStmt(val, i).val = val /\ ReturnStmt(val, i).at = i
<1>1. PICK w : w = Work(i)
  OBVIOUS
<1>2. w = [op |-> "inst", to |-> {}, at |-> i, then |-> 0, when |-> TRUE, val |-> ""]
  BY <1>1 DEF Work, At, Inst, Line
<1>3. w \in Lines /\ w.op = "inst" /\ w.at = i
  BY <1>2 DEF Lines, Ops, Vals
<1>4. /\ Report(i) = [w EXCEPT !.op = "print"]
      /\ Debug(i) = [w EXCEPT !.op = "debug"]
  BY <1>1 DEF Report, Debug
<1>5. Report(i) \in Lines /\ Report(i).op = "print" /\ Report(i).at = i
  BY <1>3, <1>4, LinesChanged DEF Lines, Ops
<1>6. Debug(i) \in Lines /\ Debug(i).op = "debug" /\ Debug(i).at = i
  BY <1>3, <1>4, LinesChanged DEF Lines, Ops
<1>7. ASSUME NEW val \in {"zero", "one", "value"}
      PROVE  /\ ReturnStmt(val, i) \in Lines /\ ReturnStmt(val, i).op = "ret"
             /\ ReturnStmt(val, i).val = val /\ ReturnStmt(val, i).at = i
  <2>1. PICK r : r = At(Ret({}), i)
    OBVIOUS
  <2>2. r = [op |-> "ret", to |-> {}, at |-> i, then |-> 0, when |-> TRUE, val |-> ""]
    BY <2>1 DEF At, Ret, Line
  <2>3. r \in Lines /\ r.op = "ret" /\ r.at = i
    BY <2>2 DEF Lines, Ops, Vals
  <2>4. ReturnStmt(val, i) = [r EXCEPT !.val = val]
    BY <2>1 DEF ReturnStmt
  <2> QED BY <2>3, <2>4, LinesChanged DEF Lines, Vals
<1> QED BY <1>1, <1>3, <1>5, <1>6, <1>7

LEMMA JumpsAre ==
    ASSUME NEW i \in Nat, NEW l \in Nat, NEW m \in Nat, NEW when \in BOOLEAN
    PROVE  /\ LabelLine(l) \in Lines /\ LabelLine(l).op = "label" /\ LabelLine(l).to = {l}
           /\ Jump(l) \in Lines
           /\ Check(i, when, l, m) \in Lines /\ Check(i, when, l, m).op = "br" /\ Check(i, when, l, m).to = {l, m}
           /\ Check(i, when, l, m).then = l /\ Check(i, when, l, m).at = i /\ Check(i, when, l, m).when = when
<1>1. LabelLine(l) \in Lines /\ LabelLine(l).op = "label" /\ LabelLine(l).to = {l}
  BY DEF LabelLine, At, LabelDef, Line, Lines, Ops, Vals
<1>2. Jump(l) \in Lines
  <2>1. PICK r : r = At(Br(l), 0)
    OBVIOUS
  <2>2. r = [op |-> "br", to |-> {l}, at |-> 0, then |-> 0, when |-> TRUE, val |-> ""]
    BY <2>1 DEF At, Br, Line
  <2>3. r \in Lines
    BY <2>2 DEF Lines, Ops, Vals
  <2>4. Jump(l) = [r EXCEPT !.then = l]
    BY <2>1 DEF Jump
  <2> QED BY <2>3, <2>4, LinesChanged DEF Lines, Vals
<1>3. /\ Check(i, when, l, m) \in Lines /\ Check(i, when, l, m).op = "br" /\ Check(i, when, l, m).to = {l, m}
      /\ Check(i, when, l, m).then = l /\ Check(i, when, l, m).at = i /\ Check(i, when, l, m).when = when
  <2>1. PICK r : r = At(CondBr({}, l, m), i)
    OBVIOUS
  <2>2. r = [op |-> "br", to |-> {l, m}, at |-> i, then |-> 0, when |-> TRUE, val |-> ""]
    BY <2>1 DEF At, CondBr, Line
  <2>3. r \in Lines
    BY <2>2 DEF Lines, Ops, Vals
  <2>4. Check(i, when, l, m) = [r EXCEPT !.then = l, !.when = when]
    BY <2>1 DEF Check
  <2>5. PICK q : q = [r EXCEPT !.then = l]
    OBVIOUS
  <2>6. q = [op |-> "br", to |-> {l, m}, at |-> i, then |-> l, when |-> TRUE, val |-> ""]
    BY <2>2, <2>3, <2>5, LinesChanged
  <2>7. q \in Lines
    BY <2>6 DEF Lines, Ops, Vals
  <2>8. Check(i, when, l, m) = [q EXCEPT !.when = when]
    BY <2>3, <2>4, <2>5 DEF Lines
  <2>9. [q EXCEPT !.when = when] = [op |-> q.op, to |-> q.to, at |-> q.at, then |-> q.then, when |-> when, val |-> q.val]
    BY <2>7 DEF Lines
  <2>10. q.op = "br" /\ q.to = {l, m} /\ q.at = i /\ q.then = l /\ q.val = ""
    BY <2>6
  <2>11. Check(i, when, l, m) \in Lines
    BY <2>7, <2>8, <2>9 DEF Lines
  <2>12. PICK c : c = Check(i, when, l, m)
    OBVIOUS
  <2>13. c = [op |-> q.op, to |-> q.to, at |-> q.at, then |-> q.then, when |-> when, val |-> q.val]
    BY <2>8, <2>9, <2>12
  <2>14. c.op = q.op /\ c.to = q.to /\ c.at = q.at /\ c.then = q.then /\ c.when = when
    BY <2>13
  <2> QED BY <2>10, <2>11, <2>12, <2>14
<1> QED BY <1>1, <1>2, <1>3

LEMMA ChecksTrue ==
    ASSUME NEW i \in Nat, NEW l \in Nat, NEW m \in Nat
    PROVE  /\ Check(i, TRUE, l, m).op = "br" /\ Check(i, TRUE, l, m).to = {l, m}
           /\ Check(i, TRUE, l, m).then = l /\ Check(i, TRUE, l, m).at = i /\ Check(i, TRUE, l, m).when = TRUE
<1>1. PICK w \in BOOLEAN : w = TRUE
  OBVIOUS
<1>2. PICK c : c = Check(i, w, l, m)
  OBVIOUS
<1>3. c.op = "br" /\ c.to = {l, m} /\ c.then = l /\ c.at = i /\ c.when = w
  BY <1>2, JumpsAre
<1> QED BY <1>1, <1>2, <1>3

\* A piece of text after another.
LEMMA Joined ==
    ASSUME NEW c \in Seq(Lines), NEW p \in Seq(Lines)
    PROVE  /\ c \o p \in Seq(Lines) /\ Len(c \o p) = Len(c) + Len(p) /\ Len(c) \in Nat /\ Len(p) \in Nat
           /\ \A i \in 1..Len(c) : (c \o p)[i] = c[i]
           /\ \A k \in 1..Len(p) : (c \o p)[Len(c) + k] = p[k]
           /\ \A i \in Len(c) + 1..Len(c) + Len(p) : (c \o p)[i] = p[i - Len(c)] /\ i - Len(c) \in 1..Len(p)
OBVIOUS

LEMMA StmtPiece ==
    ASSUME NEW kind \in StmtKinds, NEW i \in Nat
    PROVE  /\ StmtLines(kind, i) \in Seq(Lines)
           /\ \A k \in 1..Len(StmtLines(kind, i)) : StmtLines(kind, i)[k].op \in {"inst", "ret"}
           /\ kind = "return" => /\ Len(StmtLines(kind, i)) = 2 /\ StmtLines(kind, i)[1] = Work(i)
                                 /\ StmtLines(kind, i)[2] = ReturnStmt("value", i)
           /\ kind # "return" => Len(StmtLines(kind, i)) = 1 /\ StmtLines(kind, i)[1] = Work(i)
<1>1. Work(i) \in Lines /\ Work(i).op = "inst" /\ ReturnStmt("value", i) \in Lines /\ ReturnStmt("value", i).op = "ret"
  BY LinesAre
<1> QED BY <1>1 DEF StmtLines

\* The lines of an expectation, with e of its debug block.
ExpectShape(p, i, l, e) ==
    /\ p \in Seq(Lines) /\ Len(p) = 6 + e
    /\ p[1] = Work(i) /\ p[2] = Check(i, TRUE, l, l + 1) /\ p[3] = LabelLine(l + 1) /\ p[4] = Report(i)
    /\ e = 1 => p[5] = Debug(i)
    /\ p[5 + e] = ReturnStmt("one", i) /\ p[6 + e] = LabelLine(l)

LEMMA ExpectPiece ==
    ASSUME NEW item \in ItemSet, item.kind \in Holding, NEW i \in Nat, NEW l \in Nat
    PROVE  ExpectShape(ExpectLines(item, i, l), i, l, Extra(item))
<1> PICK e \in {0, 1} : e = Extra(item)
  BY KindsAre
<1> PICK p : p = ExpectLines(item, i, l)
  OBVIOUS
<1> SUFFICES ExpectShape(p, i, l, e)
  OBVIOUS
<1>1. PICK w, x, y, z, d, r, q : w = Work(i) /\ x = Check(i, TRUE, l, l + 1) /\ y = LabelLine(l + 1) /\ z = Report(i)
                                 /\ d = Debug(i) /\ r = ReturnStmt("one", i) /\ q = LabelLine(l)
  OBVIOUS
<1>2. /\ w \in Lines /\ x \in Lines /\ y \in Lines /\ z \in Lines /\ d \in Lines /\ r \in Lines /\ q \in Lines
  <2>1. l + 1 \in Nat /\ TRUE \in BOOLEAN
    OBVIOUS
  <2>2. w \in Lines /\ z \in Lines /\ d \in Lines /\ r \in Lines
    BY <1>1, LinesAre
  <2>3. x \in Lines /\ y \in Lines /\ q \in Lines
    BY <1>1, <2>1, JumpsAre
  <2> QED BY <2>2, <2>3
<1>3. PICK a, b : a = <<w, x, y, z>> /\ b = <<r, q>>
  OBVIOUS
<1>4. /\ a \in Seq(Lines) /\ Len(a) = 4 /\ a[1] = w /\ a[2] = x /\ a[3] = y /\ a[4] = z
      /\ b \in Seq(Lines) /\ Len(b) = 2 /\ b[1] = r /\ b[2] = q
  BY <1>2, <1>3
<1>5. PICK t : /\ t \in Seq(Lines) /\ Len(t) = 4 + e /\ p = t \o b
               /\ t[1] = w /\ t[2] = x /\ t[3] = y /\ t[4] = z /\ (e = 1 => t[5] = d)
  <2>1. CASE e = 0
    <3>1. p = (a \o <<>>) \o b
      BY <1>1, <1>3, <2>1 DEF ExpectLines, Extra
    <3>2. a \o <<>> = a
      BY <1>4
    <3>3. p = a \o b
      BY <3>1, <3>2
    <3>4. Len(a) = 4 + e /\ e # 1
      BY <1>4, <2>1
    <3> QED BY <1>4, <3>3, <3>4
  <2>2. CASE e = 1
    <3>1. p = (a \o <<d>>) \o b
      BY <1>1, <1>3, <2>2 DEF ExpectLines, Extra
    <3>2. PICK g : g = <<d>>
      OBVIOUS
    <3>3. g \in Seq(Lines) /\ Len(g) = 1 /\ g[1] = d
      BY <1>2, <3>2
    <3>4. /\ a \o g \in Seq(Lines) /\ Len(a \o g) = Len(a) + Len(g)
          /\ \A n \in 1..Len(a) : (a \o g)[n] = a[n]
          /\ \A n \in 1..Len(g) : (a \o g)[Len(a) + n] = g[n]
      BY <1>4, <3>3, Joined
    <3>5. PICK t : t = a \o g
      OBVIOUS
    <3>6. t \in Seq(Lines) /\ Len(t) = 5 /\ t[1] = w /\ t[2] = x /\ t[3] = y /\ t[4] = z /\ t[5] = d
      <4>1. Len(a) = 4 /\ 1 \in 1..4 /\ 2 \in 1..4 /\ 3 \in 1..4 /\ 4 \in 1..4 /\ 1 \in 1..1 /\ 4 + 1 = 5
        BY <1>4
      <4>2. t \in Seq(Lines) /\ Len(t) = 5
        BY <3>3, <3>4, <3>5, <4>1
      <4>3. t[1] = a[1] /\ t[2] = a[2] /\ t[3] = a[3] /\ t[4] = a[4]
        BY <3>4, <3>5, <4>1
      <4>4. t[5] = g[1]
        BY <3>3, <3>4, <3>5, <4>1
      <4> QED BY <1>4, <3>3, <4>2, <4>3, <4>4
    <3>7. p = t \o b
      BY <3>1, <3>2, <3>5
    <3>8. Len(t) = 4 + e
      BY <2>2, <3>6
    <3> QED BY <3>6, <3>7, <3>8
  <2> QED BY <2>1, <2>2
<1>6. /\ p \in Seq(Lines) /\ Len(p) = 6 + e
      /\ p[1] = w /\ p[2] = x /\ p[3] = y /\ p[4] = z /\ (e = 1 => p[5] = d)
      /\ p[5 + e] = r /\ p[6 + e] = q
  <2>1. /\ p \in Seq(Lines) /\ Len(p) = Len(t) + Len(b)
        /\ \A n \in 1..Len(t) : p[n] = t[n]
        /\ \A n \in 1..Len(b) : p[Len(t) + n] = b[n]
    <3>1. t \in Seq(Lines) /\ b \in Seq(Lines) /\ p = t \o b
      BY <1>4, <1>5
    <3>2. /\ t \o b \in Seq(Lines) /\ Len(t \o b) = Len(t) + Len(b)
          /\ \A n \in 1..Len(t) : (t \o b)[n] = t[n]
          /\ \A n \in 1..Len(b) : (t \o b)[Len(t) + n] = b[n]
      BY <3>1, Joined
    <3> QED BY <3>1, <3>2
  <2>2. p[Len(t) + 1] = r /\ p[Len(t) + 2] = q /\ p[1] = w /\ p[2] = x /\ p[3] = y /\ p[4] = z /\ (e = 1 => p[5] = d)
    <3>1. Len(t) = 4 + e /\ Len(b) = 2
      BY <1>4, <1>5
    <3>2. /\ 1 \in 1..Len(t) /\ 2 \in 1..Len(t) /\ 3 \in 1..Len(t) /\ 4 \in 1..Len(t)
          /\ e = 1 => 5 \in 1..Len(t)
      BY <3>1
    <3>3. 1 \in 1..Len(b) /\ 2 \in 1..Len(b)
      BY <3>1
    <3>4. p[1] = t[1] /\ p[2] = t[2] /\ p[3] = t[3] /\ p[4] = t[4] /\ (e = 1 => p[5] = t[5])
      BY <2>1, <3>2
    <3>5. p[Len(t) + 1] = b[1] /\ p[Len(t) + 2] = b[2]
      BY <2>1, <3>3
    <3> QED BY <1>4, <1>5, <3>4, <3>5
  <2>3. Len(t) = 4 + e /\ Len(b) = 2 /\ 4 + e + 1 = 5 + e /\ 4 + e + 2 = 6 + e
    BY <1>4, <1>5
  <2> QED BY <2>1, <2>2, <2>3
<1> QED BY <1>1, <1>6 DEF ExpectShape

LEMMA NePiece ==
    ASSUME NEW item \in ItemSet, NEW i \in Nat, NEW l \in Nat, NEW p, p = ExpectNeLines(item, i, l)
    PROVE  /\ p \in Seq(Lines) /\ Len(p) = 8
           /\ p[3] = LabelLine(l) /\ p[8] = LabelLine(l)
<1>1. PICK w, x, y, z, j, d, r : /\ w = Work(i) /\ x = Check(i, item.kind = "ne", l, l + 1) /\ y = LabelLine(l)
                                 /\ z = Jump(l + 2) /\ j = LabelLine(l + 1) /\ d = Report(i) /\ r = ReturnStmt("one", i)
  OBVIOUS
<1>2. /\ w \in Lines /\ x \in Lines /\ y \in Lines /\ z \in Lines /\ d \in Lines /\ r \in Lines /\ j \in Lines
  <2>1. (item.kind = "ne") \in BOOLEAN /\ l + 1 \in Nat /\ l + 2 \in Nat
    OBVIOUS
  <2>2. w \in Lines /\ d \in Lines /\ r \in Lines
    BY <1>1, LinesAre
  <2>3. x \in Lines
    BY <1>1, <2>1, JumpsAre
  <2>4. y \in Lines /\ z \in Lines /\ j \in Lines
    BY <1>1, <2>1, JumpsAre
  <2> QED BY <2>2, <2>3, <2>4
<1>3. p = <<w, x, y, z, j, d, r, y>>
  BY <1>1 DEF ExpectNeLines
<1> QED BY <1>1, <1>2, <1>3

-----------------------------------------------------------------------------
(* What is written keeps the text sound.                                   *)

\* All that LLVM asks of a text but its end, with the labels below n.
Sound(c, n) ==
    /\ c \in Seq(Lines) /\ UniqueLabels(c) /\ BlocksClosed(c)
    /\ \A i \in 1..Len(c) : c[i].op = "label" => \E l \in 0..n - 1 : c[i].to = {l}
    /\ \A i \in 1..Len(c) : c[i].op = "br" => Lands(c, i)

LEMMA LandsKept ==
    ASSUME NEW c \in Seq(Lines), NEW T \in Seq(Lines), Len(T) >= Len(c), \A i \in 1..Len(c) : T[i] = c[i],
           NEW i \in 1..Len(c), Lands(c, i)
    PROVE  Lands(T, i)
<1>1. T[i] = c[i] /\ \A j \in i + 1..Len(c) : j \in i + 1..Len(T) /\ T[j] = c[j]
  OBVIOUS
<1> QED BY <1>1 DEF Lands

LEMMA SoundPlain ==
    ASSUME NEW n \in Nat, NEW c, Sound(c, n), NEW p \in Seq(Lines),
           \A k \in 1..Len(p) : p[k].op \in {"inst", "ret"}
    PROVE  Sound(c \o p, n)
<1> DEFINE T == c \o p
           m == Len(c)
<1>1. c \in Seq(Lines)
  BY DEF Sound
<1>2. /\ T \in Seq(Lines) /\ Len(T) = m + Len(p) /\ m \in Nat /\ Len(p) \in Nat
      /\ \A i \in 1..m : T[i] = c[i]
      /\ \A i \in m + 1..m + Len(p) : T[i] = p[i - m] /\ i - m \in 1..Len(p)
  BY <1>1, Joined
<1>3. DOMAIN T = 1..Len(T) /\ DOMAIN c = 1..m
  BY <1>1, <1>2
<1> HIDE DEF T
<1>4. \A i \in 1..Len(T) : T[i].op \in {"label", "br"} => i \in 1..m /\ T[i] = c[i]
  <2>1. \A i \in m + 1..m + Len(p) : T[i].op \in {"inst", "ret"}
    BY <1>2
  <2>2. \A i \in 1..Len(T) : i \in 1..m \/ i \in m + 1..m + Len(p)
    BY <1>2
  <2> QED BY <1>2, <2>1, <2>2
<1>5. UniqueLabels(T)
  <2>1. \A i, j \in 1..m : c[i].op = "label" /\ c[j].op = "label" /\ c[i].to = c[j].to => i = j
    BY <1>3 DEF Sound, UniqueLabels
  <2> QED BY <1>3, <1>4, <2>1 DEF UniqueLabels
<1>6. BlocksClosed(T)
  <2>1. \A i \in 1..m : c[i].op = "label" => i > 1 /\ IsTerminator(c[i - 1])
    BY <1>3 DEF Sound, BlocksClosed
  <2>2. \A i \in 1..m : i > 1 => i - 1 \in 1..m /\ T[i - 1] = c[i - 1]
    BY <1>2
  <2> QED BY <1>3, <1>4, <2>1, <2>2 DEF BlocksClosed
<1>7. \A i \in 1..Len(T) : T[i].op = "label" => \E l \in 0..n - 1 : T[i].to = {l}
  <2>1. \A i \in 1..m : c[i].op = "label" => \E l \in 0..n - 1 : c[i].to = {l}
    BY DEF Sound
  <2> QED BY <1>4, <2>1
<1>8. \A i \in 1..Len(T) : T[i].op = "br" => Lands(T, i)
  <2>1. \A i \in 1..m : Lands(c, i) => Lands(T, i)
    <3>1. T \in Seq(Lines) /\ Len(T) >= Len(c) /\ \A i \in 1..Len(c) : T[i] = c[i]
      BY <1>2
    <3> QED BY <1>1, <3>1, LandsKept
  <2> QED BY <1>4, <2>1 DEF Sound
<1>9. Sound(T, n)
  BY <1>2, <1>5, <1>6, <1>7, <1>8 DEF Sound
<1> QED BY <1>9 DEF T

LEMMA SoundExpect ==
    ASSUME NEW n \in Nat, NEW c, Sound(c, n), NEW item \in ItemSet, item.kind \in Holding, NEW k \in Nat
    PROVE  Sound(c \o ExpectLines(item, k, n), n + 2)
<1>0. PICK p : p = ExpectLines(item, k, n)
  OBVIOUS
<1> DEFINE T == c \o p
           m == Len(c)
<1>1. c \in Seq(Lines)
  BY DEF Sound
<1>2. PICK e \in {0, 1} : e = Extra(item)
  BY KindsAre
<1>3. /\ p \in Seq(Lines) /\ Len(p) = 6 + e
      /\ p[1] = Work(k) /\ p[2] = Check(k, TRUE, n, n + 1) /\ p[3] = LabelLine(n + 1) /\ p[4] = Report(k)
      /\ (e = 1 => p[5] = Debug(k)) /\ p[5 + e] = ReturnStmt("one", k) /\ p[6 + e] = LabelLine(n)
  BY <1>0, <1>2, ExpectPiece DEF ExpectShape
<1>4. /\ p[1].op = "inst" /\ p[3].op = "label" /\ p[3].to = {n + 1} /\ p[4].op = "print"
      /\ p[2].op = "br" /\ p[2].to = {n, n + 1} /\ p[2].then = n
      /\ (e = 1 => p[5].op = "debug") /\ p[5 + e].op = "ret" /\ p[6 + e].op = "label" /\ p[6 + e].to = {n}
  <2>1. n + 1 \in Nat /\ TRUE \in BOOLEAN
    OBVIOUS
  <2>2. /\ Work(k).op = "inst" /\ Report(k).op = "print" /\ Debug(k).op = "debug" /\ ReturnStmt("one", k).op = "ret"
    BY LinesAre
  <2>3. /\ LabelLine(n + 1).op = "label" /\ LabelLine(n + 1).to = {n + 1}
        /\ LabelLine(n).op = "label" /\ LabelLine(n).to = {n}
    BY <2>1, JumpsAre
  <2>4. /\ Check(k, TRUE, n, n + 1).op = "br" /\ Check(k, TRUE, n, n + 1).to = {n, n + 1}
        /\ Check(k, TRUE, n, n + 1).then = n
    <3>1. PICK j \in Nat : j = n + 1
      OBVIOUS
    <3>2. /\ Check(k, TRUE, n, j).op = "br" /\ Check(k, TRUE, n, j).to = {n, j}
          /\ Check(k, TRUE, n, j).then = n /\ Check(k, TRUE, n, j).at = k /\ Check(k, TRUE, n, j).when = TRUE
      BY ChecksTrue
    <3> QED BY <3>1, <3>2
  <2> QED BY <1>3, <2>2, <2>3, <2>4
<1>5. /\ T \in Seq(Lines) /\ Len(T) = m + 6 + e /\ m \in Nat
      /\ \A i \in 1..m : T[i] = c[i]
      /\ T[m + 1] = p[1] /\ T[m + 2] = p[2] /\ T[m + 3] = p[3] /\ T[m + 4] = p[4]
      /\ (e = 1 => T[m + 5] = p[5]) /\ T[m + 5 + e] = p[5 + e] /\ T[m + 6 + e] = p[6 + e]
  <2>1. /\ T \in Seq(Lines) /\ Len(T) = m + Len(p) /\ m \in Nat
        /\ \A i \in 1..m : T[i] = c[i]
        /\ \A i \in 1..Len(p) : T[m + i] = p[i]
    BY <1>1, <1>3, Joined
  <2> HIDE DEF T, m
  <2>2. /\ 1 \in 1..Len(p) /\ 2 \in 1..Len(p) /\ 3 \in 1..Len(p) /\ 4 \in 1..Len(p) /\ 5 \in 1..Len(p)
        /\ 5 + e \in 1..Len(p) /\ 6 + e \in 1..Len(p)
        /\ m + 5 + e = m + (5 + e) /\ m + 6 + e = m + (6 + e) /\ m + Len(p) = m + 6 + e
    BY <1>3, <2>1
  <2>3. T[m + (5 + e)] = p[5 + e] /\ T[m + (6 + e)] = p[6 + e]
    BY <2>1, <2>2
  <2> QED BY <2>1, <2>2, <2>3
<1>6. DOMAIN T = 1..Len(T) /\ DOMAIN c = 1..m
  BY <1>1, <1>5
<1> HIDE DEF T, m
<1>a. m \in Nat /\ Len(T) = m + 6 + e
  BY <1>5
<1>7. \A i \in 1..Len(T) : i \in 1..m \/ i \in {m + 1, m + 2, m + 3, m + 4, m + 5 + e, m + 6 + e} \/ (e = 1 /\ i = m + 5)
  <2>1. CASE e = 0
    <3>1. Len(T) = m + 6 /\ m + 5 + e = m + 5 /\ m + 6 + e = m + 6
      BY <1>a, <2>1
    <3>2. \A i \in 1..m + 6 : i \in 1..m \/ i \in {m + 1, m + 2, m + 3, m + 4, m + 5, m + 6}
      BY <1>a
    <3> QED BY <3>1, <3>2
  <2>2. CASE e = 1
    <3>1. Len(T) = m + 7 /\ m + 5 + e = m + 6 /\ m + 6 + e = m + 7
      BY <1>a, <2>2
    <3>2. \A i \in 1..m + 7 : i \in 1..m \/ i \in {m + 1, m + 2, m + 3, m + 4, m + 6, m + 7} \/ i = m + 5
      BY <1>a
    <3> QED BY <2>2, <3>1, <3>2
  <2> QED BY <2>1, <2>2
<1>8. \A i \in 1..Len(T) : T[i].op = "label" =>
         \/ i \in 1..m /\ T[i] = c[i]
         \/ i = m + 3 /\ T[i].to = {n + 1}
         \/ i = m + 6 + e /\ T[i].to = {n}
  <2>1. /\ T[m + 1].op = "inst" /\ T[m + 2].op = "br" /\ T[m + 3].to = {n + 1} /\ T[m + 4].op = "print"
        /\ (e = 1 => T[m + 5].op = "debug") /\ T[m + 5 + e].op = "ret" /\ T[m + 6 + e].to = {n}
    BY <1>4, <1>5
  <2> QED BY <1>5, <1>7, <2>1
<1>9. \A i \in 1..Len(T) : T[i].op = "br" => (i \in 1..m /\ T[i] = c[i]) \/ i = m + 2
  <2>1. /\ T[m + 1].op = "inst" /\ T[m + 3].op = "label" /\ T[m + 4].op = "print" /\ T[m + 6 + e].op = "label"
        /\ (e = 1 => T[m + 5].op = "debug") /\ T[m + 5 + e].op = "ret"
    BY <1>4, <1>5
  <2> QED BY <1>5, <1>7, <2>1
<1>10. \A i \in 1..m : c[i].op = "label" => \E l \in 0..n - 1 : c[i].to = {l}
  BY DEF Sound, m
<1>11. /\ \A i \in 1..m : c[i].op = "label" => c[i].to # {n} /\ c[i].to # {n + 1}
       /\ {n} # {n + 1}
  <2>1. \A l \in 0..n - 1 : l # n /\ l # n + 1
    OBVIOUS
  <2>2. n # n + 1
    OBVIOUS
  <2> QED BY <1>10, <2>1, <2>2
<1>12. UniqueLabels(T)
  <2>1. \A i, j \in 1..m : c[i].op = "label" /\ c[j].op = "label" /\ c[i].to = c[j].to => i = j
    BY <1>6 DEF Sound, UniqueLabels
  <2> SUFFICES ASSUME NEW i \in 1..Len(T), NEW j \in 1..Len(T),
                      T[i].op = "label", T[j].op = "label", T[i].to = T[j].to
               PROVE  i = j
    BY <1>6 DEF UniqueLabels
  <2>2. CASE i \in 1..m /\ T[i] = c[i]
    BY <1>8, <1>11, <2>1, <2>2
  <2>3. CASE i = m + 3 /\ T[i].to = {n + 1}
    BY <1>8, <1>11, <2>3
  <2>4. CASE i = m + 6 + e /\ T[i].to = {n}
    BY <1>8, <1>11, <2>4
  <2> QED BY <1>8, <2>2, <2>3, <2>4
<1>13. BlocksClosed(T)
  <2>1. \A i \in 1..m : c[i].op = "label" => i > 1 /\ IsTerminator(c[i - 1])
    BY <1>6 DEF Sound, BlocksClosed
  <2> SUFFICES ASSUME NEW i \in 1..Len(T), T[i].op = "label"
               PROVE  i > 1 /\ IsTerminator(T[i - 1])
    BY <1>6 DEF BlocksClosed
  <2>2. CASE i \in 1..m /\ T[i] = c[i]
    <3>1. i > 1 /\ IsTerminator(c[i - 1])
      BY <2>1, <2>2
    <3>2. i - 1 \in 1..m
      BY <1>5, <2>2, <3>1
    <3> QED BY <1>5, <3>1, <3>2
  <2>3. CASE i = m + 3
    <3>1. i - 1 = m + 2 /\ i > 1
      BY <1>a, <2>3
    <3> QED BY <1>4, <1>5, <3>1 DEF IsTerminator
  <2>4. CASE i = m + 6 + e
    <3>1. i - 1 = m + 5 + e /\ i > 1
      BY <1>a, <2>4
    <3> QED BY <1>4, <1>5, <3>1 DEF IsTerminator
  <2> QED BY <1>8, <2>2, <2>3, <2>4
<1>14. \A i \in 1..Len(T) : T[i].op = "label" => \E l \in 0..(n + 2) - 1 : T[i].to = {l}
  <2>1. n \in 0..(n + 2) - 1 /\ n + 1 \in 0..(n + 2) - 1 /\ \A l \in 0..n - 1 : l \in 0..(n + 2) - 1
    OBVIOUS
  <2> QED BY <1>8, <1>10, <2>1
<1>15. \A i \in 1..Len(T) : T[i].op = "br" => Lands(T, i)
  <2>1. \A i \in 1..m : c[i].op = "br" => Lands(T, i)
    <3>1. \A i \in 1..m : c[i].op = "br" => Lands(c, i)
      BY DEF Sound, m
    <3>2. Len(T) >= Len(c) /\ \A i \in 1..Len(c) : T[i] = c[i]
      <4>1. Len(T) >= m /\ \A i \in 1..m : T[i] = c[i]
        BY <1>a, <1>5
      <4> QED BY <4>1 DEF m
    <3>3. \A i \in 1..m : Lands(c, i) => Lands(T, i)
      BY <1>1, <1>5, <3>2, LandsKept DEF m
    <3> QED BY <3>1, <3>3
  <2>2. Lands(T, m + 2)
    <3>1. PICK i, j, q : i = m + 2 /\ j = m + 3 /\ q = m + 6 + e
      OBVIOUS
    <3>2. j \in i + 1..Len(T) /\ q \in i + 1..Len(T)
      BY <1>a, <3>1
    <3>3. /\ T[i].to = {n, n + 1} /\ T[i].then = n /\ T[j].op = "label" /\ T[j].to = {n + 1}
          /\ T[q].op = "label" /\ T[q].to = {n}
      BY <1>4, <1>5, <3>1
    <3>4. n + 1 # n
      OBVIOUS
    <3>5. Lands(T, i)
      BY <3>2, <3>3, <3>4 DEF Lands
    <3> QED BY <3>1, <3>5
  <2> QED BY <1>9, <2>1, <2>2
<1>16. Sound(T, n + 2)
  BY <1>5, <1>12, <1>13, <1>14, <1>15 DEF Sound
<1> QED BY <1>0, <1>16 DEF T

\* With an end, it is a text that LLVM takes, and that runs.
LEMMA SoundEnds ==
    ASSUME NEW n \in Nat, NEW T, Sound(T, n), EndsInTerminator(T)
    PROVE  Accepted(T) /\ Forward(T)
<1>1. T \in Seq(Lines) /\ UniqueLabels(T) /\ BlocksClosed(T) /\ \A i \in 1..Len(T) : T[i].op = "br" => Lands(T, i)
  BY DEF Sound
<1>2. DOMAIN T = 1..Len(T)
  BY <1>1
<1>3. Targets(T) \subseteq Labels(T)
  <2> SUFFICES ASSUME NEW l \in Targets(T) PROVE l \in Labels(T)
    OBVIOUS
  <2>1. PICK i \in DOMAIN T : T[i].op = "br" /\ l \in T[i].to
    BY DEF Targets
  <2>2. i \in 1..Len(T) /\ Lands(T, i)
    BY <1>1, <1>2, <2>1
  <2>3. PICK j \in i + 1..Len(T) : T[j].op = "label" /\ T[j].to = {l}
    BY <2>1, <2>2 DEF Lands
  <2>4. j \in DOMAIN T /\ l \in T[j].to
    BY <1>1, <1>2, <2>2, <2>3
  <2> QED BY <2>3, <2>4 DEF Labels
<1> QED BY <1>1, <1>3 DEF Accepted, Forward

-----------------------------------------------------------------------------
(* What is written for an item stands there.                               *)

LEMMA StmtStands ==
    ASSUME NEW c \in Seq(Lines), NEW item \in ItemSet, item.kind \in StmtKinds, NEW k \in Nat,
           NEW T, T = c \o StmtLines(item.kind, k)
    PROVE  Stands(T, item, k, Len(c) + 1, Len(T) + 1)
<1> DEFINE p == StmtLines(item.kind, k)
           m == Len(c)
<1>1. /\ p \in Seq(Lines) /\ item.kind = "return" => Len(p) = 2 /\ p[1] = Work(k) /\ p[2] = ReturnStmt("value", k)
      /\ p \in Seq(Lines) /\ item.kind # "return" => Len(p) = 1 /\ p[1] = Work(k)
      /\ p \in Seq(Lines)
  BY StmtPiece
<1> HIDE DEF p
<1>2. Len(T) = m + Len(p) /\ m \in Nat /\ \A i \in 1..Len(p) : T[m + i] = p[i]
  BY <1>1, Joined DEF p
<1> HIDE DEF m
<1>3. Work(k).op = "inst" /\ ReturnStmt("value", k).op = "ret" /\ ReturnStmt("value", k).val = "value" /\ ReturnStmt("value", k).at = k
  BY LinesAre
<1>4. item.kind \notin ExpectKinds /\ item.kind # "stray"
  BY DEF StmtKinds, ExpectKinds
<1>5. item.kind \notin Holding /\ ~IsNe(item.kind) /\ item.kind \in {"work", "value", "return"}
  BY <1>4 DEF Holding, IsNe, ExpectKinds, StmtKinds
<1>6. CASE item.kind = "return"
  <2>1. Len(p) = 2 /\ T[m + 1] = Work(k) /\ T[m + 2] = ReturnStmt("value", k)
    <3>1. Len(p) = 2 /\ p[1] = Work(k) /\ p[2] = ReturnStmt("value", k)
      BY <1>1, <1>6
    <3> QED BY <1>2, <3>1
  <2>2. Len(T) + 1 = (m + 1) + 2 /\ m + 2 = (m + 1) + 1
    BY <1>2, <2>1
  <2>3. StandsWith(T, item, k, 0, m + 1, Len(T) + 1)
    BY <1>3, <1>5, <1>6, <2>1, <2>2 DEF StandsWith
  <2> QED BY <2>3 DEF Stands, m
<1>7. CASE item.kind # "return"
  <2>1. Len(p) = 1 /\ T[m + 1] = Work(k)
    BY <1>1, <1>2, <1>7
  <2>2. Len(T) + 1 = (m + 1) + 1
    BY <1>2, <2>1
  <2>3. StandsWith(T, item, k, 0, m + 1, Len(T) + 1)
    BY <1>3, <1>4, <1>5, <1>7, <2>1, <2>2 DEF StandsWith
  <2> QED BY <2>3 DEF Stands, m
<1> QED BY <1>6, <1>7

LEMMA ExpectStands ==
    ASSUME NEW c \in Seq(Lines), NEW item \in ItemSet, item.kind \in Holding, NEW k \in Nat, NEW l \in Nat,
           NEW T, T = c \o ExpectLines(item, k, l)
    PROVE  T \in Seq(Lines) /\ Stands(T, item, k, Len(c) + 1, Len(T) + 1)
<1>0. PICK p : p = ExpectLines(item, k, l)
  OBVIOUS
<1> DEFINE m == Len(c)
<1>1. PICK e \in {0, 1} : e = Extra(item)
  BY KindsAre
<1>2. /\ p \in Seq(Lines) /\ Len(p) = 6 + e
      /\ p[1] = Work(k) /\ p[2] = Check(k, TRUE, l, l + 1) /\ p[3] = LabelLine(l + 1) /\ p[4] = Report(k)
      /\ (e = 1 => p[5] = Debug(k)) /\ p[5 + e] = ReturnStmt("one", k) /\ p[6 + e] = LabelLine(l)
  BY <1>0, <1>1, ExpectPiece DEF ExpectShape
<1>3. T \in Seq(Lines) /\ Len(T) = m + Len(p) /\ m \in Nat /\ \A i \in 1..Len(p) : T[m + i] = p[i]
  BY <1>0, <1>2, Joined
<1> HIDE DEF m
<1>4. /\ Work(k).op = "inst" /\ Report(k).op = "print" /\ Report(k).at = k /\ Debug(k).op = "debug" /\ Debug(k).at = k
      /\ ReturnStmt("one", k).op = "ret" /\ ReturnStmt("one", k).val = "one"
  BY LinesAre
<1>5. /\ LabelLine(l + 1).op = "label" /\ LabelLine(l + 1).to = {l + 1}
      /\ LabelLine(l).op = "label" /\ LabelLine(l).to = {l}
  <2>1. l + 1 \in Nat
    OBVIOUS
  <2> QED BY <2>1, JumpsAre
<1>6. /\ Check(k, TRUE, l, l + 1).op = "br" /\ Check(k, TRUE, l, l + 1).to = {l, l + 1}
      /\ Check(k, TRUE, l, l + 1).then = l /\ Check(k, TRUE, l, l + 1).at = k /\ Check(k, TRUE, l, l + 1).when = TRUE
  <2>1. PICK j \in Nat : j = l + 1
    OBVIOUS
  <2>2. /\ Check(k, TRUE, l, j).op = "br" /\ Check(k, TRUE, l, j).to = {l, j}
        /\ Check(k, TRUE, l, j).then = l /\ Check(k, TRUE, l, j).at = k /\ Check(k, TRUE, l, j).when = TRUE
    BY ChecksTrue
  <2> QED BY <2>1, <2>2
<1> DEFINE a == m + 1
           b == Len(T) + 1
<1>7. /\ T[a] = Work(k) /\ T[a + 1] = Check(k, TRUE, l, l + 1) /\ T[a + 2] = LabelLine(l + 1) /\ T[a + 3] = Report(k)
      /\ (e = 1 => T[a + 4] = Debug(k)) /\ T[a + 4 + e] = ReturnStmt("one", k) /\ T[a + 5 + e] = LabelLine(l)
      /\ b = a + 6 + e
  <2>1. /\ 1 \in 1..Len(p) /\ 2 \in 1..Len(p) /\ 3 \in 1..Len(p) /\ 4 \in 1..Len(p) /\ 5 \in 1..Len(p)
        /\ 5 + e \in 1..Len(p) /\ 6 + e \in 1..Len(p)
    <3>1. Len(p) = 6 + e
      BY <1>2
    <3>2. CASE e = 0
      BY <3>1, <3>2
    <3>3. CASE e = 1
      BY <3>1, <3>3
    <3> QED BY <1>1, <3>2, <3>3
  <2>2. /\ T[m + 1] = p[1] /\ T[m + 2] = p[2] /\ T[m + 3] = p[3] /\ T[m + 4] = p[4] /\ T[m + 5] = p[5]
        /\ T[m + (5 + e)] = p[5 + e] /\ T[m + (6 + e)] = p[6 + e]
    BY <1>3, <2>1
  <2>3. /\ a + 1 = m + 2 /\ a + 2 = m + 3 /\ a + 3 = m + 4 /\ a + 4 = m + 5 /\ a + 4 + e = m + (5 + e)
        /\ a + 5 + e = m + (6 + e) /\ b = a + 6 + e
    <3>1. m \in Nat /\ Len(T) = m + (6 + e) /\ e \in Nat
      <4>1. Len(p) = 6 + e /\ Len(T) = m + Len(p) /\ m \in Nat
        BY <1>2, <1>3
      <4> QED BY <4>1
    <3> QED BY <3>1
  <2> QED BY <1>2, <2>2, <2>3
<1> HIDE DEF a, b
<1>8. item.kind \notin {"stray", "work", "value", "return"} /\ ~IsNe(item.kind)
  BY KindsAre
<1>9. StandsWith(T, item, k, l, a, b)
  BY <1>1, <1>4, <1>5, <1>6, <1>7, <1>8 DEF StandsWith
<1> QED BY <1>3, <1>9 DEF Stands, a, b, m

LEMMA NeStands ==
    ASSUME NEW c \in Seq(Lines), NEW item \in ItemSet, IsNe(item.kind), NEW k \in Nat, NEW l \in Nat,
           NEW T, T = c \o ExpectNeLines(item, k, l)
    PROVE  T \in Seq(Lines) /\ Stands(T, item, k, Len(c) + 1, Len(T) + 1)
<1> DEFINE p == ExpectNeLines(item, k, l)
           m == Len(c)
<1>1. p \in Seq(Lines) /\ Len(p) = 8 /\ p[3] = LabelLine(l) /\ p[8] = LabelLine(l)
  BY NePiece
<1>2. T \in Seq(Lines) /\ Len(T) = m + Len(p) /\ m \in Nat /\ \A i \in 1..Len(p) : T[m + i] = p[i]
  BY <1>1, Joined
<1> HIDE DEF p, m
<1>3. LabelLine(l).op = "label" /\ LabelLine(l).to = {l}
  BY JumpsAre
<1>4. /\ T[m + 3] = LabelLine(l) /\ T[m + 8] = LabelLine(l)
      /\ m + 3 = (m + 1) + 2 /\ m + 8 = (m + 1) + 7 /\ Len(T) + 1 = (m + 1) + 8
  <2>1. T[m + 3] = p[3] /\ T[m + 8] = p[8]
    <3>1. 3 \in 1..Len(p) /\ 8 \in 1..Len(p)
      BY <1>1
    <3> QED BY <1>2, <3>1
  <2>2. m \in Nat /\ Len(T) = m + 8
    BY <1>1, <1>2
  <2> QED BY <1>1, <2>1, <2>2
<1>5. item.kind \notin {"stray", "work", "value", "return"} /\ item.kind \notin Holding
  BY KindsAre
<1>6. StandsWith(T, item, k, l, m + 1, Len(T) + 1)
  BY <1>3, <1>4, <1>5 DEF StandsWith
<1> QED BY <1>2, <1>6 DEF Stands, m

LEMMA StrayStands ==
    ASSUME NEW c \in Seq(Lines), NEW item \in ItemSet, item.kind = "stray", NEW k \in Nat
    PROVE  Stands(c, item, k, Len(c) + 1, Len(c) + 1)
<1>1. item.kind \notin {"work", "value", "return"} /\ item.kind \notin Holding /\ ~IsNe(item.kind)
  BY DEF Holding, IsNe, ExpectKinds
<1>2. StandsWith(c, item, k, 0, Len(c) + 1, Len(c) + 1)
  BY <1>1 DEF StandsWith
<1> QED BY <1>2 DEF Stands

\* A text with an expect-ne opens a block twice.
LEMMA NeRefused ==
    ASSUME NEW T \in Seq(Lines), NEW items, NEW s, NEW e \in Nat, Laid(T, items, s, e), e <= Len(T) + 1,
           NEW k \in 1..Len(items), Len(items) \in Nat, IsNe(items[k].kind)
    PROVE  ~Accepted(T)
<1>1. Stands(T, items[k], k, s[k], s[k + 1]) /\ s[k + 1] <= e /\ s[k] \in Nat \ {0} /\ s[k + 1] \in Nat
  BY DEF Laid
<1>2. PICK l \in Nat : StandsWith(T, items[k], k, l, s[k], s[k + 1])
  BY <1>1 DEF Stands
<1>3. PICK a, b : a = s[k] /\ b = s[k + 1]
  OBVIOUS
<1>4. /\ b = a + 8 /\ T[a + 2].op = "label" /\ T[a + 2].to = {l} /\ T[a + 7].op = "label" /\ T[a + 7].to = {l}
      /\ a \in Nat \ {0} /\ b <= e
  BY <1>1, <1>2, <1>3 DEF StandsWith
<1>5. a + 2 \in DOMAIN T /\ a + 7 \in DOMAIN T /\ a + 2 # a + 7
  <2>1. PICK n \in Nat : n = Len(T)
    OBVIOUS
  <2>2. a + 8 <= n + 1 /\ a \in Nat \ {0}
    BY <1>4, <2>1
  <2>3. a + 2 \in 1..n /\ a + 7 \in 1..n /\ a + 2 # a + 7
    BY <2>2
  <2> QED BY <2>1, <2>3
<1>6. ~UniqueLabels(T)
  BY <1>4, <1>5 DEF UniqueLabels
<1> QED BY <1>6 DEF Accepted

-----------------------------------------------------------------------------
(* What a test function answers and reports.                               *)

\* TestsReport of one function.
Decides(f) ==
    \A agrees \in Futures(f) :
        /\ Expects(f) # {} =>
              Execute(f.code, agrees).zero = (Failing(f, agrees) = {} /\ \A r \in ReturnsAt(f) : agrees[r])
        /\ Expects(f) = {} =>
              Execute(f.code, agrees).zero =
                  IF ReturnsAt(f) # {} THEN \A r \in ReturnsAt(f) : agrees[r]
                  ELSE BodyValues(f) # {} => agrees[Max(BodyValues(f))]
        /\ LET first == IF Failing(f, agrees) = {} THEN {} ELSE {Min(Failing(f, agrees))}
           IN /\ Execute(f.code, agrees).shown = first
              /\ Execute(f.code, agrees).debugged =
                    {k \in first : f.items[k].kind = "false" /\ f.items[k].debug}

\* The last line of a test that did not return of itself, at e.
EndsAs(f, e) ==
    /\ e \in 1..Len(f.code) /\ f.code[e].op = "ret"
    /\ IF Expects(f) = {} /\ BodyValues(f) # {}
       THEN f.code[e].val = "value" /\ f.code[e].at = Max(BodyValues(f)) /\ f.code[e].at \in 1..Len(f.items)
       ELSE f.code[e].val = "zero"

LEMMA MinIs ==
    ASSUME NEW S \in SUBSET Nat, NEW m \in S, \A k \in S : m <= k
    PROVE  Min(S) = m
<1>1. \A x \in S : (\A k \in S : x <= k) => x = m
  <2> SUFFICES ASSUME NEW x \in S, \A k \in S : x <= k PROVE x = m
    OBVIOUS
  <2>1. x \in Nat /\ m \in Nat /\ x <= m /\ m <= x
    OBVIOUS
  <2> QED BY <2>1
<1> QED BY <1>1 DEF Min

LEMMA MaxIs ==
    ASSUME NEW S \in SUBSET Nat, NEW m \in S, \A k \in S : k <= m
    PROVE  Max(S) = m
<1>1. \A x \in S : (\A k \in S : x >= k) => x = m
  <2> SUFFICES ASSUME NEW x \in S, \A k \in S : x >= k PROVE x = m
    OBVIOUS
  <2>1. x \in Nat /\ m \in Nat /\ x <= m /\ m <= x
    OBVIOUS
  <2> QED BY <2>1
<1>2. \A k \in S : m >= k
  OBVIOUS
<1> QED BY <1>1, <1>2 DEF Max

LEMMA Reporting ==
    ASSUME NEW f, f.items \in Seq(ItemSet), Forward(f.code), NEW s, NEW e \in Nat,
           Laid(f.code, f.items, s, e), e <= Len(f.code) + 1,
           \A k \in 1..Len(f.items) : ~IsNe(f.items[k].kind) /\ (f.items[k].kind = "return" => k = Len(f.items)),
           ReturnsAt(f) = {} => EndsAs(f, e)
    PROVE  Decides(f)
<1> DEFINE items == f.items
           T == f.code
           n == Len(items)
<1> SUFFICES ASSUME NEW agrees \in [1..n -> BOOLEAN]
             PROVE
        /\ Expects(f) # {} =>
              Execute(T, agrees).zero = (Failing(f, agrees) = {} /\ \A r \in ReturnsAt(f) : agrees[r])
        /\ Expects(f) = {} =>
              Execute(T, agrees).zero =
                  IF ReturnsAt(f) # {} THEN \A r \in ReturnsAt(f) : agrees[r]
                  ELSE BodyValues(f) # {} => agrees[Max(BodyValues(f))]
        /\ LET first == IF Failing(f, agrees) = {} THEN {} ELSE {Min(Failing(f, agrees))}
           IN /\ Execute(T, agrees).shown = first
              /\ Execute(T, agrees).debugged = {k \in first : items[k].kind = "false" /\ items[k].debug}
  BY DEF Decides, Futures
<1>1. PICK F : F = Outcomes(T, agrees)
  OBVIOUS
<1>2. Execute(T, agrees) = F[1]
  BY <1>1 DEF Execute
<1>3. /\ Expects(f) = {k \in 1..n : items[k].kind \in ExpectKinds}
      /\ ReturnsAt(f) = {k \in 1..n : items[k].kind = "return"}
      /\ Failing(f, agrees) = Failures(items, agrees) /\ Failures(items, agrees) \subseteq Expects(f)
      /\ Expects(f) \subseteq 1..n /\ n \in Nat
  BY DEF Expects, ReturnsAt, Failing, Failures
<1>4. PICK bad : bad = Failures(items, agrees)
  OBVIOUS
<1>5. /\ \A m \in bad : (\A k \in bad : m <= k) =>
            F[1] = [zero |-> FALSE, shown |-> {m},
                    debugged |-> IF items[m].kind = "false" /\ items[m].debug THEN {m} ELSE {}]
      /\ bad = {} =>
            /\ \A k \in 1..n : items[k].kind = "return" => F[1] = [zero |-> agrees[k], shown |-> {}, debugged |-> {}]
            /\ (\A k \in 1..n : items[k].kind # "return") => F[1] = F[e]
  <2> HIDE DEF items, T, n
  <2>1. /\ Forward(T) /\ items \in Seq(ItemSet) /\ Laid(T, items, s, e) /\ e <= Len(T) + 1
        /\ \A k \in 1..Len(items) : ~IsNe(items[k].kind) /\ (items[k].kind = "return" => k = Len(items))
        /\ agrees \in [1..Len(items) -> BOOLEAN]
    BY DEF items, T, n
  <2>2. AnswersAs(Outcomes(T, agrees), items, agrees, e)
    BY <2>1, Answers
  <2> QED BY <1>1, <1>4, <2>2 DEF n, AnswersAs
<1> HIDE DEF items, n
<1>6. CASE bad # {}
  <2>1. bad \in SUBSET Nat /\ bad \subseteq Expects(f)
    BY <1>3, <1>4
  <2>2. PICK m \in bad : \A k \in bad : m <= k
    BY <1>6, <2>1, Least
  <2>3. Min(bad) = m
    BY <2>1, <2>2, MinIs
  <2>4. F[1] = [zero |-> FALSE, shown |-> {m},
                debugged |-> IF items[m].kind = "false" /\ items[m].debug THEN {m} ELSE {}]
    BY <1>5, <2>2
  <2>5. F[1].zero = FALSE /\ F[1].shown = {m}
        /\ F[1].debugged = {k \in {m} : items[k].kind = "false" /\ items[k].debug}
    BY <2>4
  <2>6. Failing(f, agrees) = bad /\ bad # {} /\ Expects(f) # {}
    BY <1>3, <1>4, <1>6, <2>1
  <2> QED BY <1>2, <2>3, <2>5, <2>6
<1>7. CASE bad = {} /\ ReturnsAt(f) # {}
  <2>1. PICK k \in 1..n : items[k].kind = "return"
    BY <1>3, <1>7
  <2>2. F[1] = [zero |-> agrees[k], shown |-> {}, debugged |-> {}]
    BY <1>5, <1>7, <2>1
  <2>3. \A r \in ReturnsAt(f) : r = k
    BY <1>3, <2>1 DEF items, n
  <2>4. k \in ReturnsAt(f) /\ agrees[k] \in BOOLEAN
    BY <1>3, <2>1
  <2>5. (\A r \in ReturnsAt(f) : agrees[r]) <=> agrees[k]
    BY <2>3, <2>4
  <2>6. (F[1].zero <=> agrees[k]) /\ F[1].zero \in BOOLEAN /\ F[1].shown = {} /\ F[1].debugged = {}
    BY <2>2, <2>4
  <2>7. Failing(f, agrees) = {}
    BY <1>3, <1>4, <1>7
  <2> QED BY <1>2, <1>7, <2>5, <2>6, <2>7
<1>8. CASE bad = {} /\ ReturnsAt(f) = {}
  <2>1. \A k \in 1..n : items[k].kind # "return"
    BY <1>3, <1>8
  <2>2. F[1] = F[e]
    BY <1>5, <1>8, <2>1
  <2>3. EndsAs(f, e)
    BY <1>8
  <2>4. Forward(T) /\ e \in 1..Len(T) /\ T[e].op = "ret"
    BY <2>3 DEF EndsAs
  <2> HIDE DEF T
  <2>5. /\ T[e].val = "zero" => F[e] = [zero |-> TRUE, shown |-> {}, debugged |-> {}]
        /\ T[e].val = "value" /\ agrees[T[e].at] \in BOOLEAN =>
              F[e] = [zero |-> agrees[T[e].at], shown |-> {}, debugged |-> {}]
    BY <1>1, <2>4, Answered
  <2>6. Failing(f, agrees) = {}
    BY <1>3, <1>4, <1>8
  <2>7. CASE Expects(f) = {} /\ BodyValues(f) # {}
    <3>1. T[e].val = "value" /\ T[e].at = Max(BodyValues(f)) /\ T[e].at \in 1..n
      BY <2>3, <2>7 DEF EndsAs, T, n, items
    <3>2. PICK k \in 1..n : k = Max(BodyValues(f))
      BY <3>1
    <3>3. F[e] = [zero |-> agrees[k], shown |-> {}, debugged |-> {}] /\ agrees[k] \in BOOLEAN
      BY <2>5, <3>1, <3>2
    <3>4. (F[1].zero <=> agrees[k]) /\ F[1].zero \in BOOLEAN /\ F[1].shown = {} /\ F[1].debugged = {}
      BY <2>2, <3>3
    <3>5. Execute(T, agrees).zero = (BodyValues(f) # {} => agrees[Max(BodyValues(f))])
      BY <1>2, <2>7, <3>2, <3>4
    <3> QED BY <1>2, <1>8, <2>6, <2>7, <3>4, <3>5
  <2>8. CASE ~(Expects(f) = {} /\ BodyValues(f) # {})
    <3>1. T[e].val = "zero"
      BY <2>3, <2>8 DEF EndsAs, T
    <3>2. F[1].zero = TRUE /\ F[1].shown = {} /\ F[1].debugged = {}
      BY <2>2, <2>5, <3>1
    <3> QED BY <1>2, <1>8, <2>6, <2>8, <3>2
  <2> QED BY <2>7, <2>8
<1> QED BY <1>6, <1>7, <1>8

-----------------------------------------------------------------------------
(* The inductive invariant.                                                *)

Working == {"setup", "inspect", "body", "rest", "returned"}
InTest  == stage \in Working
Kept    == [kind : shape.kinds \cup {"stray"}, debug : BOOLEAN]

\* Where compile_to_llvm_ir is, and what there is outside of a test.
WalkInv ==
    /\ shape \in Shapes /\ runTests \in BOOLEAN /\ sawExpect \in BOOLEAN /\ nlabel \in Nat
    /\ stage \in {"forms", "tests", "main", "done"} \cup Working
    /\ forms \in Seq({"fn", "entry"}) /\ Len(forms) <= shape.forms
    /\ pos \in [form : 1..Len(forms) + 1, section : 1..shape.sections, item : 1..shape.tests + 1]
    /\ InTest => pos.form <= Len(forms) /\ pos.item <= shape.tests
    /\ runTests \/ stage \in {"forms", "done"}
    /\ test.items \in Seq(Kept)
    /\ ~InTest => test = NoTest /\ code = <<>> /\ carried = 0

Before(p, q) ==
    \/ p.form < q.form
    \/ /\ p.form = q.form
       /\ \/ p.section < q.section
          \/ p.section = q.section /\ p.item < q.item

Names     == {<<"test", k, n>> : k \in Nat, n \in Nat}
Positions == [form : Nat, section : Nat, item : Nat]
PartNames == AllBlocks \cup {"none", "rest"}
Compiles  == [name : Names, pos : Positions, items : Seq(ItemSet), part : PartNames, before : Nat, code : Seq(Lines)]

\* What is compiled stands in the order of the program, and before what is yet to come.
CallsInv ==
    /\ funcs \in Seq(Compiles)
    /\ stage = "forms" \/ ~runTests => funcs = <<>> /\ calls = <<>> /\ wanted = {}
    /\ calls \in Seq(Names) /\ Len(calls) <= Len(funcs)
    /\ \A i \in 1..Len(calls) : calls[i] = funcs[i].name
    /\ stage = "done" => Len(calls) = Len(funcs)
    /\ wanted = {funcs[i].pos : i \in 1..Len(funcs)} \cup (IF InTest THEN {pos} ELSE {})
    /\ \A i, j \in 1..Len(funcs) : i < j => Before(funcs[i].pos, funcs[j].pos)
    /\ \A i \in 1..Len(funcs) : Before(funcs[i].pos, pos)

FnNames == {<<"fn", k>> : k \in Nat}

\* No two functions of the program's text share a name, but for the sections.
OfSections(fs, x, y) ==
    \E f, g \in 1..Len(fs) : fs[f].name = x /\ fs[g].name = y /\ fs[f].pos.section # fs[g].pos.section
OnceIn(names, fs) ==
    \A i, j \in 1..Len(names) : i # j /\ names[i] = names[j] => OfSections(fs, names[i], names[j])

NamesInv ==
    /\ OnceIn(defined, funcs)
    /\ defined \in Seq(FnNames \cup {<<"main">>} \cup Names)
    /\ \A i \in 1..Len(defined) : \A k \in Nat : defined[i] = <<"fn", k>> => k <= Len(forms)
    /\ \A i \in 1..Len(defined) : defined[i] \in Names => \E f \in 1..Len(funcs) : funcs[f].name = defined[i]
    /\ \A i \in 1..Len(defined) : defined[i] = <<"main">> =>
          \/ runTests /\ stage \in {"main", "done"}
          \/ ~runTests /\ \E k \in 1..Len(forms) : forms[k] = "entry"
    /\ \A f \in 1..Len(funcs) : funcs[f].name = <<"test", funcs[f].pos.form, funcs[f].pos.item - 1>>

TestRecords == [name : STRING, tags : SUBSET STRING, has : SUBSET AllBlocks,
                items : Seq(ItemSet), part : PartNames, before : Nat]

\* The part of the test that is compiled, phase by phase.
PartOf(ph, part) ==
    \/ ph = "setup" /\ part = "none"
    \/ ph \in {"inspect", "body"} /\ part = ph
    \/ ph = "returned" /\ part \in {"inspect", "body"}
    \/ ph = "rest" /\ part \in {"rest", "none"}
HasReturned(ph, t) == ph = "returned" \/ (ph = "rest" /\ t.part = "none")

\* In phase ph of the test t: what its text c, saw_expect and last_expr are.
TestGood(ph, t, c, n, saw, lst) ==
    /\ t \in TestRecords /\ PartOf(ph, t.part) /\ t.before <= Len(t.items)
    /\ ReturnsAt(t) = IF HasReturned(ph, t) THEN {Len(t.items)} ELSE {}
    /\ ph \in {"setup", "rest"} => Expects(t) = {} /\ lst = 0
    /\ saw <=> Expects(t) # {}
    /\ ph \notin {"setup", "rest"} =>
          \/ lst = 0 /\ BlockValues(t) = {}
          \/ lst \in BlockValues(t) /\ \A v \in BlockValues(t) : v <= lst
    /\ c \in Seq(Lines) /\ \E s : Laid(c, t.items, s, Len(c) + 1)
    /\ (\A k \in 1..Len(t.items) : ~IsNe(t.items[k].kind)) => Sound(c, n)
    /\ EndsInTerminator(c) <=> HasReturned(ph, t)
TestInv == InTest => TestGood(stage, test, code, nlabel, sawExpect, carried)

\* What is compiled is as WellFormedText and TestsReport have it.
FuncGood(f) == (Accepted(f.code) <=> ~Refused(f)) /\ (~Refused(f) => Decides(f))
FuncInv == \A i \in 1..Len(funcs) : FuncGood(funcs[i])

IInv == WalkInv /\ CallsInv /\ NamesInv /\ TestInv /\ FuncInv

-----------------------------------------------------------------------------
(* Types, and where the program is.                                        *)

LEMMA ShapeIs ==
    ASSUME shape \in Shapes
    PROVE  /\ shape.forms \in Nat /\ shape.sections \in Nat \ {0} /\ shape.tests \in Nat
           /\ shape.names \subseteq STRING /\ shape.tags \subseteq STRING /\ shape.blocks \subseteq AllBlocks
           /\ Items \subseteq ItemSet /\ Items \subseteq Kept /\ Kept \subseteq ItemSet
<1>1. shape \in Shape
  BY ShapesAssumption
<1>2. shape.kinds \subseteq StmtKinds \cup ExpectKinds
  BY <1>1 DEF Shape
<1>3. Items \subseteq ItemSet /\ Items \subseteq Kept /\ Kept \subseteq ItemSet
  BY <1>2 DEF Items, ItemSet, Kept
<1> QED BY <1>1, <1>3 DEF Shape

LEMMA PosMoves ==
    ASSUME NEW p \in Positions
    PROVE  /\ [p EXCEPT !.item = @ + 1] = [form |-> p.form, section |-> p.section, item |-> p.item + 1]
           /\ [p EXCEPT !.section = @ + 1, !.item = 1] = [form |-> p.form, section |-> p.section + 1, item |-> 1]
<1>1. [p EXCEPT !.item = @ + 1] = [form |-> p.form, section |-> p.section, item |-> p.item + 1]
  BY DEF Positions
<1>2. PICK q : q = [p EXCEPT !.section = @ + 1]
  OBVIOUS
<1>3. q \in Positions /\ q.form = p.form /\ q.section = p.section + 1
  BY <1>2 DEF Positions
<1>4. [q EXCEPT !.item = 1] = [form |-> q.form, section |-> q.section, item |-> 1]
  BY <1>3 DEF Positions
<1>5. [p EXCEPT !.section = @ + 1, !.item = 1] = [q EXCEPT !.item = 1]
  BY <1>2 DEF Positions
<1> QED BY <1>1, <1>3, <1>4, <1>5

LEMMA PosIs ==
    ASSUME WalkInv
    PROVE  /\ pos \in Positions /\ pos.form \in 1..Len(forms) + 1 /\ pos.section \in 1..shape.sections
           /\ pos.item \in 1..shape.tests + 1 /\ Len(forms) \in Nat
<1>1. shape.sections \in Nat /\ shape.tests \in Nat /\ Len(forms) \in Nat
  BY ShapeIs DEF WalkInv
<1>2. pos \in [form : 1..Len(forms) + 1, section : 1..shape.sections, item : 1..shape.tests + 1]
  BY DEF WalkInv
<1>3. pos.form \in Nat /\ pos.section \in Nat /\ pos.item \in Nat
  BY <1>1, <1>2
<1> QED BY <1>1, <1>2, <1>3 DEF Positions

LEMMA Added ==
    ASSUME NEW t \in TestRecords, NEW item \in ItemSet, NEW u, u = [t EXCEPT !.items = Append(@, item)]
    PROVE  u \in TestRecords /\ u.items = Append(t.items, item) /\ u.part = t.part /\ u.before = t.before
<1>1. Append(t.items, item) \in Seq(ItemSet)
  BY DEF TestRecords
<1> QED BY <1>1 DEF TestRecords

LEMMA Strayed ==
    ASSUME NEW item, item \in ItemSet
    PROVE  /\ [item EXCEPT !.kind = "stray"] \in ItemSet /\ [item EXCEPT !.kind = "stray"].kind = "stray"
           /\ item \in Items => [item EXCEPT !.kind = "stray"] \in Kept
BY DEF ItemSet, Items, Kept

LEMMA WalkInit == TestsInit => WalkInv
<1> SUFFICES ASSUME TestsInit PROVE WalkInv
  OBVIOUS
<1>1. shape \in Shapes /\ shape.forms \in Nat /\ shape.sections \in Nat \ {0} /\ shape.tests \in Nat
  BY ShapeIs DEF TestsInit
<1>2. pos = [form |-> 1, section |-> 1, item |-> 1]
  BY DEF TestsInit
<1>3. forms = <<>> /\ Len(forms) = 0
  BY DEF TestsInit
<1>4. pos \in [form : 1..Len(forms) + 1, section : 1..shape.sections, item : 1..shape.tests + 1]
  BY <1>1, <1>2, <1>3
<1>5. test.items = <<>> /\ test = NoTest
  BY DEF TestsInit, NoTest
<1>6. test.items \in Seq(Kept) /\ forms \in Seq({"fn", "entry"})
  BY <1>3, <1>5
<1>7. stage = "forms" /\ code = <<>> /\ carried = 0 /\ nlabel = 0 /\ sawExpect = FALSE /\ runTests \in BOOLEAN
  BY DEF TestsInit
<1>8. stage \notin Working
  BY <1>7 DEF Working
<1>9. Len(forms) <= shape.forms /\ nlabel \in Nat
  BY <1>1, <1>3, <1>7
<1>10. sawExpect \in BOOLEAN /\ test = NoTest
  BY <1>5, <1>7
<1> QED BY <1>1, <1>4, <1>6, <1>7, <1>8, <1>9, <1>10 DEF WalkInv, InTest

LEMMA WalkStep == IInv /\ TestsNext => WalkInv'
<1> SUFFICES ASSUME IInv, TestsNext PROVE WalkInv'
  OBVIOUS
<1>1. WalkInv /\ TestInv
  BY DEF IInv
<1>2. /\ shape \in Shapes /\ shape.forms \in Nat /\ shape.sections \in Nat \ {0} /\ shape.tests \in Nat
      /\ Items \subseteq ItemSet /\ Items \subseteq Kept
  BY <1>1, ShapeIs DEF WalkInv
<1>3. /\ pos \in Positions /\ pos.form \in 1..Len(forms) + 1 /\ pos.section \in 1..shape.sections
      /\ pos.item \in 1..shape.tests + 1 /\ Len(forms) \in Nat
  BY <1>1, PosIs
<1>4. /\ [pos EXCEPT !.item = @ + 1] = [form |-> pos.form, section |-> pos.section, item |-> pos.item + 1]
      /\ [pos EXCEPT !.section = @ + 1, !.item = 1] = [form |-> pos.form, section |-> pos.section + 1, item |-> 1]
  BY <1>3, PosMoves
<1>5. NoTest.items = <<>> /\ <<>> \in Seq(Kept)
  BY DEF NoTest
<1>6. InTest => test \in TestRecords
  BY <1>1 DEF TestInv, TestGood
<1> USE DEF WalkInv, InTest, Working, Kept
<1>7. CASE \E kind \in {"fn", "entry"} : EmitFnForm(kind)
  <2> PICK kind \in {"fn", "entry"} : EmitFnForm(kind)
    BY <1>7
  <2>1. forms' \in Seq({"fn", "entry"}) /\ Len(forms') = Len(forms) + 1
    BY <1>1 DEF EmitFnForm
  <2>2. Len(forms) < shape.forms /\ stage = "forms"
    BY DEF EmitFnForm
  <2>3. pos.form \in 1..Len(forms') + 1 /\ Len(forms') <= shape.forms
    BY <1>2, <1>3, <2>1, <2>2
  <2>4. pos \in [form : 1..Len(forms') + 1, section : 1..shape.sections, item : 1..shape.tests + 1]
    BY <1>1, <2>3
  <2> QED BY <1>1, <2>1, <2>2, <2>3, <2>4 DEF EmitFnForm
<1>8. CASE FormsEmitted
  BY <1>1, <1>8 DEF FormsEmitted
<1>9. CASE SkipItem \/ (\E name \in shape.names, tags \in SUBSET shape.tags : FilterTest(name, tags))
  <2>1. AtItem /\ pos' = [pos EXCEPT !.item = @ + 1] /\ stage = "tests"
        /\ UNCHANGED <<shape, runTests, forms, stage, test, code, nlabel, sawExpect, carried>>
    BY <1>9 DEF SkipItem, FilterTest, AtItem
  <2>2. pos.item + 1 \in 1..shape.tests + 1
    BY <1>2, <1>3, <2>1 DEF AtItem
  <2>3. pos' \in [form : 1..Len(forms) + 1, section : 1..shape.sections, item : 1..shape.tests + 1]
    BY <1>3, <1>4, <2>1, <2>2
  <2> QED BY <1>1, <2>1, <2>3
<1>10. CASE NextSection
  <2>1. pos.section + 1 \in 1..shape.sections /\ 1 \in 1..shape.tests + 1
    BY <1>2, <1>3, <1>10 DEF NextSection
  <2>2. pos' \in [form : 1..Len(forms) + 1, section : 1..shape.sections, item : 1..shape.tests + 1]
    BY <1>3, <1>4, <1>10, <2>1 DEF NextSection
  <2> QED BY <1>1, <1>10, <2>2 DEF NextSection
<1>11. CASE NextForm
  <2>1. pos.form + 1 \in 1..Len(forms) + 1 /\ 1 \in 1..shape.sections /\ 1 \in 1..shape.tests + 1
    BY <1>2, <1>3, <1>11 DEF NextForm
  <2>2. pos' \in [form : 1..Len(forms) + 1, section : 1..shape.sections, item : 1..shape.tests + 1]
    BY <1>11, <2>1 DEF NextForm
  <2> QED BY <1>1, <1>11, <2>2 DEF NextForm
<1>12. CASE \E name \in shape.names, tags \in SUBSET shape.tags, has \in SUBSET shape.blocks : OpenTest(name, tags, has)
  <2> PICK name, tags, has : OpenTest(name, tags, has)
    BY <1>12
  <2>1. stage = "tests" /\ stage' = "setup" /\ pos.form <= Len(forms) /\ pos.item <= shape.tests
        /\ UNCHANGED <<shape, runTests, forms, pos, nlabel>>
    BY DEF OpenTest, AtItem
  <2>2. test' = [NoTest EXCEPT !.name = name, !.tags = tags, !.has = has] /\ sawExpect' = FALSE
    BY DEF OpenTest, SawAtStart
  <2>3. test'.items = <<>>
    BY <2>2 DEF NoTest
  <2>4. test'.items \in Seq(Kept)
    BY <2>3
  <2>5. sawExpect' \in BOOLEAN /\ stage' \in Working
    BY <2>1, <2>2
  <2> QED BY <1>1, <2>1, <2>4, <2>5
<1>13. CASE \E item \in Items : StrayExpect(item) \/ Statement(item) \/ Expect(item)
  <2> PICK item \in Items : StrayExpect(item) \/ Statement(item) \/ Expect(item)
    BY <1>13
  <2>1. PICK x \in Kept : x \in ItemSet /\ test' = Add(x)
    <3>1. item \in ItemSet /\ item \in Kept
      BY <1>2
    <3>2. [item EXCEPT !.kind = "stray"] \in Kept /\ [item EXCEPT !.kind = "stray"] \in ItemSet
      BY <3>1, Strayed
    <3>3. test' = Add(item) \/ test' = Add([item EXCEPT !.kind = "stray"])
      BY DEF StrayExpect, Statement, Expect
    <3> HIDE DEF Kept
    <3> QED BY <3>1, <3>2, <3>3
  <2>2. stage \in Working /\ stage' \in Working
    BY DEF StrayExpect, Statement, Expect
  <2>3. test' = [test EXCEPT !.items = Append(@, x)]
    BY <2>1 DEF Add
  <2>4. test'.items = Append(test.items, x)
    BY <1>6, <2>1, <2>2, <2>3, Added
  <2>5. test'.items \in Seq(Kept)
    BY <1>1, <2>4
  <2>6. /\ UNCHANGED <<shape, runTests, forms, pos>> /\ sawExpect' \in BOOLEAN /\ nlabel' \in Nat
        /\ stage' \in Working
    <3>1. UNCHANGED <<shape, runTests, forms, pos>>
      BY DEF StrayExpect, Statement, Expect
    <3>2. sawExpect' = sawExpect \/ sawExpect' = TRUE
      BY DEF StrayExpect, Statement, Expect
    <3>3. nlabel' = nlabel \/ nlabel' = nlabel + 2 \/ nlabel' = nlabel + 3
      BY DEF StrayExpect, Statement, Expect, LabelsTaken
    <3>4. sawExpect \in BOOLEAN /\ nlabel \in Nat
      BY <1>1
    <3>5. sawExpect' \in BOOLEAN
      BY <3>2, <3>4
    <3>6. nlabel' \in Nat
      BY <3>3, <3>4
    <3> QED BY <2>2, <3>1, <3>5, <3>6
  <2> QED BY <1>1, <2>2, <2>5, <2>6
<1>14. CASE AfterSetup
  <2>1. stage = "setup" /\ stage' \in {"inspect", "body", "rest"}
        /\ UNCHANGED <<shape, runTests, forms, pos, nlabel, sawExpect>>
    BY <1>14 DEF AfterSetup
  <2>2. test'.items = test.items
    BY <1>6, <1>14, <2>1 DEF AfterSetup, TestRecords
  <2> QED BY <1>1, <2>1, <2>2
<1>15. CASE CloseTest
  <2>1. InTest /\ stage' = "tests" /\ pos' = [pos EXCEPT !.item = @ + 1] /\ test' = NoTest /\ code' = <<>> /\ carried' = 0
        /\ UNCHANGED <<shape, runTests, forms, nlabel, sawExpect>>
    BY <1>15 DEF CloseTest
  <2>2. pos.item + 1 \in 1..shape.tests + 1
    BY <1>1, <1>2, <1>3, <2>1
  <2>3. pos' \in [form : 1..Len(forms) + 1, section : 1..shape.sections, item : 1..shape.tests + 1]
    BY <1>3, <1>4, <2>1, <2>2
  <2> QED BY <1>1, <1>5, <2>1, <2>3
<1>16. CASE TestsEmitted
  BY <1>1, <1>16 DEF TestsEmitted
<1>17. CASE CallTest
  BY <1>1, <1>17 DEF CallTest
<1>18. CASE EndMain
  BY <1>1, <1>18 DEF EndMain
<1> QED BY <1>7, <1>8, <1>9, <1>10, <1>11, <1>12, <1>13, <1>14, <1>15, <1>16, <1>17, <1>18 DEF TestsNext

-----------------------------------------------------------------------------
(* The order of the tests, and the calls.                                  *)

LEMMA AsksAndMatches == \A name, tags : Matches(name, tags) <=> Asked(name, tags)
BY DEF Matches, Asked

LEMMA BeforeMore ==
    ASSUME NEW p \in Positions, NEW q \in Positions, NEW r \in Positions, Before(p, q),
           q = r \/ Before(q, r)
    PROVE  Before(p, r)
BY DEF Before, Positions

\* What CloseTest adds, in terms of the phase and the test.
EndOf(ph, saw, lst) ==
    IF ph = "body" THEN <<IF ~saw /\ lst # 0 THEN ReturnStmt("value", lst) ELSE ReturnStmt("zero", 0)>>
    ELSE IF ph = "rest" THEN <<ReturnStmt("zero", 0)>> ELSE <<>>
Closes(f) ==
    /\ funcs' = Append(funcs, f) /\ f \in Compiles
    /\ f.name = <<"test", pos.form, pos.item - 1>> /\ f.pos = pos
    /\ f.items = test.items /\ f.part = test.part /\ f.before = test.before
    /\ f.code = code \o EndOf(stage, sawExpect, carried)

LEMMA EndIs ==
    ASSUME NEW ph, NEW saw, NEW lst \in Nat, NEW p, p = EndOf(ph, saw, lst)
    PROVE  p \in Seq(Lines) /\ Len(p) \in {0, 1} /\ \A k \in 1..Len(p) : p[k].op = "ret"
<1>1. /\ ReturnStmt("value", lst) \in Lines /\ ReturnStmt("value", lst).op = "ret"
      /\ ReturnStmt("zero", 0) \in Lines /\ ReturnStmt("zero", 0).op = "ret"
  BY LinesAre
<1>2. PICK v, z : v = ReturnStmt("value", lst) /\ z = ReturnStmt("zero", 0)
  OBVIOUS
<1>3. v \in Lines /\ v.op = "ret" /\ z \in Lines /\ z.op = "ret"
  BY <1>1, <1>2
<1>4. p = <<v>> \/ p = <<z>> \/ p = <<>>
  BY <1>2 DEF EndOf
<1>5. CASE p = <<v>>
  BY <1>3, <1>5
<1>6. CASE p = <<z>>
  BY <1>3, <1>6
<1>7. CASE p = <<>>
  BY <1>7
<1> QED BY <1>4, <1>5, <1>6, <1>7

LEMMA LastIs ==
    ASSUME TestInv, InTest
    PROVE  carried \in Nat
<1>1. TestGood(stage, test, code, nlabel, sawExpect, carried)
  BY DEF TestInv
<1>2. test.items \in Seq(ItemSet) /\ test.before \in Nat
  BY <1>1 DEF TestGood, TestRecords
<1>3. BlockValues(test) \subseteq Nat
  BY <1>2 DEF BlockValues
<1>4. stage \in {"setup", "rest"} => carried = 0
  BY <1>1 DEF TestGood
<1>5. stage \notin {"setup", "rest"} => carried = 0 \/ carried \in BlockValues(test)
  BY <1>1 DEF TestGood
<1> QED BY <1>3, <1>4, <1>5

LEMMA CloseIs ==
    ASSUME IInv, CloseTest
    PROVE  \E f : Closes(f)
<1>1. WalkInv /\ TestInv
  BY DEF IInv
<1>2. InTest
  BY DEF CloseTest, InTest, Working
<1>3. TestGood(stage, test, code, nlabel, sawExpect, carried)
  BY <1>1, <1>2 DEF TestInv
<1>4. test \in TestRecords /\ code \in Seq(Lines)
  BY <1>3 DEF TestGood
<1>5. pos \in Positions /\ pos.item - 1 \in Nat /\ pos.form \in Nat
  <2>1. pos \in Positions /\ pos.item \in 1..shape.tests + 1 /\ shape.tests \in Nat
    BY <1>1, PosIs, ShapeIs DEF WalkInv
  <2> QED BY <2>1 DEF Positions
<1>6. PICK p : p = EndOf(stage, sawExpect, carried)
  OBVIOUS
<1>7. p \in Seq(Lines)
  BY <1>1, <1>2, <1>6, LastIs, EndIs
<1>8. Ending = p
  BY <1>6 DEF Ending, EndOf, BodyEnd
<1>9. PICK c, n : c = code \o p /\ n = <<"test", pos.form, pos.item - 1>>
  OBVIOUS
<1>10. c \in Seq(Lines) /\ n \in Names
  BY <1>4, <1>5, <1>7, <1>9 DEF Names
<1>11. PICK f : f = [name |-> n, pos |-> pos, items |-> test.items, part |-> test.part,
                     before |-> test.before, code |-> c]
  OBVIOUS
<1>12. f \in Compiles
  BY <1>4, <1>5, <1>10, <1>11 DEF Compiles, TestRecords
<1>13. funcs' = Append(funcs, f)
  BY <1>8, <1>9, <1>11 DEF CloseTest, FuncName
<1>14. Closes(f)
  BY <1>6, <1>9, <1>11, <1>12, <1>13 DEF Closes
<1> QED BY <1>14

LEMMA CallsInit == TestsInit => CallsInv
<1> SUFFICES ASSUME TestsInit PROVE CallsInv
  OBVIOUS
<1>1. funcs = <<>> /\ calls = <<>> /\ wanted = {} /\ stage = "forms"
  BY DEF TestsInit
<1>2. Len(funcs) = 0 /\ Len(calls) = 0 /\ funcs \in Seq(Compiles) /\ calls \in Seq(Names)
  BY <1>1
<1>3. ~InTest
  BY <1>1 DEF InTest, Working
<1>4. \A i : i \notin 1..Len(funcs) /\ i \notin 1..Len(calls)
  BY <1>2
<1>5. {funcs[i].pos : i \in 1..Len(funcs)} = {}
  BY <1>4
<1> QED BY <1>1, <1>2, <1>3, <1>4, <1>5 DEF CallsInv

\* Steps that compile and call nothing.
LEMMA CallsSame ==
    ASSUME CallsInv, UNCHANGED <<runTests, funcs, calls>>, stage' = "forms" => stage = "forms",
           stage' = "done" => Len(calls) = Len(funcs),
           wanted' = {funcs[i].pos : i \in 1..Len(funcs)} \cup (IF InTest' THEN {pos'} ELSE {}),
           stage' = "forms" \/ ~runTests => wanted' = {},
           \A i \in 1..Len(funcs) : Before(funcs[i].pos, pos')
    PROVE  CallsInv'
BY DEF CallsInv

LEMMA CallsStep == IInv /\ TestsNext => CallsInv'
<1> SUFFICES ASSUME IInv, TestsNext PROVE CallsInv'
  OBVIOUS
<1>1. WalkInv /\ CallsInv
  BY DEF IInv
<1>2. /\ pos \in Positions /\ pos.form \in 1..Len(forms) + 1 /\ pos.section \in 1..shape.sections
      /\ pos.item \in 1..shape.tests + 1 /\ Len(forms) \in Nat
  BY <1>1, PosIs
<1>3. funcs \in Seq(Compiles) /\ calls \in Seq(Names) /\ Len(funcs) \in Nat /\ Len(calls) \in Nat
  BY <1>1 DEF CallsInv
<1>4. /\ stage = "forms" \/ ~runTests => funcs = <<>> /\ calls = <<>> /\ wanted = {}
      /\ Len(calls) <= Len(funcs) /\ \A i \in 1..Len(calls) : calls[i] = funcs[i].name
      /\ stage = "done" => Len(calls) = Len(funcs)
  BY <1>1 DEF CallsInv
<1>5. /\ wanted = {funcs[i].pos : i \in 1..Len(funcs)} \cup (IF InTest THEN {pos} ELSE {})
      /\ \A i, j \in 1..Len(funcs) : i < j => Before(funcs[i].pos, funcs[j].pos)
      /\ \A i \in 1..Len(funcs) : Before(funcs[i].pos, pos)
  BY <1>1 DEF CallsInv
<1>6. runTests \/ stage \in {"forms", "done"}
  BY <1>1 DEF WalkInv
<1>7. \A i \in 1..Len(funcs) : funcs[i].pos \in Positions /\ funcs[i].name \in Names
  <2>1. \A f \in Compiles : f.pos \in Positions /\ f.name \in Names
    BY DEF Compiles
  <2> QED BY <1>3, <2>1
<1>8. ASSUME NEW q \in Positions, pos = q \/ Before(pos, q)
      PROVE  \A i \in 1..Len(funcs) : Before(funcs[i].pos, q)
  BY <1>2, <1>5, <1>7, <1>8, BeforeMore
<1>9. CASE \E kind \in {"fn", "entry"} : EmitFnForm(kind)
  <2>1. UNCHANGED <<runTests, funcs, calls, stage, pos, wanted>>
    BY <1>9 DEF EmitFnForm
  <2>2. InTest' <=> InTest
    BY <2>1 DEF InTest
  <2> QED BY <1>1, <2>1, <2>2 DEF CallsInv
<1>10. CASE FormsEmitted
  <2>1. UNCHANGED <<runTests, funcs, calls, pos, wanted>> /\ stage = "forms" /\ stage' \in {"tests", "done"}
        /\ (stage' = "done" => ~runTests)
    BY <1>10 DEF FormsEmitted
  <2>2. ~InTest /\ ~InTest'
    BY <2>1 DEF InTest, Working
  <2>3. Len(calls) = Len(funcs) /\ wanted = {}
    BY <1>4, <2>1
  <2> QED BY <1>1, <1>5, <2>1, <2>2, <2>3, CallsSame
<1>11. CASE \/ SkipItem \/ NextSection \/ NextForm
            \/ \E name \in shape.names, tags \in SUBSET shape.tags : FilterTest(name, tags)
  <2>1. UNCHANGED <<runTests, funcs, calls, stage, wanted>> /\ stage = "tests"
    BY <1>11, AsksAndMatches DEF SkipItem, NextSection, NextForm, FilterTest, AtItem
  <2>2. pos' \in Positions /\ Before(pos, pos')
    <3>1. \/ pos' = [pos EXCEPT !.item = @ + 1]
          \/ pos' = [pos EXCEPT !.section = @ + 1, !.item = 1]
          \/ pos' = [form |-> pos.form + 1, section |-> 1, item |-> 1]
      BY <1>11 DEF SkipItem, NextSection, NextForm, FilterTest
    <3>2. pos.form \in Nat /\ pos.section \in Nat /\ pos.item \in Nat
      BY <1>2 DEF Positions
    <3>3. \/ pos' = [form |-> pos.form, section |-> pos.section, item |-> pos.item + 1]
          \/ pos' = [form |-> pos.form, section |-> pos.section + 1, item |-> 1]
          \/ pos' = [form |-> pos.form + 1, section |-> 1, item |-> 1]
      BY <1>2, <3>1, PosMoves
    <3>4. pos' \in Positions
      BY <3>2, <3>3 DEF Positions
    <3>5. Before(pos, pos')
      BY <3>2, <3>3 DEF Before
    <3> QED BY <3>4, <3>5
  <2>3. ~InTest /\ ~InTest'
    BY <2>1 DEF InTest, Working
  <2>4. \A i \in 1..Len(funcs) : Before(funcs[i].pos, pos')
    BY <1>8, <2>2
  <2>5. runTests
    BY <1>6, <2>1
  <2> QED BY <1>1, <1>5, <2>1, <2>3, <2>4, <2>5, CallsSame
<1>12. CASE \E name \in shape.names, tags \in SUBSET shape.tags, has \in SUBSET shape.blocks : OpenTest(name, tags, has)
  <2> PICK name, tags, has : OpenTest(name, tags, has)
    BY <1>12
  <2>1. UNCHANGED <<runTests, funcs, calls, pos>> /\ stage = "tests" /\ stage' = "setup" /\ wanted' = wanted \cup {pos}
    BY AsksAndMatches DEF OpenTest, AtItem
  <2>2. ~InTest /\ InTest'
    BY <2>1 DEF InTest, Working
  <2>3. runTests
    BY <1>6, <2>1
  <2>4. wanted' = {funcs[i].pos : i \in 1..Len(funcs)} \cup (IF InTest' THEN {pos'} ELSE {})
    BY <1>5, <2>1, <2>2
  <2> QED BY <1>1, <1>5, <2>1, <2>3, <2>4, CallsSame
<1>13. CASE AfterSetup \/ \E item \in Items : StrayExpect(item) \/ Statement(item) \/ Expect(item)
  <2>1. UNCHANGED <<runTests, funcs, calls, pos, wanted>> /\ InTest /\ InTest'
    BY <1>13 DEF AfterSetup, StrayExpect, Statement, Expect, InTest, Working
  <2>2. runTests /\ stage' # "done" /\ stage' # "forms"
    BY <1>6, <2>1 DEF InTest, Working
  <2> QED BY <1>1, <1>5, <2>1, <2>2, CallsSame
<1>14. CASE CloseTest
  <2>1. PICK f : Closes(f)
    BY <1>14, CloseIs
  <2>2. funcs' = Append(funcs, f) /\ f \in Compiles /\ f.pos = pos
    BY <2>1 DEF Closes
  <2>3. UNCHANGED <<runTests, calls, wanted>> /\ InTest /\ stage' = "tests" /\ ~InTest' /\ pos' = [pos EXCEPT !.item = @ + 1]
    BY <1>14 DEF CloseTest, InTest, Working
  <2>4. runTests
    BY <1>6, <2>3 DEF InTest, Working
  <2>5. PICK n : n = Len(funcs)
    OBVIOUS
  <2>6. /\ funcs' \in Seq(Compiles) /\ Len(funcs') = n + 1 /\ funcs'[n + 1] = f /\ n \in Nat
        /\ \A i \in 1..n : funcs'[i] = funcs[i]
    BY <1>3, <2>2, <2>5
  <2>7. pos.form \in Nat /\ pos.section \in Nat /\ pos.item \in Nat
    BY <1>2 DEF Positions
  <2>8. pos' = [form |-> pos.form, section |-> pos.section, item |-> pos.item + 1]
    BY <1>2, <2>3, PosMoves
  <2>9. pos' \in Positions /\ Before(pos, pos')
    BY <2>7, <2>8 DEF Positions, Before
  <2>10. \A i \in 1..n + 1 : i \in 1..n \/ i = n + 1
    BY <2>6
  <2>11. \A i \in 1..n + 1 : Before(funcs'[i].pos, pos')
    <3>1. \A i \in 1..n : Before(funcs[i].pos, pos')
      BY <1>8, <2>5, <2>9
    <3> QED BY <2>2, <2>6, <2>9, <2>10, <3>1
  <2>12. \A i, j \in 1..n + 1 : i < j => Before(funcs'[i].pos, funcs'[j].pos)
    <3> SUFFICES ASSUME NEW i \in 1..n + 1, NEW j \in 1..n + 1, i < j
                 PROVE  Before(funcs'[i].pos, funcs'[j].pos)
      OBVIOUS
    <3>1. i \in 1..n
      BY <2>6
    <3>2. CASE j \in 1..n
      BY <1>5, <2>5, <2>6, <3>1, <3>2
    <3>3. CASE j = n + 1
      BY <1>5, <2>2, <2>5, <2>6, <3>1, <3>3
    <3> QED BY <2>10, <3>2, <3>3
  <2>13. wanted' = {funcs'[i].pos : i \in 1..n + 1}
    <3>1. wanted' = {funcs[i].pos : i \in 1..n} \cup {pos}
      BY <1>5, <2>3, <2>5
    <3>2. n + 1 \in 1..n + 1 /\ 1..n \subseteq 1..n + 1
      BY <2>6
    <3> QED BY <2>2, <2>6, <2>10, <3>1, <3>2
  <2>14. Len(calls) <= n + 1 /\ \A i \in 1..Len(calls) : i \in 1..n /\ calls[i] = funcs'[i].name
    <3>1. Len(calls) <= n
      BY <1>4, <2>5
    <3>2. \A i \in 1..Len(calls) : i \in 1..n
      BY <1>3, <2>6, <3>1
    <3>3. Len(calls) <= n + 1
      BY <1>3, <2>6, <3>1
    <3> QED BY <1>4, <2>6, <3>2, <3>3
  <2> QED BY <1>3, <2>3, <2>4, <2>6, <2>11, <2>12, <2>13, <2>14 DEF CallsInv
<1>15. CASE TestsEmitted
  <2>1. UNCHANGED <<runTests, funcs, calls, pos, wanted>> /\ stage = "tests" /\ stage' = "main"
    BY <1>15 DEF TestsEmitted
  <2>2. ~InTest /\ ~InTest' /\ runTests
    BY <1>6, <2>1 DEF InTest, Working
  <2> QED BY <1>1, <1>5, <2>1, <2>2, CallsSame
<1>16. CASE CallTest
  <2>1. UNCHANGED <<runTests, funcs, stage, pos, wanted>> /\ stage = "main" /\ Len(calls) < Len(funcs)
        /\ calls' = Append(calls, funcs[Len(calls) + 1].name)
    BY <1>16 DEF CallTest
  <2>2. ~InTest /\ ~InTest' /\ runTests
    BY <1>6, <2>1 DEF InTest, Working
  <2>3. Len(calls) + 1 \in 1..Len(funcs)
    BY <1>3, <2>1
  <2>4. PICK n, x : n = Len(calls) /\ x = funcs[n + 1].name
    OBVIOUS
  <2>5. x \in Names
    BY <1>7, <2>3, <2>4
  <2>6. calls' \in Seq(Names) /\ Len(calls') = n + 1 /\ calls'[n + 1] = x /\ \A i \in 1..n : calls'[i] = calls[i]
    BY <1>3, <2>1, <2>4, <2>5
  <2>7. n \in Nat /\ n + 1 <= Len(funcs) /\ \A i \in 1..n + 1 : i \in 1..n \/ i = n + 1
    BY <1>3, <2>3, <2>4
  <2>8. \A i \in 1..n + 1 : calls'[i] = funcs[i].name
    BY <1>4, <2>4, <2>6, <2>7
  <2> QED BY <1>3, <1>5, <2>1, <2>2, <2>6, <2>7, <2>8 DEF CallsInv
<1>17. CASE EndMain
  <2>1. UNCHANGED <<runTests, funcs, calls, pos, wanted>> /\ stage = "main" /\ stage' = "done" /\ Len(calls) = Len(funcs)
    BY <1>17 DEF EndMain
  <2>2. ~InTest /\ ~InTest' /\ runTests
    BY <1>6, <2>1 DEF InTest, Working
  <2> QED BY <1>1, <1>5, <2>1, <2>2, CallsSame
<1> QED BY <1>9, <1>10, <1>11, <1>12, <1>13, <1>14, <1>15, <1>16, <1>17 DEF TestsNext

-----------------------------------------------------------------------------
(* The names of the functions.                                             *)

DefinedNames == FnNames \cup {<<"main">>} \cup Names

LEMMA Apart ==
    /\ \A k, n : <<"fn", k>> = <<"fn", n>> => k = n
    /\ \A k, n, f, i : <<"test", k, n>> = <<"test", f, i>> => k = f /\ n = i
    /\ \A k, f, i : <<"fn", k>> # <<"test", f, i>>
    /\ \A k : <<"fn", k>> # <<"main">>
    /\ \A f, i : <<"test", f, i>> # <<"main">>
OBVIOUS

LEMMA OnceMore ==
    ASSUME NEW names \in Seq(DefinedNames), NEW fs \in Seq(Compiles), NEW gs \in Seq(Compiles), OnceIn(names, fs),
           \A i \in 1..Len(fs) : i \in 1..Len(gs) /\ gs[i] = fs[i],
           NEW x, \A i \in 1..Len(names) : names[i] = x =>
              \E f, g \in 1..Len(gs) : gs[f].name = x /\ gs[g].name = x /\ gs[f].pos.section # gs[g].pos.section
    PROVE  OnceIn(Append(names, x), gs)
<1> DEFINE new == Append(names, x)
<1>1. PICK n : n = Len(names)
  OBVIOUS
<1>2. n \in Nat /\ Len(new) = n + 1 /\ new[n + 1] = x /\ \A i \in 1..n : new[i] = names[i]
  BY <1>1
<1>3. \A i \in 1..n + 1 : i \in 1..n \/ i = n + 1
  BY <1>2
<1> SUFFICES OnceIn(new, gs)
  OBVIOUS
<1> HIDE DEF new
<1> SUFFICES ASSUME NEW i \in 1..Len(new), NEW j \in 1..Len(new), i # j, new[i] = new[j]
             PROVE  OfSections(gs, new[i], new[j])
  BY DEF OnceIn
<1>a. i \in 1..n + 1 /\ j \in 1..n + 1
  BY <1>2
<1>4. CASE i \in 1..n /\ j \in 1..n
  <2>1. OfSections(fs, names[i], names[j])
    BY <1>1, <1>2, <1>4 DEF OnceIn
  <2>2. PICK f \in 1..Len(fs), g \in 1..Len(fs) :
           fs[f].name = names[i] /\ fs[g].name = names[j] /\ fs[f].pos.section # fs[g].pos.section
    BY <2>1 DEF OfSections
  <2>3. /\ f \in 1..Len(gs) /\ g \in 1..Len(gs) /\ gs[f] = fs[f] /\ gs[g] = fs[g]
        /\ new[i] = names[i] /\ new[j] = names[j]
    BY <1>2, <1>4
  <2>4. gs[f].name = new[i] /\ gs[g].name = new[j] /\ gs[f].pos.section # gs[g].pos.section
    BY <2>2, <2>3
  <2> QED BY <2>3, <2>4 DEF OfSections
<1>5. CASE i = n + 1 \/ j = n + 1
  <2>1. PICK k \in 1..n : names[k] = x
    BY <1>a, <1>2, <1>3, <1>5
  <2>2. new[i] = x /\ new[j] = x
    BY <1>2, <1>5
  <2>3. OfSections(gs, x, x)
    BY <1>1, <2>1 DEF OfSections
  <2> QED BY <2>2, <2>3
<1> QED BY <1>a, <1>3, <1>4, <1>5

LEMMA NamesInit == TestsInit => NamesInv
<1> SUFFICES ASSUME TestsInit PROVE NamesInv
  OBVIOUS
<1>1. defined = <<>> /\ funcs = <<>>
  BY DEF TestsInit
<1>2. defined \in Seq(DefinedNames) /\ \A i : i \notin 1..Len(defined) /\ i \notin 1..Len(funcs)
  BY <1>1
<1> QED BY <1>2 DEF NamesInv, OnceIn, DefinedNames

LEMMA NamesSame ==
    ASSUME NamesInv, UNCHANGED <<defined, funcs, forms, runTests>>,
           stage \in {"main", "done"} => stage' \in {"main", "done"}
    PROVE  NamesInv'
BY DEF NamesInv

\* One more name, and maybe one more function.
LEMMA NamesMore ==
    ASSUME NamesInv, funcs \in Seq(Compiles), funcs' \in Seq(Compiles), NEW x \in DefinedNames,
           defined' = Append(defined, x), runTests' = runTests, forms \in Seq({"fn", "entry"}),
           Len(forms) <= Len(forms'), \A i \in 1..Len(forms) : i \in 1..Len(forms') /\ forms'[i] = forms[i], Len(forms') \in Nat,
           stage \in {"main", "done"} => stage' \in {"main", "done"},
           \A i \in 1..Len(funcs) : i \in 1..Len(funcs') /\ funcs'[i] = funcs[i],
           \A i \in 1..Len(defined) : defined[i] = x =>
              \E f, g \in 1..Len(funcs') :
                 funcs'[f].name = x /\ funcs'[g].name = x /\ funcs'[f].pos.section # funcs'[g].pos.section,
           \A f \in 1..Len(funcs') : funcs'[f].name = <<"test", funcs'[f].pos.form, funcs'[f].pos.item - 1>>,
           \A k \in Nat : x = <<"fn", k>> => k <= Len(forms'),
           x \in Names => \E f \in 1..Len(funcs') : funcs'[f].name = x,
           x = <<"main">> => \/ runTests' /\ stage' \in {"main", "done"}
                             \/ ~runTests' /\ \E k \in 1..Len(forms') : forms'[k] = "entry"
    PROVE  NamesInv'
<1>1. PICK n : n = Len(defined)
  OBVIOUS
<1>2. /\ OnceIn(defined, funcs) /\ defined \in Seq(DefinedNames)
      /\ \A i \in 1..n : \A k \in Nat : defined[i] = <<"fn", k>> => k <= Len(forms)
      /\ \A i \in 1..n : defined[i] \in Names => \E f \in 1..Len(funcs) : funcs[f].name = defined[i]
      /\ \A i \in 1..n : defined[i] = <<"main">> =>
          \/ runTests /\ stage \in {"main", "done"}
          \/ ~runTests /\ \E k \in 1..Len(forms) : forms[k] = "entry"
  BY <1>1 DEF NamesInv, DefinedNames
<1>3. /\ defined' \in Seq(DefinedNames) /\ Len(defined') = n + 1 /\ n \in Nat /\ Len(forms) \in Nat
      /\ defined'[n + 1] = x /\ \A i \in 1..n : defined'[i] = defined[i]
  BY <1>1, <1>2
<1>4. \A i \in 1..n + 1 : i \in 1..n \/ i = n + 1
  BY <1>3
<1>5. OnceIn(defined', funcs')
  <2>1. OnceIn(Append(defined, x), funcs')
    BY <1>2, OnceMore
  <2> QED BY <2>1
<1>6. \A i \in 1..n + 1 : \A k \in Nat : defined'[i] = <<"fn", k>> => k <= Len(forms')
  <2>1. \A k \in Nat : k <= Len(forms) => k <= Len(forms')
    BY <1>3
  <2> SUFFICES ASSUME NEW i \in 1..n + 1, NEW k \in Nat, defined'[i] = <<"fn", k>> PROVE k <= Len(forms')
    OBVIOUS
  <2>2. CASE i \in 1..n
    <3>1. defined[i] = <<"fn", k>>
      BY <1>3, <2>2
    <3> QED BY <1>2, <2>1, <2>2, <3>1
  <2>3. CASE i = n + 1
    BY <1>3, <2>3
  <2> QED BY <1>4, <2>2, <2>3
<1>7. \A i \in 1..n + 1 : defined'[i] \in Names => \E f \in 1..Len(funcs') : funcs'[f].name = defined'[i]
  <2> SUFFICES ASSUME NEW i \in 1..n, defined[i] \in Names
               PROVE  \E f \in 1..Len(funcs') : funcs'[f].name = defined[i]
    BY <1>3, <1>4
  <2>1. PICK f \in 1..Len(funcs) : funcs[f].name = defined[i]
    BY <1>2
  <2>2. f \in 1..Len(funcs') /\ funcs'[f] = funcs[f]
    OBVIOUS
  <2> QED BY <2>1, <2>2
<1>8. \A i \in 1..n + 1 : defined'[i] = <<"main">> =>
          \/ runTests' /\ stage' \in {"main", "done"}
          \/ ~runTests' /\ \E k \in 1..Len(forms') : forms'[k] = "entry"
  <2> SUFFICES ASSUME NEW i \in 1..n + 1, defined'[i] = <<"main">>
               PROVE  \/ runTests' /\ stage' \in {"main", "done"}
                      \/ ~runTests' /\ \E k \in 1..Len(forms') : forms'[k] = "entry"
    OBVIOUS
  <2>1. CASE i = n + 1
    BY <1>3, <2>1
  <2>2. CASE i \in 1..n
    <3>1. \/ runTests /\ stage \in {"main", "done"}
          \/ ~runTests /\ \E k \in 1..Len(forms) : forms[k] = "entry"
      BY <1>2, <1>3, <2>2
    <3>2. CASE runTests /\ stage \in {"main", "done"}
      BY <3>2
    <3>3. CASE ~runTests /\ \E k \in 1..Len(forms) : forms[k] = "entry"
      <4>1. PICK k \in 1..Len(forms) : forms[k] = "entry"
        BY <3>3
      <4>2. k \in 1..Len(forms') /\ forms'[k] = "entry" /\ ~runTests'
        BY <3>3, <4>1
      <4> QED BY <4>2
    <3> QED BY <3>1, <3>2, <3>3
  <2> QED BY <1>4, <2>1, <2>2
<1> QED BY <1>3, <1>5, <1>6, <1>7, <1>8 DEF NamesInv, DefinedNames

LEMMA NamesStep == IInv /\ TestsNext => NamesInv'
<1> SUFFICES ASSUME IInv, TestsNext PROVE NamesInv'
  OBVIOUS
<1>1. WalkInv /\ CallsInv /\ NamesInv
  BY DEF IInv
<1>2. pos \in Positions /\ Len(forms) \in Nat /\ forms \in Seq({"fn", "entry"})
  BY <1>1, PosIs DEF WalkInv
<1>3. funcs \in Seq(Compiles) /\ Len(funcs) \in Nat
  BY <1>1 DEF CallsInv
<1>4. \A f \in 1..Len(funcs) : funcs[f].name = <<"test", funcs[f].pos.form, funcs[f].pos.item - 1>> /\ funcs[f].name \in Names
  <2>1. \A f \in Compiles : f.name \in Names
    BY DEF Compiles
  <2> QED BY <1>1, <1>3, <2>1 DEF NamesInv
<1>5. /\ \A i \in 1..Len(defined) : \A k \in Nat : defined[i] = <<"fn", k>> => k <= Len(forms)
      /\ \A i \in 1..Len(defined) : defined[i] \in Names => \E f \in 1..Len(funcs) : funcs[f].name = defined[i]
      /\ \A i \in 1..Len(defined) : defined[i] = <<"main">> =>
          \/ runTests /\ stage \in {"main", "done"}
          \/ ~runTests /\ \E k \in 1..Len(forms) : forms[k] = "entry"
      /\ defined \in Seq(DefinedNames)
  BY <1>1 DEF NamesInv, DefinedNames
<1>6. CASE \E kind \in {"fn", "entry"} : EmitFnForm(kind)
  <2> PICK kind \in {"fn", "entry"} : EmitFnForm(kind)
    BY <1>6
  <2>1. UNCHANGED <<runTests, stage, funcs>> /\ stage = "forms" /\ forms' = Append(forms, kind)
        /\ defined' = defined \o FnFormNames(kind) /\ (kind = "entry" => \A i \in 1..Len(forms) : forms[i] # "entry")
    BY DEF EmitFnForm
  <2>2. PICK n : n = Len(forms)
    OBVIOUS
  <2>3. n \in Nat /\ Len(forms') = n + 1 /\ forms'[n + 1] = kind /\ n <= n + 1
        /\ \A i \in 1..n : i \in 1..n + 1 /\ forms'[i] = forms[i]
    BY <1>2, <2>1, <2>2
  <2>4. CASE kind = "fn"
    <3>1. PICK x : x = <<"fn", n + 1>>
      OBVIOUS
    <3>2. defined' = Append(defined, x)
      BY <1>5, <2>1, <2>2, <2>4, <3>1 DEF FnFormNames
    <3>3. x \in DefinedNames /\ x \notin Names /\ x # <<"main">> /\ \A k \in Nat : x = <<"fn", k>> => k <= n + 1
      <4>1. x \in FnNames
        BY <2>3, <3>1 DEF FnNames
      <4>2. x \notin Names /\ x # <<"main">>
        BY <3>1, Apart DEF Names
      <4>3. \A k \in Nat : x = <<"fn", k>> => k = n + 1
        BY <3>1, Apart
      <4> QED BY <2>3, <4>1, <4>2, <4>3 DEF DefinedNames
    <3>4. \A i \in 1..Len(defined) : defined[i] # x
      <4>1. n + 1 \in Nat /\ ~(n + 1 <= n)
        BY <2>3
      <4> QED BY <1>5, <2>2, <3>1, <4>1
    <3> QED BY <1>1, <1>2, <1>3, <1>4, <2>1, <2>2, <2>3, <3>2, <3>3, <3>4, NamesMore
  <2>5. CASE kind = "entry" /\ ~runTests
    <3>1. PICK x : x = <<"main">>
      OBVIOUS
    <3>2. defined' = Append(defined, x)
      BY <1>5, <2>1, <2>5, <3>1 DEF FnFormNames
    <3>3. x \in DefinedNames /\ x \notin Names /\ \A k \in Nat : x # <<"fn", k>>
      <4>1. x \notin Names /\ \A k \in Nat : x # <<"fn", k>>
        BY <3>1, Apart DEF Names
      <4> QED BY <3>1, <4>1 DEF DefinedNames
    <3>4. \A i \in 1..Len(defined) : defined[i] # x
      BY <1>5, <2>1, <2>5, <3>1
    <3>5. n + 1 \in 1..Len(forms') /\ forms'[n + 1] = "entry" /\ ~runTests'
      BY <2>1, <2>3, <2>5
    <3> QED BY <1>1, <1>2, <1>3, <1>4, <2>1, <2>2, <2>3, <3>2, <3>3, <3>4, <3>5, NamesMore
  <2>6. CASE kind = "entry" /\ runTests
    <3>1. defined' = defined
      BY <1>5, <2>1, <2>6 DEF FnFormNames
    <3>2. \A i \in 1..Len(defined) : \A k \in Nat : defined[i] = <<"fn", k>> => k <= Len(forms')
      <4>1. \A k \in Nat : k <= n => k <= n + 1
        BY <2>3
      <4> QED BY <1>5, <2>2, <2>3, <4>1
    <3>3. \A i \in 1..Len(defined) : defined[i] # <<"main">>
      BY <1>5, <2>1, <2>6
    <3> QED BY <1>1, <1>4, <2>1, <3>1, <3>2, <3>3 DEF NamesInv
  <2> QED BY <1>1, <2>4, <2>5, <2>6 DEF WalkInv
<1>7. CASE \/ FormsEmitted \/ SkipItem \/ NextSection \/ NextForm \/ AfterSetup \/ CallTest \/ EndMain
           \/ \E name \in shape.names, tags \in SUBSET shape.tags : FilterTest(name, tags)
           \/ \E name \in shape.names, tags \in SUBSET shape.tags, has \in SUBSET shape.blocks : OpenTest(name, tags, has)
           \/ \E item \in Items : StrayExpect(item) \/ Statement(item) \/ Expect(item)
  <2>1. UNCHANGED <<defined, funcs, forms, runTests>>
    BY <1>7 DEF FormsEmitted, SkipItem, NextSection, NextForm, AfterSetup, CallTest, EndMain, FilterTest, OpenTest,
                StrayExpect, Statement, Expect
  <2>2. stage \in {"main", "done"} => stage' \in {"main", "done"}
    BY <1>7 DEF FormsEmitted, SkipItem, NextSection, NextForm, AfterSetup, CallTest, EndMain, FilterTest, OpenTest,
                StrayExpect, Statement, Expect, AtItem
  <2> QED BY <1>1, <2>1, <2>2, NamesSame
<1>8. CASE CloseTest
  <2>1. PICK f : Closes(f)
    BY <1>8, CloseIs
  <2>2. funcs' = Append(funcs, f) /\ f \in Compiles /\ f.pos = pos /\ f.name = <<"test", pos.form, pos.item - 1>>
    BY <2>1 DEF Closes
  <2>3. PICK x : x = <<"test", pos.form, pos.item - 1>>
    OBVIOUS
  <2>4. UNCHANGED <<runTests, forms>> /\ stage \notin {"main", "done"} /\ defined' = Append(defined, x)
    BY <1>8, <2>3 DEF CloseTest, FuncName
  <2>5. PICK n : n = Len(funcs)
    OBVIOUS
  <2>6. /\ funcs' \in Seq(Compiles) /\ Len(funcs') = n + 1 /\ funcs'[n + 1] = f /\ n \in Nat
        /\ \A i \in 1..n : i \in 1..n + 1 /\ funcs'[i] = funcs[i]
    BY <1>3, <2>2, <2>5
  <2>7. \A i \in 1..n + 1 : i \in 1..n \/ i = n + 1
    BY <2>6
  <2>8. n + 1 \in 1..Len(funcs') /\ funcs'[n + 1].name = x /\ x \in Names
    <3>1. f.name \in Names
      BY <2>2 DEF Compiles
    <3> QED BY <2>2, <2>3, <2>6, <3>1
  <2>9. \A k : x # <<"fn", k>> /\ x # <<"main">>
    BY <2>3, Apart
  <2>10. \A i \in 1..Len(funcs') : funcs'[i].name = <<"test", funcs'[i].pos.form, funcs'[i].pos.item - 1>>
    BY <1>4, <2>2, <2>5, <2>6, <2>7
  <2>11. ASSUME NEW i \in 1..Len(defined), defined[i] = x
         PROVE  \E a, b \in 1..Len(funcs') :
                   funcs'[a].name = x /\ funcs'[b].name = x /\ funcs'[a].pos.section # funcs'[b].pos.section
    <3>1. PICK g \in 1..Len(funcs) : funcs[g].name = x
      BY <1>5, <2>8, <2>11
    <3>2. PICK p : p = funcs[g].pos
      OBVIOUS
    <3>3. p.form = pos.form /\ p.item - 1 = pos.item - 1
      BY <1>4, <2>3, <3>1, <3>2, Apart
    <3>4. p \in Positions
      <4>1. \A y \in Compiles : y.pos \in Positions
        BY DEF Compiles
      <4> QED BY <1>3, <3>1, <3>2, <4>1
    <3>5. p.item \in Nat /\ pos.item \in Nat /\ p.form \in Nat /\ p.section \in Nat /\ pos.section \in Nat
      BY <1>2, <3>4 DEF Positions
    <3>6. Before(p, pos)
      BY <1>1, <3>1, <3>2 DEF CallsInv
    <3>7. p.section # pos.section
      BY <3>3, <3>5, <3>6 DEF Before
    <3>8. g \in 1..Len(funcs') /\ funcs'[g].name = x /\ funcs'[g].pos.section # funcs'[n + 1].pos.section
      BY <2>2, <2>5, <2>6, <3>1, <3>2, <3>7
    <3> QED BY <2>8, <3>8
  <2>12. x \in DefinedNames
    BY <2>8 DEF DefinedNames
  <2>13. Len(forms') \in Nat /\ Len(forms) <= Len(forms') /\ \A i \in 1..Len(forms) : i \in 1..Len(forms') /\ forms'[i] = forms[i]
    BY <1>2, <2>4
  <2> QED BY <1>1, <1>2, <1>3, <2>4, <2>5, <2>6, <2>8, <2>9, <2>10, <2>11, <2>12, <2>13, NamesMore
<1>9. CASE TestsEmitted
  <2>1. PICK x : x = <<"main">>
    OBVIOUS
  <2>2. UNCHANGED <<runTests, forms, funcs>> /\ stage = "tests" /\ stage' = "main" /\ defined' = Append(defined, x)
    BY <1>9, <2>1 DEF TestsEmitted
  <2>3. runTests
    BY <1>1, <2>2 DEF WalkInv
  <2>4. x \in DefinedNames /\ x \notin Names /\ \A k \in Nat : x # <<"fn", k>>
    <3>1. x \notin Names /\ \A k \in Nat : x # <<"fn", k>>
      BY <2>1, Apart DEF Names
    <3> QED BY <2>1, <3>1 DEF DefinedNames
  <2>5. \A i \in 1..Len(defined) : defined[i] # x
    BY <1>5, <2>1, <2>2, <2>3
  <2>6. Len(forms') \in Nat /\ Len(forms) <= Len(forms') /\ \A i \in 1..Len(forms) : i \in 1..Len(forms') /\ forms'[i] = forms[i]
    BY <1>2, <2>2
  <2> QED BY <1>1, <1>2, <1>3, <1>4, <2>2, <2>3, <2>4, <2>5, <2>6, NamesMore
<1> QED BY <1>6, <1>7, <1>8, <1>9 DEF TestsNext

-----------------------------------------------------------------------------
(* The test that is compiled.                                              *)

NoNe(items) == \A k \in 1..Len(items) : ~IsNe(items[k].kind)

\* The test t with an item more, after n of them.
GrownTo(t, item, u, n) ==
    /\ u \in TestRecords /\ u.part = t.part /\ u.before = t.before /\ u.items = Append(t.items, item)
    /\ n \in Nat /\ Len(u.items) = n + 1 /\ u.before <= n + 1
    /\ Expects(u) = IF item.kind \in ExpectKinds THEN Expects(t) \cup {n + 1} ELSE Expects(t)
    /\ ReturnsAt(u) = IF item.kind = "return" THEN ReturnsAt(t) \cup {n + 1} ELSE ReturnsAt(t)
    /\ BlockValues(u) = IF item.kind = "value" THEN BlockValues(t) \cup {n + 1} ELSE BlockValues(t)
    /\ BlockValues(t) \subseteq 1..n /\ n + 1 \notin BlockValues(t)
    /\ NoNe(u.items) => NoNe(t.items) /\ ~IsNe(item.kind)

LEMMA Grown ==
    ASSUME NEW t \in TestRecords, t.before <= Len(t.items), NEW item \in ItemSet, NEW u, u = [t EXCEPT !.items = Append(@, item)]
    PROVE  GrownTo(t, item, u, Len(t.items))
<1> PICK n : n = Len(t.items)
  OBVIOUS
<1> SUFFICES GrownTo(t, item, u, n)
  OBVIOUS
<1>1. u \in TestRecords /\ u.part = t.part /\ u.before = t.before /\ u.items = Append(t.items, item)
  BY Added
<1>2. t.items \in Seq(ItemSet) /\ t.before \in Nat
  BY DEF TestRecords
<1>3. PICK items, new : items = t.items /\ new = u.items
  OBVIOUS
<1>4. n \in Nat /\ Len(new) = n + 1 /\ new[n + 1] = item /\ \A k \in 1..n : new[k] = items[k]
  BY <1>1, <1>2, <1>3
<1>5. \A k : k \in 1..n + 1 <=> (k \in 1..n \/ k = n + 1)
  BY <1>4
<1>6. n + 1 \notin 1..n
  BY <1>4
<1>7. PICK b \in Nat : b = t.before
  BY <1>2
<1>8. /\ \A k : k \in b + 1..n + 1 <=> (k \in b + 1..n \/ k = n + 1)
      /\ \A k \in b + 1..n : k \in 1..n
  BY <1>4, <1>7
<1>9. Expects(u) = IF item.kind \in ExpectKinds THEN Expects(t) \cup {n + 1} ELSE Expects(t)
  <2>1. Expects(u) = {k \in 1..n + 1 : new[k].kind \in ExpectKinds} /\ Expects(t) = {k \in 1..n : items[k].kind \in ExpectKinds}
    BY <1>3, <1>4 DEF Expects
  <2> QED BY <1>4, <1>5, <1>6, <2>1
<1>10. ReturnsAt(u) = IF item.kind = "return" THEN ReturnsAt(t) \cup {n + 1} ELSE ReturnsAt(t)
  <2>1. ReturnsAt(u) = {k \in 1..n + 1 : new[k].kind = "return"} /\ ReturnsAt(t) = {k \in 1..n : items[k].kind = "return"}
    BY <1>3, <1>4 DEF ReturnsAt
  <2>2. \A k : k \in ReturnsAt(u) <=> k \in ReturnsAt(t) \/ (item.kind = "return" /\ k = n + 1)
    BY <1>4, <1>5, <1>6, <2>1
  <2> QED BY <2>2
<1>11. BlockValues(t) = {k \in b + 1..n : items[k].kind = "value"}
  BY <1>3, <1>7 DEF BlockValues
<1>12. BlockValues(u) = IF item.kind = "value" THEN BlockValues(t) \cup {n + 1} ELSE BlockValues(t)
  <2>1. BlockValues(u) = {k \in b + 1..n + 1 : new[k].kind = "value"}
    BY <1>1, <1>3, <1>4, <1>7 DEF BlockValues
  <2>2. \A k : k \in BlockValues(u) <=> k \in BlockValues(t) \/ (item.kind = "value" /\ k = n + 1)
    BY <1>4, <1>6, <1>8, <1>11, <2>1
  <2> QED BY <2>2
<1>13. BlockValues(t) \subseteq 1..n /\ n + 1 \notin BlockValues(t)
  BY <1>6, <1>8, <1>11
<1>14. NoNe(u.items) => NoNe(t.items) /\ ~IsNe(item.kind)
  BY <1>3, <1>4, <1>5 DEF NoNe
<1>15. u.before <= n + 1
  BY <1>1, <1>4, <1>7
<1> QED BY <1>1, <1>3, <1>4, <1>9, <1>10, <1>12, <1>13, <1>14, <1>15 DEF GrownTo

\* The conjuncts of TestGood that are about the text.
TextGood(t, c, n, closed) ==
    /\ c \in Seq(Lines) /\ \E s : Laid(c, t.items, s, Len(c) + 1)
    /\ NoNe(t.items) => Sound(c, n)
    /\ EndsInTerminator(c) <=> closed
DataGood(ph, t, saw, lst) ==
    /\ t \in TestRecords /\ PartOf(ph, t.part) /\ t.before <= Len(t.items)
    /\ ReturnsAt(t) = IF HasReturned(ph, t) THEN {Len(t.items)} ELSE {}
    /\ ph \in {"setup", "rest"} => Expects(t) = {} /\ lst = 0
    /\ saw <=> Expects(t) # {}
    /\ ph \notin {"setup", "rest"} =>
          \/ lst = 0 /\ BlockValues(t) = {}
          \/ lst \in BlockValues(t) /\ \A v \in BlockValues(t) : v <= lst

LEMMA GoodIs ==
    \A ph, t, c, n, saw, lst :
        TestGood(ph, t, c, n, saw, lst) <=> DataGood(ph, t, saw, lst) /\ TextGood(t, c, n, HasReturned(ph, t))
BY DEF TestGood, DataGood, TextGood, NoNe

\* T is the text c of the test t, and after it the item.
ItemWritten(t, c, item, u, T) ==
    /\ t \in TestRecords /\ t.before <= Len(t.items) /\ item \in ItemSet
    /\ u = [t EXCEPT !.items = Append(@, item)]
    /\ T \in Seq(Lines) /\ Len(T) >= Len(c) /\ \A i \in 1..Len(c) : T[i] = c[i]
    /\ Stands(T, item, Len(t.items) + 1, Len(c) + 1, Len(T) + 1)

LEMMA TextItem ==
    ASSUME NEW t, NEW c, NEW n, TextGood(t, c, n, FALSE), NEW item, NEW u, NEW T, ItemWritten(t, c, item, u, T),
           NEW m, NoNe(t.items) /\ ~IsNe(item.kind) /\ Sound(c, n) => Sound(T, m),
           NEW closed, EndsInTerminator(T) <=> closed
    PROVE  TextGood(u, T, m, closed)
<1>0. /\ t \in TestRecords /\ t.before <= Len(t.items) /\ item \in ItemSet
      /\ u = [t EXCEPT !.items = Append(@, item)]
      /\ T \in Seq(Lines) /\ Len(T) >= Len(c) /\ \A i \in 1..Len(c) : T[i] = c[i]
      /\ Stands(T, item, Len(t.items) + 1, Len(c) + 1, Len(T) + 1)
  BY DEF ItemWritten
<1>1. c \in Seq(Lines) /\ t.items \in Seq(ItemSet)
  BY <1>0 DEF TextGood, TestRecords
<1>2. PICK s : Laid(c, t.items, s, Len(c) + 1)
  BY DEF TextGood
<1>3. \E r : Laid(T, Append(t.items, item), r, Len(T) + 1)
  BY <1>0, <1>1, <1>2, LaidItem
<1>4. u.items = Append(t.items, item)
  BY <1>0, Added
<1>5. NoNe(u.items) => NoNe(t.items) /\ ~IsNe(item.kind)
  <2>1. GrownTo(t, item, u, Len(t.items))
    BY <1>0, Grown
  <2> QED BY <2>1 DEF GrownTo
<1>6. NoNe(u.items) => Sound(T, m)
  BY <1>5 DEF TextGood
<1> QED BY <1>0, <1>3, <1>4, <1>6 DEF TextGood

LEMMA TextStmt ==
    ASSUME NEW t \in TestRecords, t.before <= Len(t.items), NEW c, NEW n \in Nat, TextGood(t, c, n, FALSE),
           NEW item \in ItemSet, item.kind \in StmtKinds, NEW u, u = [t EXCEPT !.items = Append(@, item)],
           NEW T, T = c \o StmtLines(item.kind, Len(t.items) + 1)
    PROVE  TextGood(u, T, n, item.kind = "return")
<1> DEFINE k == Len(t.items) + 1
           m == Len(c)
<1>1. c \in Seq(Lines) /\ k \in Nat
  BY DEF TextGood, TestRecords
<1> HIDE DEF k
<1>2. PICK p : p = StmtLines(item.kind, k)
  OBVIOUS
<1>3. /\ p \in Seq(Lines) /\ \A i \in 1..Len(p) : p[i].op \in {"inst", "ret"}
      /\ item.kind = "return" => Len(p) = 2 /\ p[1] = Work(k) /\ p[2] = ReturnStmt("value", k)
      /\ item.kind # "return" => Len(p) = 1 /\ p[1] = Work(k)
  BY <1>1, <1>2, StmtPiece
<1>4. T = c \o p
  BY <1>2 DEF k
<1>5. T \in Seq(Lines) /\ Len(T) = m + Len(p) /\ m \in Nat /\ (\A i \in 1..m : T[i] = c[i]) /\ \A i \in 1..Len(p) : T[m + i] = p[i]
  <2>1. /\ c \o p \in Seq(Lines) /\ Len(c \o p) = m + Len(p) /\ m \in Nat
        /\ (\A i \in 1..m : (c \o p)[i] = c[i]) /\ \A i \in 1..Len(p) : (c \o p)[m + i] = p[i]
    BY <1>1, <1>3, Joined
  <2> QED BY <1>4, <2>1
<1> HIDE DEF m
<1>6. Stands(T, item, k, Len(c) + 1, Len(T) + 1)
  BY <1>1, <1>2, <1>4, StmtStands
<1>7. Sound(c, n) => Sound(T, n)
  BY <1>3, <1>4, SoundPlain
<1>8. EndsInTerminator(T) <=> item.kind = "return"
  <2>1. Work(k).op = "inst" /\ ReturnStmt("value", k).op = "ret"
    BY <1>1, LinesAre
  <2>2. CASE item.kind = "return"
    <3>1. Len(p) = 2 /\ p[2].op = "ret"
      BY <1>3, <2>1, <2>2
    <3>2. Len(T) = m + 2 /\ T[m + 2].op = "ret"
      <4>1. 2 \in 1..Len(p)
        BY <3>1
      <4>2. T[m + 2] = p[2]
        BY <1>5, <4>1
      <4> QED BY <1>5, <3>1, <4>2
    <3>3. T # <<>> /\ T[Len(T)].op = "ret"
      <4>1. Len(T) # 0
        BY <1>5, <3>2
      <4>2. T # <<>>
        BY <4>1
      <4> QED BY <3>2, <4>2
    <3> QED BY <2>2, <3>3 DEF EndsInTerminator, IsTerminator
  <2>3. CASE item.kind # "return"
    <3>1. Len(p) = 1 /\ p[1].op = "inst"
      BY <1>3, <2>1, <2>3
    <3>2. Len(T) = m + 1 /\ T[m + 1].op = "inst"
      <4>1. 1 \in 1..Len(p)
        BY <3>1
      <4>2. T[m + 1] = p[1]
        BY <1>5, <4>1
      <4> QED BY <1>5, <3>1, <4>2
    <3>3. T[Len(T)].op = "inst"
      BY <3>2
    <3> QED BY <2>3, <3>3 DEF EndsInTerminator, IsTerminator
  <2> QED BY <2>2, <2>3
<1>9. Len(T) >= Len(c) /\ \A i \in 1..Len(c) : T[i] = c[i]
  <2>1. Len(T) >= m
    BY <1>3, <1>5
  <2> QED BY <1>5, <2>1 DEF m
<1>10. ItemWritten(t, c, item, u, T)
  BY <1>5, <1>6, <1>9 DEF k, ItemWritten
<1> QED BY <1>7, <1>8, <1>10, TextItem

LEMMA TextExpect ==
    ASSUME NEW t \in TestRecords, t.before <= Len(t.items), NEW c, NEW n \in Nat, TextGood(t, c, n, FALSE),
           NEW item \in ItemSet, item.kind \in ExpectKinds, NEW u, u = [t EXCEPT !.items = Append(@, item)],
           NEW T, T = c \o Reported(item, Len(t.items) + 1, n)
    PROVE  TextGood(u, T, n + LabelsTaken(item.kind), FALSE)
<1> DEFINE k == Len(t.items) + 1
           m == Len(c)
           l == n + LabelsTaken(item.kind)
<1>1. c \in Seq(Lines) /\ k \in Nat /\ l \in Nat
  BY DEF TextGood, TestRecords, LabelsTaken
<1>2. PICK p : p = Reported(item, k, n)
  OBVIOUS
<1>3. T = c \o p
  BY <1>2
<1> HIDE DEF k
<1>4. p \in Seq(Lines) /\ p # <<>> /\ p[Len(p)].op = "label" /\ Stands(T, item, k, Len(c) + 1, Len(T) + 1)
      /\ (~IsNe(item.kind) /\ Sound(c, n) => Sound(T, l))
  <2>1. LabelLine(n).op = "label"
    BY JumpsAre
  <2>2. CASE IsNe(item.kind)
    <3>1. p = ExpectNeLines(item, k, n)
      BY <1>2, <2>2 DEF Reported, Desugared
    <3>2. p \in Seq(Lines) /\ Len(p) = 8 /\ p[8] = LabelLine(n)
      BY <1>1, <3>1, NePiece
    <3>3. Stands(T, item, k, Len(c) + 1, Len(T) + 1)
      BY <1>1, <1>3, <2>2, <3>1, NeStands
    <3>4. p # <<>> /\ p[Len(p)].op = "label"
      <4>1. Len(p) = 8 /\ Len(p) # 0
        BY <3>2
      <4>2. Len(<<>>) = 0
        OBVIOUS
      <4>3. p # <<>>
        BY <4>1, <4>2
      <4> QED BY <2>1, <3>2, <4>3
    <3> QED BY <2>2, <3>2, <3>3, <3>4
  <2>3. CASE ~IsNe(item.kind)
    <3>1. p = ExpectLines(item, k, n) /\ l = n + 2
      BY <1>2, <2>3 DEF Reported, Desugared, LabelsTaken
    <3>2. item.kind \in Holding
      BY <2>3, KindsAre DEF Holding
    <3>3. PICK e \in {0, 1} : e = Extra(item)
      BY KindsAre
    <3>4. p \in Seq(Lines) /\ Len(p) = 6 + e /\ p[6 + e] = LabelLine(n)
      BY <1>1, <3>1, <3>2, <3>3, ExpectPiece DEF ExpectShape
    <3>5. Stands(T, item, k, Len(c) + 1, Len(T) + 1)
      BY <1>1, <1>3, <3>1, <3>2, ExpectStands
    <3>6. Sound(c, n) => Sound(T, n + 2)
      BY <1>1, <1>3, <3>1, <3>2, SoundExpect
    <3>7. p # <<>> /\ p[Len(p)].op = "label"
      BY <2>1, <3>4
    <3> QED BY <3>1, <3>4, <3>5, <3>6, <3>7
  <2> QED BY <2>2, <2>3
<1> HIDE DEF l
<1>5. /\ T \in Seq(Lines) /\ Len(T) = m + Len(p) /\ m \in Nat /\ Len(p) \in Nat
      /\ (\A i \in 1..m : T[i] = c[i]) /\ \A i \in 1..Len(p) : T[m + i] = p[i]
  <2>1. /\ c \o p \in Seq(Lines) /\ Len(c \o p) = m + Len(p) /\ m \in Nat /\ Len(p) \in Nat
        /\ (\A i \in 1..m : (c \o p)[i] = c[i]) /\ \A i \in 1..Len(p) : (c \o p)[m + i] = p[i]
    BY <1>1, <1>4, Joined
  <2> QED BY <1>3, <2>1
<1> HIDE DEF m
<1>6. ~EndsInTerminator(T)
  <2>1. Len(p) \in 1..Len(p)
    BY <1>4, <1>5
  <2>2. T[Len(T)].op = "label"
    BY <1>4, <1>5, <2>1
  <2> QED BY <2>2 DEF EndsInTerminator, IsTerminator
<1>7. Len(T) >= Len(c) /\ \A i \in 1..Len(c) : T[i] = c[i]
  <2>1. Len(T) >= m
    BY <1>5
  <2> QED BY <1>5, <2>1 DEF m
<1>8. TextGood(u, T, l, FALSE)
  <2>1. ItemWritten(t, c, item, u, T)
    BY <1>4, <1>5, <1>7 DEF k, ItemWritten
  <2>2. EndsInTerminator(T) <=> FALSE
    BY <1>6
  <2> QED BY <1>4, <2>1, <2>2, TextItem
<1> QED BY <1>8 DEF l

LEMMA TextStray ==
    ASSUME NEW t \in TestRecords, t.before <= Len(t.items), NEW c, NEW n \in Nat, TextGood(t, c, n, FALSE),
           NEW item \in ItemSet, item.kind = "stray", NEW u, u = [t EXCEPT !.items = Append(@, item)]
    PROVE  TextGood(u, c, n, FALSE)
<1>1. c \in Seq(Lines) /\ t.items \in Seq(ItemSet) /\ Len(t.items) + 1 \in Nat /\ Len(c) \in Nat
  BY DEF TextGood, TestRecords
<1>2. PICK T : T = c
  OBVIOUS
<1>3. Stands(T, item, Len(t.items) + 1, Len(c) + 1, Len(T) + 1)
  BY <1>1, <1>2, StrayStands
<1>4. EndsInTerminator(T) <=> FALSE
  BY <1>2 DEF TextGood
<1>5. T \in Seq(Lines) /\ Len(T) >= Len(c) /\ \A i \in 1..Len(c) : T[i] = c[i]
  BY <1>1, <1>2
<1>6. Sound(c, n) => Sound(T, n)
  BY <1>2
<1>7. TextGood(u, T, n, FALSE)
  <2>1. ItemWritten(t, c, item, u, T)
    BY <1>3, <1>5 DEF ItemWritten
  <2> QED BY <1>4, <1>6, <2>1, TextItem
<1> QED BY <1>2, <1>7

LEMMA TextNone ==
    ASSUME NEW t, t.items = <<>>, NEW n \in Nat
    PROVE  TextGood(t, <<>>, n, FALSE)
<1>1. PICK c : c = <<>>
  OBVIOUS
<1>2. c \in Seq(Lines) /\ Len(c) = 0 /\ DOMAIN c = {} /\ \A i : i \notin 1..Len(c)
  BY <1>1
<1>3. Sound(c, n)
  BY <1>2 DEF Sound, UniqueLabels, BlocksClosed
<1>4. ~EndsInTerminator(c)
  BY <1>1 DEF EndsInTerminator
<1>5. PICK s : s = [k \in 1..1 |-> 1]
  OBVIOUS
<1>6. PICK items : items = t.items
  OBVIOUS
<1>7. Len(items) = 0 /\ Len(items) + 1 = 1 /\ Len(c) + 1 = 1 /\ \A k : k \notin 1..Len(items)
  BY <1>2, <1>6
<1>8. s \in [1..1 -> Nat \ {0}] /\ s[1] = 1
  BY <1>5
<1>9. Laid(c, items, s, Len(c) + 1)
  BY <1>7, <1>8 DEF Laid
<1> QED BY <1>1, <1>2, <1>3, <1>4, <1>6, <1>9 DEF TextGood

LEMMA DataNone ==
    ASSUME NEW t \in TestRecords, t.items = <<>>, t.part = "none", t.before = 0
    PROVE  DataGood("setup", t, FALSE, 0)
<1>1. PICK items : items = t.items
  OBVIOUS
<1>2. Len(items) = 0 /\ \A k : k \notin 1..Len(items)
  BY <1>1
<1>3. Expects(t) = {} /\ ReturnsAt(t) = {}
  BY <1>1, <1>2 DEF Expects, ReturnsAt
<1>4. PartOf("setup", t.part) /\ ~HasReturned("setup", t)
  BY DEF PartOf, HasReturned
<1>5. t.before <= Len(t.items)
  BY <1>1, <1>2
<1> QED BY <1>3, <1>4, <1>5 DEF DataGood

LEMMA DataStray ==
    ASSUME NEW t, NEW saw, NEW lst, DataGood("setup", t, saw, lst),
           NEW item \in ItemSet, item.kind = "stray", NEW u, u = [t EXCEPT !.items = Append(@, item)]
    PROVE  DataGood("setup", u, saw, lst)
<1>1. t \in TestRecords /\ t.before <= Len(t.items)
  BY DEF DataGood
<1>2. PICK n : n = Len(t.items)
  OBVIOUS
<1>3. GrownTo(t, item, u, n)
  BY <1>1, <1>2, Grown
<1>4. "stray" \notin ExpectKinds
  BY DEF ExpectKinds
<1>5. Expects(u) = Expects(t) /\ ReturnsAt(u) = ReturnsAt(t)
  BY <1>3, <1>4 DEF GrownTo
<1>6. u \in TestRecords /\ u.part = t.part /\ u.before <= Len(u.items)
  BY <1>3 DEF GrownTo
<1>7. ~HasReturned("setup", t) /\ ~HasReturned("setup", u)
  BY DEF HasReturned
<1>8. PartOf("setup", t.part) /\ ReturnsAt(t) = {} /\ Expects(t) = {} /\ lst = 0 /\ (saw <=> Expects(t) # {})
  BY <1>7 DEF DataGood
<1> QED BY <1>5, <1>6, <1>7, <1>8 DEF DataGood

\* What Statement makes of the phase, of the test and of last_expr.
StatementMakes(ph, t, lst, item, ph2, u, lst2) ==
    /\ ph \in {"setup", "inspect", "body"} /\ item \in ItemSet /\ item.kind \in StmtKinds
    /\ u = [t EXCEPT !.items = Append(@, item)]
    /\ ph2 = IF item.kind # "return" THEN ph ELSE IF ph = "setup" THEN "rest" ELSE "returned"
    /\ lst2 = IF item.kind = "value" /\ ph # "setup" THEN Len(t.items) + 1 ELSE lst

LEMMA DataStmt ==
    ASSUME NEW ph, NEW t, NEW saw, NEW lst, DataGood(ph, t, saw, lst),
           NEW item, NEW u, NEW ph2, NEW lst2, StatementMakes(ph, t, lst, item, ph2, u, lst2)
    PROVE  DataGood(ph2, u, saw, lst2) /\ (HasReturned(ph2, u) <=> item.kind = "return")
<1>0. /\ ph \in {"setup", "inspect", "body"} /\ item \in ItemSet /\ item.kind \in StmtKinds
      /\ u = [t EXCEPT !.items = Append(@, item)]
      /\ ph2 = IF item.kind # "return" THEN ph ELSE IF ph = "setup" THEN "rest" ELSE "returned"
      /\ lst2 = IF item.kind = "value" /\ ph # "setup" THEN Len(t.items) + 1 ELSE lst
  BY DEF StatementMakes
<1>1. t \in TestRecords /\ t.before <= Len(t.items)
  BY DEF DataGood
<1>2. PICK n : n = Len(t.items)
  OBVIOUS
<1>3. GrownTo(t, item, u, n)
  BY <1>0, <1>1, <1>2, Grown
<1>4. item.kind \notin ExpectKinds
  BY <1>0 DEF ExpectKinds, StmtKinds
<1>5. PartOf(ph, t.part) /\ ~HasReturned(ph, t)
  BY <1>0 DEF DataGood, HasReturned
<1>6. ReturnsAt(t) = {} /\ (ph = "setup" => Expects(t) = {} /\ lst = 0) /\ (saw <=> Expects(t) # {})
      /\ (ph # "setup" => \/ lst = 0 /\ BlockValues(t) = {}
                          \/ lst \in BlockValues(t) /\ \A v \in BlockValues(t) : v <= lst)
  BY <1>0, <1>5 DEF DataGood
<1>7. /\ u \in TestRecords /\ u.part = t.part /\ u.before <= Len(u.items) /\ Len(u.items) = n + 1 /\ n \in Nat
      /\ Expects(u) = Expects(t) /\ BlockValues(t) \subseteq 1..n
      /\ ReturnsAt(u) = IF item.kind = "return" THEN {n + 1} ELSE {}
      /\ BlockValues(u) = IF item.kind = "value" THEN BlockValues(t) \cup {n + 1} ELSE BlockValues(t)
  BY <1>3, <1>4, <1>6 DEF GrownTo
<1>8. HasReturned(ph2, u) <=> item.kind = "return"
  BY <1>0, <1>5, <1>7 DEF HasReturned, PartOf
<1>9. PartOf(ph2, u.part)
  BY <1>0, <1>5, <1>7 DEF PartOf
<1>10. ReturnsAt(u) = IF HasReturned(ph2, u) THEN {Len(u.items)} ELSE {}
  BY <1>7, <1>8
<1>11. ph2 \in {"setup", "rest"} <=> ph = "setup"
  BY <1>0
<1>12. ph = "setup" => Expects(u) = {} /\ lst2 = 0
  BY <1>0, <1>6, <1>7
<1>13. ph # "setup" => \/ lst2 = 0 /\ BlockValues(u) = {}
                       \/ lst2 \in BlockValues(u) /\ \A v \in BlockValues(u) : v <= lst2
  <2> SUFFICES ASSUME ph # "setup"
               PROVE  \/ lst2 = 0 /\ BlockValues(u) = {}
                      \/ lst2 \in BlockValues(u) /\ \A v \in BlockValues(u) : v <= lst2
    OBVIOUS
  <2>1. CASE item.kind = "value"
    <3>1. lst2 = n + 1 /\ BlockValues(u) = BlockValues(t) \cup {n + 1}
      BY <1>0, <1>2, <1>7, <2>1
    <3>2. \A v \in BlockValues(u) : v <= n + 1
      BY <1>7, <3>1
    <3> QED BY <3>1, <3>2
  <2>2. CASE item.kind # "value"
    BY <1>0, <1>6, <1>7, <2>2
  <2> QED BY <2>1, <2>2
<1>14. saw <=> Expects(u) # {}
  BY <1>6, <1>7
<1> QED BY <1>7, <1>8, <1>9, <1>10, <1>11, <1>12, <1>13, <1>14 DEF DataGood

LEMMA DataExpect ==
    ASSUME NEW ph \in {"inspect", "body"}, NEW t, NEW saw, NEW lst, DataGood(ph, t, saw, lst),
           NEW item \in ItemSet, item.kind \in ExpectKinds, NEW u, u = [t EXCEPT !.items = Append(@, item)]
    PROVE  DataGood(ph, u, TRUE, lst)
<1>1. t \in TestRecords /\ t.before <= Len(t.items)
  BY DEF DataGood
<1>2. PICK n : n = Len(t.items)
  OBVIOUS
<1>3. GrownTo(t, item, u, n)
  BY <1>1, <1>2, Grown
<1>4. item.kind \notin {"return", "value"}
  BY DEF ExpectKinds
<1>5. ~HasReturned(ph, t) /\ ~HasReturned(ph, u)
  BY DEF HasReturned
<1>6. ReturnsAt(t) = {} /\ PartOf(ph, t.part)
      /\ \/ lst = 0 /\ BlockValues(t) = {}
         \/ lst \in BlockValues(t) /\ \A v \in BlockValues(t) : v <= lst
  BY <1>5 DEF DataGood
<1>7. /\ u \in TestRecords /\ u.part = t.part /\ u.before <= Len(u.items)
      /\ Expects(u) = Expects(t) \cup {n + 1} /\ ReturnsAt(u) = {} /\ BlockValues(u) = BlockValues(t)
  BY <1>3, <1>4, <1>6 DEF GrownTo
<1>8. Expects(u) # {}
  BY <1>7
<1> QED BY <1>5, <1>6, <1>7, <1>8 DEF DataGood

SetupMakes(t, ph2, u) ==
    ph2 \in {"inspect", "body", "rest"} /\ u = [t EXCEPT !.part = ph2, !.before = Len(t.items)]

LEMMA DataAfter ==
    ASSUME NEW t, NEW saw, NEW lst, DataGood("setup", t, saw, lst), NEW ph2, NEW u, SetupMakes(t, ph2, u)
    PROVE  DataGood(ph2, u, saw, lst) /\ ~HasReturned(ph2, u) /\ u.items = t.items
<1>1. t \in TestRecords /\ t.items \in Seq(ItemSet)
  BY DEF DataGood, TestRecords
<1>2. PICK n \in Nat : n = Len(t.items)
  BY <1>1
<1>0. ph2 \in {"inspect", "body", "rest"} /\ u = [t EXCEPT !.part = ph2, !.before = Len(t.items)]
  BY DEF SetupMakes
<1>3. ph2 \in PartNames
  BY <1>0 DEF PartNames, AllBlocks
<1>4. PICK q : q = [t EXCEPT !.part = ph2]
  OBVIOUS
<1>5. q \in TestRecords /\ q.part = ph2 /\ q.items = t.items
  BY <1>1, <1>3, <1>4 DEF TestRecords
<1>6. u = [q EXCEPT !.before = n]
  BY <1>0, <1>1, <1>2, <1>4 DEF TestRecords
<1>7. u \in TestRecords /\ u.part = ph2 /\ u.items = t.items /\ u.before = n
  BY <1>5, <1>6 DEF TestRecords
<1>8. ~HasReturned("setup", t) /\ ~HasReturned(ph2, u) /\ PartOf(ph2, u.part)
  BY <1>0, <1>7 DEF HasReturned, PartOf
<1>9. ReturnsAt(t) = {} /\ Expects(t) = {} /\ lst = 0 /\ (saw <=> Expects(t) # {})
  BY <1>8 DEF DataGood
<1>10. Expects(u) = Expects(t) /\ ReturnsAt(u) = ReturnsAt(t)
  BY <1>7 DEF Expects, ReturnsAt
<1>11. BlockValues(u) = {}
  <2>1. \A k : k \notin n + 1..n
    OBVIOUS
  <2> QED BY <1>2, <1>7, <2>1 DEF BlockValues
<1>12. u.before <= Len(u.items)
  BY <1>2, <1>7
<1> QED BY <1>0, <1>7, <1>8, <1>9, <1>10, <1>11, <1>12 DEF DataGood

LEMMA TestStep == IInv /\ TestsNext => TestInv'
<1> SUFFICES ASSUME IInv, TestsNext, InTest' PROVE TestGood(stage', test', code', nlabel', sawExpect', carried')
  BY DEF TestInv
<1>1. WalkInv /\ TestInv
  BY DEF IInv
<1>2. /\ shape \in Shapes /\ nlabel \in Nat /\ sawExpect \in BOOLEAN
      /\ Items \subseteq ItemSet
      /\ shape.names \subseteq STRING /\ shape.tags \subseteq STRING /\ shape.blocks \subseteq AllBlocks
  BY <1>1, ShapeIs DEF WalkInv
<1>3. ASSUME InTest
      PROVE  /\ DataGood(stage, test, sawExpect, carried) /\ TextGood(test, code, nlabel, HasReturned(stage, test))
             /\ test \in TestRecords /\ test.before <= Len(test.items)
  <2>1. TestGood(stage, test, code, nlabel, sawExpect, carried)
    BY <1>1, <1>3 DEF TestInv
  <2> QED BY <2>1, GoodIs DEF DataGood
<1>4. ASSUME DataGood(stage', test', sawExpect', carried'), NEW closed,
             TextGood(test', code', nlabel', closed), closed <=> HasReturned(stage', test')
      PROVE  TestGood(stage', test', code', nlabel', sawExpect', carried')
  <2>1. TextGood(test', code', nlabel', HasReturned(stage', test'))
    BY <1>4 DEF TextGood
  <2> QED BY <1>4, <2>1, GoodIs
<1>5. CASE \E name \in shape.names, tags \in SUBSET shape.tags, has \in SUBSET shape.blocks : OpenTest(name, tags, has)
  <2> PICK name \in shape.names, tags \in SUBSET shape.tags, has \in SUBSET shape.blocks : OpenTest(name, tags, has)
    BY <1>5
  <2>1. /\ test' = [NoTest EXCEPT !.name = name, !.tags = tags, !.has = has]
        /\ code' = <<>> /\ carried' = 0 /\ sawExpect' = FALSE /\ stage' = "setup" /\ nlabel' = nlabel
    BY DEF OpenTest, SawAtStart
  <2>2. test' = [name |-> name, tags |-> tags, has |-> has, items |-> <<>>, part |-> "none", before |-> 0]
    BY <2>1 DEF NoTest
  <2>3. test' \in TestRecords
    <3>1. "none" \in PartNames /\ <<>> \in Seq(ItemSet) /\ name \in STRING /\ tags \in SUBSET STRING /\ has \in SUBSET AllBlocks
      BY <1>2 DEF PartNames
    <3> QED BY <2>2, <3>1 DEF TestRecords
  <2>4. test'.items = <<>> /\ test'.part = "none" /\ test'.before = 0
    BY <2>2
  <2>5. DataGood("setup", test', FALSE, 0)
    BY <2>3, <2>4, DataNone
  <2>6. TextGood(test', <<>>, nlabel, FALSE)
    BY <1>2, <2>4, TextNone
  <2>7. ~HasReturned("setup", test')
    BY DEF HasReturned
  <2> QED BY <1>4, <2>1, <2>5, <2>6, <2>7
<1>6. CASE \E item \in Items : StrayExpect(item)
  <2> PICK item \in Items : StrayExpect(item)
    BY <1>6
  <2>1. PICK x : x = [item EXCEPT !.kind = "stray"]
    OBVIOUS
  <2>2. x \in ItemSet /\ x.kind = "stray"
    BY <1>2, <2>1, Strayed
  <2>3. stage = "setup" /\ test' = [test EXCEPT !.items = Append(@, x)] /\ UNCHANGED <<stage, code, nlabel, sawExpect, carried>>
    BY <2>1 DEF StrayExpect, Add
  <2>4. InTest /\ ~HasReturned(stage, test) /\ ~HasReturned(stage, test')
    BY <2>3 DEF InTest, Working, HasReturned
  <2>5. DataGood(stage, test', sawExpect, carried)
    BY <1>3, <2>2, <2>3, <2>4, DataStray
  <2>6. TextGood(test', code, nlabel, FALSE)
    <3>1. TextGood(test, code, nlabel, FALSE)
      BY <1>3, <2>4 DEF TextGood
    <3> QED BY <1>2, <1>3, <2>2, <2>3, <2>4, <3>1, TextStray
  <2> QED BY <1>4, <2>3, <2>4, <2>5, <2>6
<1>7. CASE \E item \in Items : Statement(item)
  <2> PICK item \in Items : Statement(item)
    BY <1>7
  <2>1. item \in ItemSet /\ item.kind \in StmtKinds /\ stage \in {"setup", "inspect", "body"}
    BY <1>2 DEF Statement
  <2>2. /\ test' = [test EXCEPT !.items = Append(@, item)] /\ code' = code \o StmtLines(item.kind, Len(test.items) + 1)
        /\ carried' = (IF item.kind = "value" /\ stage # "setup" THEN Len(test.items) + 1 ELSE carried)
        /\ stage' = (IF item.kind # "return" THEN stage ELSE IF stage = "setup" THEN "rest" ELSE "returned")
        /\ UNCHANGED <<nlabel, sawExpect>>
    BY DEF Statement, Add, Here, LastWith
  <2>3. InTest /\ ~HasReturned(stage, test)
    BY <2>1 DEF InTest, Working, HasReturned
  <2>4. DataGood(stage', test', sawExpect, carried') /\ (HasReturned(stage', test') <=> item.kind = "return")
    <3>1. PICK t, saw, lst, ph : t = test /\ saw = sawExpect /\ lst = carried /\ ph = stage
      OBVIOUS
    <3>2. PICK u, ph2, lst2 : u = test' /\ ph2 = stage' /\ lst2 = carried'
      OBVIOUS
    <3>3. DataGood(ph, t, saw, lst)
      BY <1>3, <2>3, <3>1
    <3>4. StatementMakes(ph, t, lst, item, ph2, u, lst2)
      BY <2>1, <2>2, <3>1, <3>2 DEF StatementMakes
    <3>5. DataGood(ph2, u, saw, lst2) /\ (HasReturned(ph2, u) <=> item.kind = "return")
      BY <3>3, <3>4, DataStmt
    <3> QED BY <3>1, <3>2, <3>5
  <2>5. TextGood(test', code', nlabel, item.kind = "return")
    <3>1. TextGood(test, code, nlabel, FALSE)
      BY <1>3, <2>3 DEF TextGood
    <3> QED BY <1>2, <1>3, <2>1, <2>2, <2>3, <3>1, TextStmt
  <2> QED BY <1>4, <2>2, <2>4, <2>5
<1>8. CASE \E item \in Items : Expect(item)
  <2> PICK item \in Items : Expect(item)
    BY <1>8
  <2>1. item \in ItemSet /\ item.kind \in ExpectKinds /\ stage \in {"inspect", "body"}
    BY <1>2 DEF Expect
  <2>2. /\ test' = [test EXCEPT !.items = Append(@, item)] /\ code' = code \o Reported(item, Len(test.items) + 1, nlabel)
        /\ nlabel' = nlabel + LabelsTaken(item.kind) /\ sawExpect' = TRUE
        /\ UNCHANGED <<stage, carried>>
    BY DEF Expect, Add, Here
  <2>3. InTest /\ ~HasReturned(stage, test) /\ ~HasReturned(stage, test')
    BY <2>1 DEF InTest, Working, HasReturned
  <2>4. DataGood(stage, test', TRUE, carried)
    BY <1>3, <2>1, <2>2, <2>3, DataExpect
  <2>5. TextGood(test', code', nlabel', FALSE)
    <3>1. TextGood(test, code, nlabel, FALSE)
      BY <1>3, <2>3 DEF TextGood
    <3> QED BY <1>2, <1>3, <2>1, <2>2, <2>3, <3>1, TextExpect
  <2> QED BY <1>4, <2>2, <2>3, <2>4, <2>5
<1>9. CASE AfterSetup
  <2>1. /\ stage = "setup" /\ stage' \in {"inspect", "body", "rest"}
        /\ test' = [test EXCEPT !.part = stage', !.before = Len(test.items)]
        /\ UNCHANGED <<code, nlabel, sawExpect, carried>>
    BY <1>9 DEF AfterSetup
  <2>2. InTest /\ ~HasReturned(stage, test)
    BY <2>1 DEF InTest, Working, HasReturned
  <2>3. DataGood(stage', test', sawExpect, carried) /\ ~HasReturned(stage', test') /\ test'.items = test.items
    <3>1. PICK t, saw, lst : t = test /\ saw = sawExpect /\ lst = carried
      OBVIOUS
    <3>2. PICK u, ph2 : u = test' /\ ph2 = stage'
      OBVIOUS
    <3>3. DataGood("setup", t, saw, lst)
      BY <1>3, <2>1, <2>2, <3>1
    <3>4. SetupMakes(t, ph2, u)
      BY <2>1, <3>1, <3>2 DEF SetupMakes
    <3>5. DataGood(ph2, u, saw, lst) /\ ~HasReturned(ph2, u) /\ u.items = t.items
      BY <3>3, <3>4, DataAfter
    <3> QED BY <3>1, <3>2, <3>5
  <2>4. TextGood(test', code, nlabel, FALSE)
    <3>1. TextGood(test, code, nlabel, FALSE)
      BY <1>3, <2>2 DEF TextGood
    <3> QED BY <2>3, <3>1 DEF TextGood
  <2> QED BY <1>4, <2>1, <2>3, <2>4
<1>10. CASE \/ \E kind \in {"fn", "entry"} : EmitFnForm(kind)
            \/ FormsEmitted \/ SkipItem \/ NextSection \/ NextForm \/ CloseTest \/ TestsEmitted \/ CallTest \/ EndMain
            \/ \E name \in shape.names, tags \in SUBSET shape.tags : FilterTest(name, tags)
  <2>1. stage' \notin Working
    BY <1>10 DEF EmitFnForm, FormsEmitted, SkipItem, NextSection, NextForm, CloseTest, TestsEmitted, CallTest, EndMain,
                 FilterTest, AtItem, Working
  <2> QED BY <2>1 DEF InTest
<1> QED BY <1>5, <1>6, <1>7, <1>8, <1>9, <1>10 DEF TestsNext

-----------------------------------------------------------------------------
(* The test that is complete.                                              *)

\* T is the text c with its end.
EndedAs(T, c, ph, saw, lst) ==
    /\ T \in Seq(Lines) /\ Len(T) >= Len(c) /\ \A i \in 1..Len(c) : T[i] = c[i]
    /\ ph \in {"body", "rest"} =>
          /\ Len(c) + 1 \in 1..Len(T) /\ T[Len(c) + 1].op = "ret" /\ EndsInTerminator(T)
          /\ IF ph = "body" /\ ~saw /\ lst # 0
             THEN T[Len(c) + 1].val = "value" /\ T[Len(c) + 1].at = lst
             ELSE T[Len(c) + 1].val = "zero"
    /\ ph \notin {"body", "rest"} => T = c

LEMMA EndWritten ==
    ASSUME NEW c \in Seq(Lines), NEW ph, NEW saw, NEW lst \in Nat
    PROVE  EndedAs(c \o EndOf(ph, saw, lst), c, ph, saw, lst)
<1> PICK p, T : p = EndOf(ph, saw, lst) /\ T = c \o p
  OBVIOUS
<1> SUFFICES EndedAs(T, c, ph, saw, lst)
  OBVIOUS
<1>1. p \in Seq(Lines)
  BY EndIs
<1>2. PICK m \in Nat : m = Len(c)
  OBVIOUS
<1>3. /\ T \in Seq(Lines) /\ Len(T) = m + Len(p) /\ Len(p) \in Nat /\ \A i \in 1..m : T[i] = c[i]
      /\ \A k \in 1..Len(p) : T[m + k] = p[k]
  BY <1>1, <1>2, Joined
<1>4. ASSUME ph \in {"body", "rest"}
      PROVE  /\ m + 1 \in 1..Len(T) /\ T[m + 1].op = "ret" /\ EndsInTerminator(T)
             /\ IF ph = "body" /\ ~saw /\ lst # 0
                THEN T[m + 1].val = "value" /\ T[m + 1].at = lst ELSE T[m + 1].val = "zero"
  <2>1. PICK r : r = IF ph = "body" /\ ~saw /\ lst # 0 THEN ReturnStmt("value", lst) ELSE ReturnStmt("zero", 0)
    OBVIOUS
  <2>2. /\ r.op = "ret"
        /\ IF ph = "body" /\ ~saw /\ lst # 0 THEN r.val = "value" /\ r.at = lst ELSE r.val = "zero"
    BY <2>1, LinesAre
  <2>3. p = <<r>>
    BY <1>4, <2>1 DEF EndOf
  <2>4. Len(p) = 1 /\ p[1] = r
    BY <2>3
  <2>5. Len(T) = m + 1 /\ T[m + 1] = r
    BY <1>3, <2>4
  <2>6. EndsInTerminator(T)
    <3>1. Len(<<>>) = 0
      OBVIOUS
    <3>2. T # <<>>
      BY <2>5, <3>1
    <3> QED BY <2>2, <2>5, <3>2 DEF EndsInTerminator, IsTerminator
  <2> QED BY <2>2, <2>5, <2>6
<1>5. ph \notin {"body", "rest"} => T = c
  <2> SUFFICES ASSUME ph \notin {"body", "rest"} PROVE T = c
    OBVIOUS
  <2>1. p = <<>>
    BY DEF EndOf
  <2> QED BY <2>1
<1> QED BY <1>2, <1>3, <1>4, <1>5 DEF EndedAs

\* Where CloseTest stands: f is the test t of the text c.
ClosedAs(f, ph, t, c, saw, lst) ==
    /\ ph \in {"inspect", "body", "returned", "rest"}
    /\ f.items = t.items /\ f.part = t.part /\ f.before = t.before
    /\ f.code = c \o EndOf(ph, saw, lst)

LEMMA EndsAsIs ==
    ASSUME NEW f, NEW ph, NEW t, NEW c, NEW saw, NEW lst \in Nat, DataGood(ph, t, saw, lst),
           ClosedAs(f, ph, t, c, saw, lst), c \in Seq(Lines), ph \in {"body", "rest"}
    PROVE  EndsAs(f, Len(c) + 1)
<1>1. f.items = t.items /\ f.part = t.part /\ f.before = t.before /\ f.code = c \o EndOf(ph, saw, lst)
  BY DEF ClosedAs
<1>2. PICK T, e : T = f.code /\ e = Len(c) + 1
  OBVIOUS
<1>3. /\ e \in 1..Len(T) /\ T[e].op = "ret"
      /\ IF ph = "body" /\ ~saw /\ lst # 0 THEN T[e].val = "value" /\ T[e].at = lst ELSE T[e].val = "zero"
  <2>1. EndedAs(T, c, ph, saw, lst)
    BY <1>1, <1>2, EndWritten
  <2> QED BY <1>2, <2>1 DEF EndedAs
<1>4. Expects(f) = Expects(t) /\ BlockValues(f) = BlockValues(t)
  BY <1>1 DEF Expects, BlockValues
<1>5. /\ t \in TestRecords /\ PartOf(ph, t.part) /\ (saw <=> Expects(t) # {})
      /\ ph = "rest" => Expects(t) = {} /\ lst = 0
      /\ ph = "body" => \/ lst = 0 /\ BlockValues(t) = {}
                        \/ lst \in BlockValues(t) /\ \A v \in BlockValues(t) : v <= lst
  BY DEF DataGood
<1>6. CASE ph = "rest"
  <2>1. BodyValues(f) = {}
    BY <1>1, <1>5, <1>6 DEF PartOf, BodyValues
  <2> QED BY <1>2, <1>3, <1>6, <2>1 DEF EndsAs
<1>7. CASE ph = "body"
  <2>1. BodyValues(f) = BlockValues(t)
    BY <1>1, <1>4, <1>5, <1>7 DEF PartOf, BodyValues
  <2>2. PICK n \in Nat, b \in Nat : n = Len(t.items) /\ b = t.before
    BY <1>5 DEF TestRecords
  <2>3. BlockValues(t) \subseteq b + 1..n
    BY <2>2 DEF BlockValues
  <2>4. \A v \in b + 1..n : v # 0 /\ v \in Nat /\ v \in 1..n
    BY <2>2
  <2>5. CASE Expects(t) = {} /\ BlockValues(t) # {}
    <3>1. lst \in BlockValues(t) /\ \A v \in BlockValues(t) : v <= lst
      BY <1>5, <1>7, <2>5
    <3>2. BlockValues(t) \in SUBSET Nat /\ lst # 0 /\ lst \in 1..n
      BY <2>3, <2>4, <3>1
    <3>3. Max(BodyValues(f)) = lst
      BY <2>1, <3>1, <3>2, MaxIs
    <3>4. ~saw
      BY <1>5, <2>5
    <3> QED BY <1>1, <1>2, <1>3, <1>4, <1>7, <2>1, <2>2, <2>5, <3>2, <3>3, <3>4 DEF EndsAs
  <2>6. CASE ~(Expects(t) = {} /\ BlockValues(t) # {})
    <3>1. saw \/ lst = 0
      BY <1>5, <1>7, <2>6
    <3>2. T[e].val = "zero"
      BY <1>3, <3>1
    <3> QED BY <1>2, <1>3, <1>4, <2>1, <2>6, <3>2 DEF EndsAs
  <2> QED BY <2>5, <2>6
<1> QED BY <1>6, <1>7

LEMMA Closing ==
    ASSUME NEW f, NEW ph, NEW t, NEW c, NEW n \in Nat, NEW saw, NEW lst \in Nat, DataGood(ph, t, saw, lst),
           TextGood(t, c, n, HasReturned(ph, t)), ClosedAs(f, ph, t, c, saw, lst)
    PROVE  FuncGood(f)
<1>1. /\ ph \in {"inspect", "body", "returned", "rest"}
      /\ f.items = t.items /\ f.part = t.part /\ f.before = t.before /\ f.code = c \o EndOf(ph, saw, lst)
  BY DEF ClosedAs
<1>2. /\ t \in TestRecords /\ PartOf(ph, t.part)
      /\ ReturnsAt(t) = IF HasReturned(ph, t) THEN {Len(t.items)} ELSE {}
  BY DEF DataGood
<1>3. /\ c \in Seq(Lines) /\ NoNe(t.items) => Sound(c, n)
      /\ EndsInTerminator(c) <=> HasReturned(ph, t)
  BY DEF TextGood
<1>c. c \in Seq(Lines)
  BY DEF TextGood
<1>4. PICK s : Laid(c, t.items, s, Len(c) + 1)
  BY DEF TextGood
<1>5. PICK T, p, items : T = f.code /\ p = EndOf(ph, saw, lst) /\ items = t.items
  OBVIOUS
<1>6. T = c \o p
  BY <1>1, <1>5
<1>7. /\ T \in Seq(Lines) /\ Len(T) >= Len(c) /\ \A i \in 1..Len(c) : T[i] = c[i]
      /\ ph \in {"body", "rest"} => EndsInTerminator(T)
      /\ ph \notin {"body", "rest"} => T = c
  <2>1. EndedAs(T, c, ph, saw, lst)
    BY <1>c, <1>5, <1>6, EndWritten
  <2> QED BY <2>1 DEF EndedAs
<1>8. items \in Seq(ItemSet) /\ Len(items) \in Nat
  BY <1>2, <1>5 DEF TestRecords
<1>9. PICK e \in Nat : e = Len(c) + 1
  BY <1>c
<1>10. Laid(T, items, s, e) /\ e <= Len(T) + 1
  <2>1. Laid(T, items, s, Len(c) + 1)
    BY <1>c, <1>4, <1>5, <1>7, <1>8, LaidMore
  <2>2. Len(c) + 1 <= Len(T) + 1
    BY <1>c, <1>7
  <2> QED BY <1>9, <2>1, <2>2
<1>11. Expects(f) = Expects(t) /\ ReturnsAt(f) = ReturnsAt(t)
  BY <1>1 DEF Expects, ReturnsAt
<1>12. CASE \E k \in 1..Len(items) : IsNe(items[k].kind)
  <2>1. PICK k \in 1..Len(items) : IsNe(items[k].kind)
    BY <1>12
  <2>2. ~Accepted(T)
    BY <1>7, <1>8, <1>10, <2>1, NeRefused
  <2>3. Refused(f)
    <3>1. k \in Expects(f) /\ IsNe(f.items[k].kind)
      BY <1>1, <1>5, <2>1 DEF Expects, IsNe, ExpectKinds
    <3> QED BY <3>1 DEF Refused
  <2> QED BY <1>5, <2>2, <2>3 DEF FuncGood
<1>13. CASE \A k \in 1..Len(items) : ~IsNe(items[k].kind)
  <2>1. Sound(c, n)
    BY <1>5, <1>13 DEF NoNe, TextGood
  <2>2. Sound(T, n)
    <3>1. p \in Seq(Lines) /\ \A k \in 1..Len(p) : p[k].op \in {"inst", "ret"}
      BY <1>5, EndIs
    <3> QED BY <1>6, <2>1, <3>1, SoundPlain
  <2>3. Refused(f) <=> f.part = "inspect" /\ ReturnsAt(f) = {}
    <3>1. \A i \in Expects(f) : ~IsNe(f.items[i].kind)
      BY <1>1, <1>5, <1>13 DEF Expects
    <3> QED BY <3>1 DEF Refused
  <2>4. HasReturned(ph, t) <=> ReturnsAt(f) # {}
    BY <1>2, <1>11
  <2>5. CASE Refused(f)
    <3>1. t.part = "inspect" /\ ~HasReturned(ph, t)
      BY <1>1, <2>3, <2>4, <2>5
    <3>2. ph = "inspect"
      BY <1>1, <1>2, <3>1 DEF PartOf, HasReturned
    <3>3. T = c
      BY <1>7, <3>2
    <3>4. ~EndsInTerminator(T)
      BY <1>3, <3>1, <3>3
    <3> QED BY <1>5, <2>5, <3>4 DEF FuncGood, Accepted
  <2>6. CASE ~Refused(f)
    <3>1. ph # "inspect"
      <4> SUFFICES ASSUME ph = "inspect" PROVE FALSE
        OBVIOUS
      <4>1. t.part = "inspect" /\ ~HasReturned(ph, t)
        BY <1>2 DEF PartOf, HasReturned
      <4> QED BY <1>1, <2>3, <2>4, <2>6, <4>1
    <3>2. EndsInTerminator(T)
      <4>1. CASE ph = "returned"
        BY <1>3, <1>7, <4>1 DEF HasReturned
      <4> QED BY <1>1, <1>7, <3>1, <4>1
    <3>3. Accepted(T) /\ Forward(T)
      BY <2>2, <3>2, SoundEnds
    <3>4. \A k \in 1..Len(items) : items[k].kind = "return" => k = Len(items)
      <4>1. \A k \in 1..Len(items) : items[k].kind = "return" => k \in ReturnsAt(t)
        BY <1>5 DEF ReturnsAt
      <4>2. \A k \in ReturnsAt(t) : k = Len(items)
        BY <1>2, <1>5
      <4> QED BY <4>1, <4>2
    <3>5. ReturnsAt(f) = {} => EndsAs(f, e)
      <4> SUFFICES ASSUME ReturnsAt(f) = {} PROVE EndsAs(f, e)
        OBVIOUS
      <4>1. ph \in {"body", "rest"}
        BY <1>1, <2>4, <3>1 DEF HasReturned
      <4> QED BY <1>c, <1>9, <4>1, EndsAsIs
    <3>6. Decides(f)
      BY <1>1, <1>5, <1>8, <1>10, <1>13, <3>3, <3>4, <3>5, Reporting
    <3> QED BY <1>5, <2>6, <3>3, <3>6 DEF FuncGood
  <2> QED BY <2>5, <2>6
<1> QED BY <1>12, <1>13

LEMMA FuncStep == IInv /\ TestsNext => FuncInv'
<1> SUFFICES ASSUME IInv, TestsNext PROVE FuncInv'
  OBVIOUS
<1>1. WalkInv /\ TestInv /\ FuncInv /\ CallsInv
  BY DEF IInv
<1>2. CASE CloseTest
  <2>1. PICK f : Closes(f)
    BY <1>2, CloseIs
  <2>2. /\ funcs' = Append(funcs, f) /\ f.items = test.items /\ f.part = test.part /\ f.before = test.before
        /\ f.code = code \o EndOf(stage, sawExpect, carried)
    BY <2>1 DEF Closes
  <2>3. stage \in {"inspect", "body", "returned", "rest"} /\ InTest
    BY <1>2 DEF CloseTest, InTest, Working
  <2>4. DataGood(stage, test, sawExpect, carried) /\ TextGood(test, code, nlabel, HasReturned(stage, test))
    <3>1. TestGood(stage, test, code, nlabel, sawExpect, carried)
      BY <1>1, <2>3 DEF TestInv
    <3> QED BY <3>1, GoodIs
  <2>5. carried \in Nat /\ nlabel \in Nat
    BY <1>1, <2>3, LastIs DEF WalkInv
  <2>6. ClosedAs(f, stage, test, code, sawExpect, carried)
    BY <2>2, <2>3 DEF ClosedAs
  <2>7. FuncGood(f)
    BY <2>4, <2>5, <2>6, Closing
  <2>8. PICK n \in Nat : n = Len(funcs)
    BY <1>1 DEF CallsInv
  <2>9. Len(funcs') = n + 1 /\ funcs'[n + 1] = f /\ \A i \in 1..n : funcs'[i] = funcs[i]
    <3>1. funcs \in Seq(Compiles)
      BY <1>1 DEF CallsInv
    <3> QED BY <2>2, <2>8, <3>1
  <2>10. \A i \in 1..n + 1 : i \in 1..n \/ i = n + 1
    BY <2>8
  <2>11. \A i \in 1..n : FuncGood(funcs[i])
    BY <1>1, <2>8 DEF FuncInv
  <2>12. \A i \in 1..n + 1 : FuncGood(funcs'[i])
    BY <2>7, <2>9, <2>10, <2>11
  <2> QED BY <2>9, <2>12 DEF FuncInv
<1>3. CASE ~CloseTest
  <2>1. UNCHANGED funcs
    BY <1>3 DEF TestsNext, EmitFnForm, FormsEmitted, SkipItem, NextSection, NextForm, FilterTest, OpenTest,
                StrayExpect, Statement, Expect, AfterSetup, TestsEmitted, CallTest, EndMain
  <2> QED BY <1>1, <2>1 DEF FuncInv
<1> QED BY <1>2, <1>3

-----------------------------------------------------------------------------
(* The theorems.                                                           *)

LEMMA InvInit == TestsInit => IInv
<1> SUFFICES ASSUME TestsInit PROVE IInv
  OBVIOUS
<1>1. WalkInv /\ CallsInv /\ NamesInv
  BY WalkInit, CallsInit, NamesInit
<1>2. TestInv
  <2>1. ~InTest
    BY DEF TestsInit, InTest, Working
  <2> QED BY <2>1 DEF TestInv
<1>3. FuncInv
  <2>1. funcs = <<>>
    BY DEF TestsInit
  <2>2. \A i : i \notin 1..Len(funcs)
    BY <2>1
  <2> QED BY <2>2 DEF FuncInv
<1> QED BY <1>1, <1>2, <1>3 DEF IInv

LEMMA InvSame == IInv /\ UNCHANGED testVars => IInv'
<1> SUFFICES ASSUME IInv, UNCHANGED testVars PROVE IInv'
  OBVIOUS
<1>1. /\ UNCHANGED <<shape, runTests, forms, defined, stage, pos, test>>
      /\ UNCHANGED <<code, nlabel, sawExpect, carried, funcs, wanted, calls>>
  BY DEF testVars
<1>2. InTest' = InTest /\ Kept' = Kept
  BY <1>1 DEF InTest, Kept
<1>3. WalkInv /\ CallsInv /\ NamesInv /\ TestInv /\ FuncInv
  BY DEF IInv
<1>4. WalkInv'
  BY <1>1, <1>2, <1>3 DEF WalkInv
<1>5. CallsInv'
  BY <1>1, <1>2, <1>3 DEF CallsInv
<1>6. NamesInv'
  BY <1>1, <1>3, NamesSame
<1>7. TestInv'
  BY <1>1, <1>2, <1>3 DEF TestInv
<1>8. FuncInv'
  BY <1>1, <1>3 DEF FuncInv
<1> QED BY <1>4, <1>5, <1>6, <1>7, <1>8 DEF IInv

\* The strengthened invariant holds in every state compile_to_llvm_ir reaches.
THEOREM Invariant == TestsSpec => []IInv
<1>1. IInv /\ [TestsNext]_testVars => IInv'
  <2>1. IInv /\ TestsNext => IInv'
    BY WalkStep, CallsStep, NamesStep, TestStep, FuncStep DEF IInv
  <2> QED BY <2>1, InvSame
<1> QED BY <1>1, InvInit, PTL DEF TestsSpec

LEMMA Typed == IInv => TestsTypeOK
<1> SUFFICES ASSUME IInv PROVE TestsTypeOK
  OBVIOUS
<1>1. WalkInv /\ CallsInv /\ TestInv
  BY DEF IInv
<1>2. /\ shape \in Shapes /\ runTests \in BOOLEAN /\ sawExpect \in BOOLEAN /\ nlabel \in Nat
      /\ stage \in {"forms", "tests", "setup", "inspect", "body", "rest", "returned", "main", "done"}
      /\ test.items \in Seq([kind : shape.kinds \cup {"stray"}, debug : BOOLEAN])
  BY <1>1 DEF WalkInv, Working, Kept
<1>3. pos.form \in 1..shape.forms + 1 /\ pos.section \in 1..shape.sections /\ pos.item \in 1..shape.tests + 1
  <2>1. PICK q, n, m : q = pos.form /\ n = Len(forms) /\ m = shape.forms
    OBVIOUS
  <2>2. q \in 1..n + 1 /\ n \in Nat /\ m \in Nat /\ n <= m
    BY <1>1, <2>1, PosIs, ShapeIs DEF WalkInv
  <2>3. q \in 1..m + 1
    BY <2>2
  <2> QED BY <1>1, <2>1, <2>3, PosIs
<1>4. Len(calls) <= Len(funcs)
  BY <1>1 DEF CallsInv
<1>5. funcs # <<>> => runTests
  BY <1>1 DEF CallsInv
<1>6. test.part \in AllBlocks \cup {"none", "rest"} /\ (carried # 0 => carried \in BlockValues(test))
  <2>1. CASE InTest
    <3>1. DataGood(stage, test, sawExpect, carried)
      BY <1>1, <2>1, GoodIs DEF TestInv
    <3>2. test \in TestRecords /\ (carried # 0 => carried \in BlockValues(test))
      BY <3>1 DEF DataGood
    <3> QED BY <3>2 DEF TestRecords, PartNames
  <2>2. CASE ~InTest
    <3>1. test = NoTest /\ carried = 0
      BY <1>1, <2>2 DEF WalkInv
    <3> QED BY <3>1 DEF NoTest
  <2> QED BY <2>1, <2>2
<1> QED BY <1>2, <1>3, <1>4, <1>5, <1>6 DEF TestsTypeOK

\* Type correctness, whatever the program: has_last stands for a value that a statement of
\* this very test left, and no test is compiled unless tests are asked for (program.c:841-1058).
THEOREM TypesRight == TestsSpec => []TestsTypeOK
BY Invariant, Typed, PTL

\* What emit_tests_for_fn writes for a test is a function LLVM takes - blocks opened once,
\* closed before the next one opens, every branch landing - except exactly when an inspect
\* block ends without a return, or there is an expect-ne (program.c:518-622, 927-974).
THEOREM TextWellFormed == TestsSpec => []WellFormedText
<1>1. IInv => WellFormedText
  BY DEF IInv, FuncInv, FuncGood, WellFormedText
<1> QED BY <1>1, Invariant, PTL

\* What a test function answers and reports when it runs is what its expectations and its
\* values say, whatever the tests before it were (ir->saw_expect, last_expr; program.c:927-974).
THEOREM ReportsRight == TestsSpec => []TestsReport
<1>1. IInv => TestsReport
  <2> SUFFICES ASSUME IInv PROVE TestsReport
    OBVIOUS
  <2>1. \A i \in Compiled : Decides(funcs[i])
    BY DEF IInv, FuncInv, FuncGood, Compiled
  <2>2. ExpectationsDecide
    BY <2>1 DEF ExpectationsDecide, Decides
  <2>3. ValueDecides
    BY <2>1 DEF ValueDecides, Decides
  <2>4. FirstFailureShown
    <3> SUFFICES ASSUME NEW i \in Compiled, NEW agrees \in Futures(funcs[i])
                 PROVE  LET first  == IF Failing(funcs[i], agrees) = {} THEN {} ELSE {Min(Failing(funcs[i], agrees))}
                            blocks == {k \in first : funcs[i].items[k].debug}
                            run    == Execute(funcs[i].code, agrees)
                        IN /\ run.shown = first
                           /\ {k \in blocks : funcs[i].items[k].kind = "false"} \subseteq run.debugged
                           /\ run.debugged \subseteq blocks
      BY DEF FirstFailureShown
    <3>1. Decides(funcs[i])
      BY <2>1
    <3> QED BY <3>1 DEF Decides
  <2> QED BY <2>2, <2>3, <2>4 DEF TestsReport
<1> QED BY <1>1, Invariant, PTL

\* Each test the selection asks for becomes one function, in the order of the program; the
\* generated main calls each once and nothing else; and no two functions share a name unless
\* two sections of one function number their tests alike (program.c:483-514, 841-1058).
THEOREM TestsRunOnce == TestsSpec => []RunsEachTest
<1>1. IInv => RunsEachTest
  <2> SUFFICES ASSUME IInv PROVE RunsEachTest
    OBVIOUS
  <2>1. WalkInv /\ CallsInv /\ NamesInv
    BY DEF IInv
  <2>2. NamesOnce
    BY <2>1 DEF NamesInv, OnceIn, OfSections, NamesOnce
  <2>3. EachTestOnce
    <3> SUFFICES ASSUME stage = "done", runTests
                 PROVE  /\ calls = [i \in 1..Len(funcs) |-> funcs[i].name]
                        /\ {funcs[i].pos : i \in 1..Len(funcs)} = wanted
                        /\ \A i, j \in 1..Len(funcs) : i < j => Before(funcs[i].pos, funcs[j].pos)
      BY DEF EachTestOnce, Before
    <3>1. ~InTest
      BY DEF InTest, Working
    <3>2. {funcs[i].pos : i \in 1..Len(funcs)} = wanted
      BY <2>1, <3>1 DEF CallsInv
    <3>3. calls = [i \in 1..Len(funcs) |-> funcs[i].name]
      <4>1. calls \in Seq(Names) /\ Len(calls) = Len(funcs) /\ \A i \in 1..Len(calls) : calls[i] = funcs[i].name
        BY <2>1 DEF CallsInv
      <4>2. calls = [i \in 1..Len(calls) |-> calls[i]]
        BY <4>1
      <4> QED BY <4>1, <4>2
    <3> QED BY <2>1, <3>2, <3>3 DEF CallsInv
  <2> QED BY <2>2, <2>3 DEF RunsEachTest
<1> QED BY <1>1, Invariant, PTL

=============================================================================
