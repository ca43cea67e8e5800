------------------------- MODULE IncludeMergeProofs -------------------------
(***************************************************************************)
(* Proofs about IncludeMerge, for every set of files, directories and      *)
(* texts: the walk is sound, it implements the closure, and the tree it    *)
(* leaves holds every form once.                                           *)
(***************************************************************************)
EXTENDS IncludeMerge, FiniteSetTheorems, WellFoundedInduction, TLAPS

-----------------------------------------------------------------------------
(* The inductive invariant.                                                *)

\* Lists in which no include is left to follow, nor in a list below them.
CleanSet(ls, S) ==
    \A i \in S : \A p \in DOMAIN ls[i] :
        ls[i][p].kind # "include" /\ (ls[i][p].kind = "module" => ls[i][p].list \in S)
Cleaned(ls)  == UNION {S \in SUBSET DOMAIN ls : CleanSet(ls, S)}
Clean(ls, x) == x.kind # "include" /\ (x.kind = "module" => x.list \in Cleaned(ls))

\* A module's list lies behind the one that holds the module, and what is left to
\* follow in it was written in the file the module was.
TreeInv(ls) ==
    \A i \in DOMAIN ls : \A p \in DOMAIN ls[i] :
        ls[i][p].kind = "module" =>
            /\ ls[i][p].list \in (i + 1)..Len(ls)
            /\ \A q \in DOMAIN ls[ls[i][p].list] :
                  \/ Clean(ls, ls[ls[i][p].list][q])
                  \/ ls[ls[i][p].list][q].home = ls[i][p].home

\* Every activation walks a list of its own, for the directory of its file.
FramesInv ==
    /\ stack # <<>> /\ stack[1].list = 1 /\ stack[1].into = 0
    /\ \A k \in DOMAIN stack :
          /\ stack[k].dir = DirOf[stack[k].file]
          /\ stack[k].into # 0 => stack[k].file \in included
    /\ \A j, k \in DOMAIN stack : j < k => stack[j].list < stack[k].list

\* What is behind an activation has been dealt with; what is not was written in its file.
WalkedInv(ls, fr) ==
    \A p \in DOMAIN ls[fr.list] :
        /\ p < fr.at => Clean(ls, ls[fr.list][p])
        /\ Clean(ls, ls[fr.list][p]) \/ ls[fr.list][p].home = fr.file

\* An activation waits at the module or the include the next one is about.
WaitsInv(ls, fr, next) ==
    /\ fr.at \in DOMAIN ls[fr.list]
    /\ IF next.into = 0
       THEN /\ ls[fr.list][fr.at].kind = "module" /\ ls[fr.list][fr.at].list = next.list
            /\ next.file = fr.file
       ELSE /\ ls[fr.list][fr.at].kind = "include"
            /\ next.file = Resolve(ls[fr.list][fr.at].inc, fr.dir)

\* An include in the tree is one of the file it was written in.
FromText(ls) ==
    \A i \in DOMAIN ls : \A p \in DOMAIN ls[i] :
        ls[i][p].kind = "include" =>
            /\ ls[i][p].home \in DOMAIN text
            /\ \E q \in Where(text[ls[i][p].home], "include") :
                  text[ls[i][p].home][q[1]][q[2]].inc = ls[i][p].inc

\* An include of a file that was read is still in the tree, or what it names was merged.
Stands(ls, f, inc) ==
    \E i \in DOMAIN ls : \E p \in DOMAIN ls[i] :
        ls[i][p].kind = "include" /\ ls[i][p].home = f /\ ls[i][p].inc = inc
StandsInv ==
    \A f \in DOMAIN text : \A q \in Where(text[f], "include") :
        \/ Resolve(text[f][q[1]][q[2]].inc, DirOf[f]) \in included
        \/ Stands(lists, f, text[f][q[1]][q[2]].inc)

\* No list is lost: it has been walked, or is being walked, or belongs to a module.
HasModule(ls, i) == \E j \in DOMAIN ls : \E p \in DOMAIN ls[j] : ls[j][p].kind = "module" /\ ls[j][p].list = i
FoundInv ==
    \A i \in DOMAIN lists :
        i \in Cleaned(lists) \/ HasModule(lists, i) \/ \E k \in DOMAIN stack : stack[k].list = i

\* How the lists change in a step: an include is blanked, what is appended to a list has
\* been dealt with, and new lists come from one file.
Changed(ls, l2) ==
    /\ Len(ls) <= Len(l2)
    /\ \A i \in DOMAIN ls :
          /\ DOMAIN ls[i] \subseteq DOMAIN l2[i]
          /\ \A p \in DOMAIN ls[i] :
                \/ l2[i][p] = ls[i][p]
                \/ ls[i][p].kind = "include" /\ l2[i][p].kind = "blank"
          /\ \A p \in DOMAIN l2[i] \ DOMAIN ls[i] :
                Clean(ls, l2[i][p]) /\ (l2[i][p].kind = "module" => l2[i][p].list > i)
    /\ \A i \in DOMAIN l2 \ DOMAIN ls : \A p \in DOMAIN l2[i] :
          l2[i][p].kind = "module" =>
              /\ l2[i][p].list \in (i + 1)..Len(l2)
              /\ \A q \in DOMAIN l2[l2[i][p].list] : l2[l2[i][p].list][q].home = l2[i][p].home

-----------------------------------------------------------------------------
(* Lemmas about lists.                                                     *)

LEMMA CleanedClosed ==
    ASSUME NEW ls
    PROVE  CleanSet(ls, Cleaned(ls)) /\ Cleaned(ls) \subseteq DOMAIN ls
  BY DEF CleanSet, Cleaned

LEMMA InCleaned ==
    ASSUME NEW ls, NEW S \in SUBSET DOMAIN ls, CleanSet(ls, S)
    PROVE  S \subseteq Cleaned(ls)
  BY DEF Cleaned

LEMMA ListCleaned ==
    ASSUME NEW ls, NEW i \in DOMAIN ls, \A p \in DOMAIN ls[i] : Clean(ls, ls[i][p])
    PROVE  i \in Cleaned(ls)
<1>1. CleanSet(ls, Cleaned(ls)) /\ Cleaned(ls) \subseteq DOMAIN ls
  BY CleanedClosed
<1>2. CleanSet(ls, Cleaned(ls) \cup {i})
  BY <1>1 DEF CleanSet, Clean
<1>3. Cleaned(ls) \cup {i} \in SUBSET DOMAIN ls
  BY <1>1
<1> QED
  BY <1>2, <1>3, InCleaned

LEMMA CleanedKept ==
    ASSUME NEW ls \in Seq(Seq(ItemSet)), NEW l2 \in Seq(Seq(ItemSet)), Changed(ls, l2)
    PROVE  Cleaned(ls) \subseteq Cleaned(l2)
<1>1. CleanSet(ls, Cleaned(ls)) /\ Cleaned(ls) \subseteq DOMAIN ls
  BY CleanedClosed
<1>2. DOMAIN ls \subseteq DOMAIN l2
  BY DEF Changed
<1>3. ASSUME NEW i \in Cleaned(ls), NEW p \in DOMAIN l2[i]
      PROVE  l2[i][p].kind # "include" /\ (l2[i][p].kind = "module" => l2[i][p].list \in Cleaned(ls))
  <2>1. CASE p \in DOMAIN ls[i]
    <3>1. ls[i][p].kind # "include" /\ (ls[i][p].kind = "module" => ls[i][p].list \in Cleaned(ls))
      BY <1>1, <2>1 DEF CleanSet
    <3>2. l2[i][p] = ls[i][p]
      BY <1>1, <2>1, <3>1 DEF Changed
    <3> QED
      BY <3>1, <3>2
  <2>2. CASE p \notin DOMAIN ls[i]
    BY <1>1, <2>2 DEF Changed, Clean
  <2> QED
    BY <2>1, <2>2
<1>4. CleanSet(l2, Cleaned(ls))
  BY <1>3 DEF CleanSet
<1>5. Cleaned(ls) \in SUBSET DOMAIN l2
  BY <1>1, <1>2
<1> QED
  BY <1>4, <1>5, InCleaned

LEMMA CleanKept ==
    ASSUME NEW ls \in Seq(Seq(ItemSet)), NEW l2 \in Seq(Seq(ItemSet)), Changed(ls, l2),
           NEW x, Clean(ls, x)
    PROVE  Clean(l2, x)
  BY CleanedKept DEF Clean

\* An item of a list that was there is as it was, or has been dealt with.
LEMMA ItemKept ==
    ASSUME NEW ls \in Seq(Seq(ItemSet)), NEW l2 \in Seq(Seq(ItemSet)), Changed(ls, l2),
           NEW i \in DOMAIN ls, NEW p \in DOMAIN l2[i]
    PROVE  Clean(l2, l2[i][p]) \/ (p \in DOMAIN ls[i] /\ l2[i][p] = ls[i][p])
<1>1. CASE p \in DOMAIN ls[i] /\ l2[i][p].kind = "blank"
  BY <1>1 DEF Clean
<1>2. CASE p \in DOMAIN ls[i] /\ l2[i][p].kind # "blank"
  BY <1>2 DEF Changed
<1>3. CASE p \notin DOMAIN ls[i]
  <2>1. Clean(ls, l2[i][p])
    BY <1>3 DEF Changed
  <2> QED
    BY <2>1, CleanKept
<1> QED
  BY <1>1, <1>2, <1>3

LEMMA Between ==
    ASSUME NEW i \in Nat \ {0}, NEW m, NEW a \in Nat, NEW b \in Nat, a <= b
    PROVE  /\ m \in (i + 1)..a => m \in 1..a /\ m \in (i + 1)..b
           /\ m \in 1..a /\ m > i => m \in (i + 1)..b
  OBVIOUS

LEMMA TreeKept ==
    ASSUME NEW ls \in Seq(Seq(ItemSet)), NEW l2 \in Seq(Seq(ItemSet)), Changed(ls, l2), TreeInv(ls)
    PROVE  TreeInv(l2)
<1> SUFFICES ASSUME NEW i \in DOMAIN l2, NEW p \in DOMAIN l2[i], l2[i][p].kind = "module"
             PROVE  /\ l2[i][p].list \in (i + 1)..Len(l2)
                    /\ \A q \in DOMAIN l2[l2[i][p].list] :
                          \/ Clean(l2, l2[l2[i][p].list][q])
                          \/ l2[l2[i][p].list][q].home = l2[i][p].home
  BY DEF TreeInv
<1>1. CASE i \notin DOMAIN ls
  BY <1>1 DEF Changed
<1>4. /\ Len(ls) \in Nat /\ Len(l2) \in Nat /\ Len(ls) <= Len(l2) /\ DOMAIN ls = 1..Len(ls)
      /\ i \in Nat \ {0}
  BY DEF Changed
<1>2. CASE i \in DOMAIN ls /\ p \in DOMAIN ls[i]
  <2> DEFINE m == ls[i][p].list
  <2>1. l2[i][p] = ls[i][p]
    BY <1>2 DEF Changed
  <2>2. m \in (i + 1)..Len(ls) /\ \A q \in DOMAIN ls[m] : Clean(ls, ls[m][q]) \/ ls[m][q].home = ls[i][p].home
    BY <1>2, <2>1 DEF TreeInv
  <2> HIDE DEF m
  <2>3. m \in DOMAIN ls /\ m \in (i + 1)..Len(l2)
    BY <1>4, <2>2, Between
  <2>4. ASSUME NEW q \in DOMAIN l2[m]
        PROVE  Clean(l2, l2[m][q]) \/ l2[m][q].home = ls[i][p].home
    <3>1. CASE q \in DOMAIN ls[m] /\ l2[m][q] = ls[m][q]
      BY <2>2, <3>1, CleanKept
    <3> QED
      BY <2>3, <3>1, ItemKept
  <2> QED
    BY <2>1, <2>3, <2>4 DEF m
<1>3. CASE i \in DOMAIN ls /\ p \notin DOMAIN ls[i]
  <2> DEFINE m == l2[i][p].list
  <2>1. m \in Cleaned(ls) /\ m > i
    BY <1>3 DEF Changed, Clean
  <2>2. m \in DOMAIN ls /\ m \in (i + 1)..Len(l2)
    <3>1. m \in DOMAIN ls
      BY <2>1, CleanedClosed
    <3> HIDE DEF m
    <3> QED
      BY <1>4, <2>1, <3>1, Between
  <2>3. m \in Cleaned(l2)
    BY <2>1, CleanedKept
  <2>4. \A q \in DOMAIN l2[m] : Clean(l2, l2[m][q])
    BY <2>3, CleanedClosed DEF CleanSet, Clean
  <2> QED
    BY <2>2, <2>4
<1> QED
  BY <1>1, <1>2, <1>3

LEMMA WalkedKept ==
    ASSUME NEW ls \in Seq(Seq(ItemSet)), NEW l2 \in Seq(Seq(ItemSet)), Changed(ls, l2),
           NEW fr, fr.list \in DOMAIN ls, fr.at \in Nat, fr.at <= Len(ls[fr.list]) + 1, WalkedInv(ls, fr)
    PROVE  WalkedInv(l2, fr)
<1> DEFINE i == fr.list
<1>1. ASSUME NEW p \in DOMAIN l2[i]
      PROVE  /\ p < fr.at => Clean(l2, l2[i][p])
             /\ Clean(l2, l2[i][p]) \/ l2[i][p].home = fr.file
  <2>1. CASE p \in DOMAIN ls[i] /\ l2[i][p] = ls[i][p]
    BY <2>1, CleanKept DEF WalkedInv
  <2> QED
    BY <2>1, ItemKept
<1> QED
  BY <1>1 DEF WalkedInv
-----------------------------------------------------------------------------
(* How the actions change the lists.                                       *)

LEMMA Concatenated ==
    ASSUME NEW S, NEW s \in Seq(S), NEW r \in Seq(S)
    PROVE  /\ s \o r \in Seq(S)
           /\ Len(s \o r) = Len(s) + Len(r)
           /\ Len(s) \in Nat /\ Len(r) \in Nat
           /\ \A i \in 1..Len(s) : (s \o r)[i] = s[i]
           /\ \A i \in 1..Len(r) : (s \o r)[Len(s) + i] = r[i]
  OBVIOUS

Blank(x) == [x EXCEPT !.kind = "blank"]

LEMMA BlankedIs ==
    ASSUME NEW l \in Seq(ItemSet), NEW a \in DOMAIN l
    PROVE  /\ [l EXCEPT ![a].kind = "blank"] \in Seq(ItemSet)
           /\ Len([l EXCEPT ![a].kind = "blank"]) = Len(l)
           /\ \A p \in DOMAIN l : [l EXCEPT ![a].kind = "blank"][p] = IF p = a THEN Blank(l[a]) ELSE l[p]
<1>1. [l EXCEPT ![a].kind = "blank"] = [l EXCEPT ![a] = Blank(l[a])]
  BY DEF Blank
<1>2. Blank(l[a]) \in ItemSet
  <2>1. l[a] \in ItemSet
    OBVIOUS
  <2> QED
    BY <2>1 DEF Blank, ItemSet
<1> QED
  BY <1>1, <1>2

\* A list of the tree has an include blanked and cleaned items appended.
OneChanged(ls, l2, i, a) ==
    /\ l2 \in Seq(Seq(ItemSet)) /\ Len(l2) = Len(ls) /\ Changed(ls, l2)
    /\ \A j \in DOMAIN ls \ {i} : l2[j] = ls[j]
    /\ \A p \in DOMAIN ls[i] : l2[i][p] = IF p = a THEN Blank(ls[i][a]) ELSE ls[i][p]

LEMMA ChangedOne ==
    ASSUME NEW ls \in Seq(Seq(ItemSet)), NEW i \in DOMAIN ls, NEW a \in DOMAIN ls[i], ls[i][a].kind = "include",
           NEW new \in Seq(ItemSet),
           \A p \in DOMAIN new : Clean(ls, new[p]) /\ (new[p].kind = "module" => new[p].list > i)
    PROVE  OneChanged(ls, [ls EXCEPT ![i] = [ls[i] EXCEPT ![a].kind = "blank"] \o new], i, a)
<1> DEFINE b == [ls[i] EXCEPT ![a].kind = "blank"]
           l2 == [ls EXCEPT ![i] = b \o new]
<1>1. ls[i] \in Seq(ItemSet)
  OBVIOUS
<1>2. b \in Seq(ItemSet) /\ Len(b) = Len(ls[i]) /\ \A p \in DOMAIN ls[i] : b[p] = IF p = a THEN Blank(ls[i][a]) ELSE ls[i][p]
  BY <1>1, BlankedIs
<1> HIDE DEF b
<1>3. b \o new \in Seq(ItemSet) /\ Len(b \o new) = Len(ls[i]) + Len(new)
  <2>1. b \o new \in Seq(ItemSet) /\ Len(b \o new) = Len(b) + Len(new)
    BY <1>2, Concatenated
  <2> QED
    BY <1>2, <2>1
<1>4. l2 \in Seq(Seq(ItemSet)) /\ Len(l2) = Len(ls) /\ DOMAIN l2 = DOMAIN ls /\ l2[i] = b \o new
  BY <1>3
<1>5. \A j \in DOMAIN ls \ {i} : l2[j] = ls[j]
  OBVIOUS
<1> HIDE DEF l2
<1>6. \A p \in DOMAIN ls[i] : p \in DOMAIN l2[i] /\ l2[i][p] = IF p = a THEN Blank(ls[i][a]) ELSE ls[i][p]
  BY <1>1, <1>2, <1>4
<1>7. ASSUME NEW p \in DOMAIN l2[i] \ DOMAIN ls[i]
      PROVE  Clean(ls, l2[i][p]) /\ (l2[i][p].kind = "module" => l2[i][p].list > i)
  <2> DEFINE c == Len(ls[i])
             d == Len(new)
             x == p - c
  <2>1. /\ c \in Nat /\ d \in Nat /\ p \in 1..(c + d) \ 1..c
        /\ DOMAIN new = 1..d
    BY <1>1, <1>3, <1>4
  <2> HIDE DEF c, d
  <2>2. x \in 1..d /\ c + x = p
    BY ONLY <2>1
  <2> HIDE DEF x
  <2>3. (b \o new)[c + x] = new[x]
    <3>1. Len(b) = c
      BY <1>2 DEF c
    <3> QED
      BY <1>2, <2>2, <3>1, Concatenated DEF d
  <2>4. x \in DOMAIN new /\ l2[i][p] = new[x]
    BY <1>4, <2>1, <2>2, <2>3
  <2> QED
    BY <2>4
<1>8. Blank(ls[i][a]).kind = "blank"
  BY <1>1 DEF Blank, ItemSet
<1>9. Changed(ls, l2)
  <2>1. ASSUME NEW j \in DOMAIN ls
        PROVE  /\ DOMAIN ls[j] \subseteq DOMAIN l2[j]
               /\ \A p \in DOMAIN ls[j] :
                     \/ l2[j][p] = ls[j][p]
                     \/ ls[j][p].kind = "include" /\ l2[j][p].kind = "blank"
               /\ \A p \in DOMAIN l2[j] \ DOMAIN ls[j] :
                     Clean(ls, l2[j][p]) /\ (l2[j][p].kind = "module" => l2[j][p].list > j)
    <3>1. CASE j = i
      BY <1>6, <1>7, <1>8, <3>1
    <3>2. CASE j # i
      BY <1>5, <3>2
    <3> QED
      BY <3>1, <3>2
  <2>2. Len(ls) <= Len(l2) /\ DOMAIN l2 \ DOMAIN ls = {}
    BY <1>4
  <2> QED
    BY <2>1, <2>2 DEF Changed
<1> QED
  BY <1>4, <1>5, <1>6, <1>9 DEF OneChanged, l2, b

\* P holds the lists of a file, behind n others.
IsParsed(f, t, n, P) ==
    /\ P \in Seq(Seq(ItemSet)) /\ Len(P) = Len(t) /\ Len(t) \in Nat \ {0} /\ DOMAIN t = 1..Len(t)
    /\ \A i \in DOMAIN t : DOMAIN P[i] = DOMAIN t[i]
    /\ \A i \in DOMAIN t : \A p \in DOMAIN t[i] :
          /\ P[i][p].kind = t[i][p].kind
          /\ P[i][p].inc = t[i][p].inc
          /\ P[i][p].list = n + t[i][p].list
          /\ P[i][p].home = f
    /\ \A i \in DOMAIN t : \A p \in DOMAIN t[i] :
          /\ t[i][p].kind \in {"form", "include", "module"}
          /\ t[i][p].kind = "module" => t[i][p].list \in (i + 1)..Len(t)
    /\ \A i \in 2..Len(t) : \E j \in DOMAIN t : \E p \in DOMAIN t[j] :
          t[j][p].kind = "module" /\ t[j][p].list = i

LEMMA ParsedIs ==
    ASSUME NEW f \in Files \cup {Input}, NEW t \in Texts[IF f = Input THEN Main ELSE f], NEW n \in Nat
    PROVE  IsParsed(f, t, n, Parsed(f, t, n))
<1> DEFINE T == [kind : {"form", "include", "module"}, inc : Incs, list : Nat]
           P == Parsed(f, t, n)
<1>1. t \in Seq(Seq(T)) /\ t # <<>>
  BY FilesAssumption, TextsAssumption
<1>2. \A p \in Where(t, "module") : t[p[1]][p[2]].list \in (p[1] + 1)..Len(t)
  BY FilesAssumption, TextsAssumption
<1>3. \A i \in 2..Len(t) : Cardinality({p \in Where(t, "module") : t[p[1]][p[2]].list = i}) = 1
  BY FilesAssumption, TextsAssumption
<1>4. \A i \in DOMAIN t : t[i] \in Seq(T)
  BY <1>1
<1>5. \A i \in DOMAIN t : \A p \in DOMAIN t[i] : t[i][p] \in T
  <2> SUFFICES ASSUME NEW i \in DOMAIN t, NEW p \in DOMAIN t[i] PROVE t[i][p] \in T
    OBVIOUS
  <2> HIDE DEF T
  <2>1. t[i] \in Seq(T)
    BY <1>4
  <2> QED
    BY <2>1
<1> HIDE DEF T
<1>6. \A kind, p : p \in Where(t, kind) <=>
          \E i \in DOMAIN t : \E j \in DOMAIN t[i] : p = <<i, j>> /\ t[i][j].kind = kind
  BY DEF Where, Positions
<1>7. \A i \in DOMAIN t : P[i] = [j \in DOMAIN t[i] |->
          [kind |-> t[i][j].kind, inc |-> t[i][j].inc, list |-> n + t[i][j].list, home |-> f]]
  BY DEF Parsed
<1>8. DOMAIN P = DOMAIN t
  BY DEF Parsed
<1>9. \A i \in DOMAIN t : DOMAIN P[i] = DOMAIN t[i] /\ \A p \in DOMAIN t[i] :
          P[i][p] = [kind |-> t[i][p].kind, inc |-> t[i][p].inc, list |-> n + t[i][p].list, home |-> f]
  BY <1>7
<1>10. \A i \in DOMAIN t : P[i] \in Seq(ItemSet)
  <2> SUFFICES ASSUME NEW i \in DOMAIN t PROVE P[i] \in Seq(ItemSet)
    OBVIOUS
  <2>1. t[i] \in Seq(T)
    BY <1>4
  <2>2. \A p \in DOMAIN t[i] : [kind |-> t[i][p].kind, inc |-> t[i][p].inc, list |-> n + t[i][p].list, home |-> f] \in ItemSet
    BY <1>5 DEF T, ItemSet
  <2> DEFINE g == [j \in DOMAIN t[i] |->
          [kind |-> t[i][j].kind, inc |-> t[i][j].inc, list |-> n + t[i][j].list, home |-> f]]
  <2>3. DOMAIN g = 1..Len(t[i]) /\ Len(t[i]) \in Nat /\ \A p \in 1..Len(t[i]) : g[p] \in ItemSet
    BY <2>1, <2>2
  <2>4. g \in [1..Len(t[i]) -> ItemSet]
    BY <2>2, <2>3
  <2>5. g \in Seq(ItemSet)
    BY <2>3, <2>4
  <2> QED
    BY <1>7, <2>5
<1>11. Len(t) \in Nat \ {0} /\ DOMAIN t = 1..Len(t)
  BY <1>1
<1>12. P \in [1..Len(t) -> Seq(ItemSet)]
  <2>1. P = [i \in DOMAIN t |-> P[i]]
    BY DEF Parsed
  <2> QED
    BY <1>10, <1>11, <2>1
<1>13. P \in Seq(Seq(ItemSet)) /\ Len(P) = Len(t)
  BY <1>11, <1>12
<1>14. \A i \in 2..Len(t) : \E j \in DOMAIN t : \E p \in DOMAIN t[j] :
           t[j][p].kind = "module" /\ t[j][p].list = i
  <2> SUFFICES ASSUME NEW i \in 2..Len(t)
               PROVE  \E j \in DOMAIN t : \E p \in DOMAIN t[j] : t[j][p].kind = "module" /\ t[j][p].list = i
    OBVIOUS
  <2>1. {p \in Where(t, "module") : t[p[1]][p[2]].list = i} # {}
    BY <1>3, FS_EmptySet
  <2> QED
    BY <1>6, <2>1
<1>15. \A i \in DOMAIN t : \A p \in DOMAIN t[i] :
           t[i][p].kind = "module" => t[i][p].list \in (i + 1)..Len(t)
  <2> SUFFICES ASSUME NEW i \in DOMAIN t, NEW p \in DOMAIN t[i], t[i][p].kind = "module"
               PROVE  t[i][p].list \in (i + 1)..Len(t)
    OBVIOUS
  <2>1. <<i, p>> \in Where(t, "module")
    BY <1>6
  <2> QED
    BY <1>2, <2>1
<1>16. \A i \in DOMAIN t : \A p \in DOMAIN t[i] : t[i][p].kind \in {"form", "include", "module"}
  BY <1>5 DEF T
<1> HIDE DEF P
<1>17. \A i \in DOMAIN t : \A p \in DOMAIN t[i] :
          /\ P[i][p].kind = t[i][p].kind
          /\ P[i][p].inc = t[i][p].inc
          /\ P[i][p].list = n + t[i][p].list
          /\ P[i][p].home = f
  <2> SUFFICES ASSUME NEW i \in DOMAIN t, NEW p \in DOMAIN t[i]
               PROVE  /\ P[i][p].kind = t[i][p].kind
                      /\ P[i][p].inc = t[i][p].inc
                      /\ P[i][p].list = n + t[i][p].list
                      /\ P[i][p].home = f
    OBVIOUS
  <2>1. P[i][p] = [kind |-> t[i][p].kind, inc |-> t[i][p].inc, list |-> n + t[i][p].list, home |-> f]
    BY <1>9
  <2> QED
    BY <2>1
<1>18. \A i \in DOMAIN t : DOMAIN P[i] = DOMAIN t[i]
  BY <1>9
<1> QED
  BY <1>11, <1>13, <1>14, <1>15, <1>16, <1>17, <1>18 DEF P, IsParsed
\* The tree has the lists of a file behind its own.
NewLists(ls, l2, f, t, P) ==
    /\ l2 \in Seq(Seq(ItemSet)) /\ Len(l2) = Len(ls) + Len(t) /\ Len(t) \in Nat \ {0}
    /\ Changed(ls, l2)
    /\ \A i \in DOMAIN ls : l2[i] = ls[i]
    /\ \A i \in DOMAIN l2 \ DOMAIN ls : i - Len(ls) \in DOMAIN t /\ l2[i] = P[i - Len(ls)]
    /\ \A i \in DOMAIN t : Len(ls) + i \in DOMAIN l2 \ DOMAIN ls /\ l2[Len(ls) + i] = P[i]

LEMMA ChangedParsed ==
    ASSUME NEW ls \in Seq(Seq(ItemSet)),
           NEW f \in Files \cup {Input}, NEW t \in Texts[IF f = Input THEN Main ELSE f]
    PROVE  NewLists(ls, ls \o Parsed(f, t, Len(ls)), f, t, Parsed(f, t, Len(ls)))
<1> DEFINE n  == Len(ls)
           P  == Parsed(f, t, n)
           l2 == ls \o P
<1>1. n \in Nat
  OBVIOUS
<1> HIDE DEF n
<1>2. /\ P \in Seq(Seq(ItemSet))
      /\ Len(P) = Len(t) /\ Len(t) \in Nat \ {0}
      /\ \A i \in DOMAIN t : DOMAIN P[i] = DOMAIN t[i]
      /\ \A i \in DOMAIN t : \A p \in DOMAIN t[i] :
            /\ P[i][p].kind = t[i][p].kind
            /\ P[i][p].list = n + t[i][p].list
            /\ P[i][p].home = f
      /\ \A i \in DOMAIN t : \A p \in DOMAIN t[i] :
            t[i][p].kind = "module" => t[i][p].list \in (i + 1)..Len(t)
  <2>1. IsParsed(f, t, n, P)
    BY <1>1, ParsedIs
  <2> HIDE DEF P
  <2> QED
    BY <2>1 DEF IsParsed
<1>4. DOMAIN t = 1..Len(t) /\ ls \in Seq(Seq(ItemSet))
  BY <1>1, ParsedIs DEF IsParsed
<1> HIDE DEF P
<1>5. l2 \in Seq(Seq(ItemSet)) /\ Len(l2) = n + Len(t)
  <2> DEFINE S == Seq(ItemSet)
  <2>1. ls \in Seq(S) /\ P \in Seq(S)
    BY <1>2
  <2> HIDE DEF S
  <2>2. ls \o P \in Seq(S) /\ Len(ls \o P) = Len(ls) + Len(P)
    BY <2>1, Concatenated
  <2> QED
    BY <1>2, <2>2 DEF n, S
<1>6. \A i \in DOMAIN ls : l2[i] = ls[i]
  BY <1>2
<1>7. \A i \in DOMAIN t : n + i \in DOMAIN l2 \ DOMAIN ls /\ l2[n + i] = P[i]
  BY <1>2, <1>4 DEF n
<1>8. \A i \in DOMAIN l2 \ DOMAIN ls : i - n \in DOMAIN t /\ l2[i] = P[i - n]
  BY <1>2, <1>4 DEF n
<1>9. DOMAIN ls \subseteq DOMAIN l2 /\ Len(ls) <= Len(l2)
  BY <1>2, <1>5 DEF n
<1> HIDE DEF l2
<1>10. ASSUME NEW i \in DOMAIN l2 \ DOMAIN ls, NEW p \in DOMAIN l2[i], l2[i][p].kind = "module"
       PROVE  /\ l2[i][p].list \in (i + 1)..Len(l2)
              /\ \A q \in DOMAIN l2[l2[i][p].list] : l2[l2[i][p].list][q].home = l2[i][p].home
  <2> DEFINE j == i - n
             m == t[j][p].list
  <2>1. j \in DOMAIN t /\ l2[i] = P[j] /\ p \in DOMAIN t[j]
    BY <1>2, <1>8
  <2>2. i = n + j /\ j \in Nat
    <3>1. i \in Nat
      BY <1>5
    <3> QED
      BY <1>1, <1>4, <2>1, <3>1
  <2> HIDE DEF j
  <2>3. t[j][p].kind = "module" /\ l2[i][p].list = n + m /\ l2[i][p].home = f
    BY <1>2, <1>10, <2>1
  <2>4. m \in (j + 1)..Len(t)
    BY <1>2, <2>1, <2>3
  <2>5. m \in DOMAIN t
    BY <1>2, <1>4, <2>1, <2>2, <2>4
  <2>6. l2[n + m] = P[m] /\ DOMAIN P[m] = DOMAIN t[m]
    BY <1>2, <1>7, <2>5
  <2>7. \A q \in DOMAIN l2[n + m] : l2[n + m][q].home = f
    BY <1>2, <2>5, <2>6
  <2>8. n + m \in (i + 1)..Len(l2)
    <3>1. n \in Nat /\ j \in Nat /\ i = n + j /\ Len(t) \in Nat /\ Len(l2) = n + Len(t) /\ m \in (j + 1)..Len(t)
      BY <1>1, <1>2, <1>5, <2>2, <2>4
    <3> HIDE DEF m
    <3> QED
      BY ONLY <3>1
  <2> QED
    BY <2>3, <2>7, <2>8
<1>11. Changed(ls, l2)
  BY <1>6, <1>9, <1>10 DEF Changed
<1> QED
  BY <1>2, <1>5, <1>6, <1>7, <1>8, <1>11 DEF n, P, l2, NewLists

\* What an include may name.
LEMMA Least ==
    ASSUME NEW T \in SUBSET Nat, T # {}
    PROVE  \E x \in T : \A y \in T : x <= y
<1> DEFINE R == OpToRel(<, Nat)
<1>1. IsWellFoundedOn(R, Nat)
  BY NatLessThanWellFounded
<1>2. \A x, y \in Nat : x < y => <<x, y>> \in R
  BY DEF OpToRel
<1> HIDE DEF R
<1>3. \E x \in T : \A y \in T : ~ (<<y, x>> \in R)
  BY <1>1, WFMin
<1>4. PICK x \in T : \A y \in T : ~ (<<y, x>> \in R)
  BY <1>3
<1>5. ASSUME NEW y \in T
      PROVE  x <= y
  <2>1. x \in Nat /\ y \in Nat
    OBVIOUS
  <2>2. ~ (y < x)
    BY <1>2, <1>4, <2>1
  <2> QED
    BY <2>1, <2>2
<1> QED
  BY <1>5

LEMMA ResolveType ==
    ASSUME NEW inc, NEW dir \in Dirs
    PROVE  Resolve(inc, dir) \in Files \cup {NotFound}
<1> DEFINE places == Places(inc, dir)
           hits   == {i \in DOMAIN places : <<places[i], inc.name>> \in DOMAIN Disk}
<1>1. places \in Seq(Dirs)
  BY DiskAssumption DEF Places
<1>2. hits \subseteq Nat
  BY <1>1
<1>3. CASE hits = {}
  BY <1>3 DEF Resolve
<1>4. CASE hits # {}
  <2> DEFINE i == CHOOSE i \in hits : \A j \in hits : i <= j
  <2>1. \E k \in hits : \A j \in hits : k <= j
    BY <1>2, <1>4, Least
  <2>2. i \in hits
    BY <2>1
  <2>3. Resolve(inc, dir) = Disk[<<places[i], inc.name>>]
    BY <1>4 DEF Resolve
  <2>4. <<places[i], inc.name>> \in DOMAIN Disk
    BY <2>2
  <2> HIDE DEF i
  <2> QED
    BY <2>3, <2>4, DiskAssumption
<1> HIDE DEF hits, places
<1> QED
  BY <1>3, <1>4
-----------------------------------------------------------------------------
(* The walk.                                                               *)

WalkInv == \A k \in DOMAIN stack : WalkedInv(lists, stack[k])
WaitInv == \A k \in 1..Len(stack) - 1 : WaitsInv(lists, stack[k], stack[k + 1])

IInv ==
    /\ TypeOK /\ FramesInv
    /\ TreeInv(lists) /\ WalkInv /\ WaitInv
    /\ FromText(lists) /\ StandsInv /\ FoundInv
    /\ NoReentry

\* What holds at the top of the stack.
LEMMA AtTop ==
    ASSUME TypeOK, FramesInv
    PROVE  /\ Len(stack) \in Nat \ {0} /\ Len(stack) \in DOMAIN stack /\ DOMAIN stack = 1..Len(stack)
           /\ Top = stack[Len(stack)] /\ Top \in FrameSet
           /\ Top.list \in DOMAIN lists /\ Top.at \in Nat \ {0} /\ Top.file \in Files \cup {Input}
           /\ Top.dir = DirOf[Top.file] /\ Top.dir \in Dirs
           /\ Len(lists[Top.list]) \in Nat /\ DOMAIN lists[Top.list] = 1..Len(lists[Top.list])
           /\ Top.at <= Len(lists[Top.list]) + 1
           /\ InList <=> Top.at \in DOMAIN lists[Top.list]
           /\ Item = lists[Top.list][Top.at]
<1>1. stack \in Seq(FrameSet) /\ stack # <<>>
  BY DEF TypeOK, FramesInv
<1>2. Len(stack) \in Nat \ {0} /\ Len(stack) \in DOMAIN stack /\ DOMAIN stack = 1..Len(stack)
  BY <1>1
<1>3. Top = stack[Len(stack)] /\ Top \in FrameSet
  BY <1>1, <1>2 DEF Top
<1>4. /\ Top.list \in 1..Len(lists) /\ Top.at \in Nat \ {0} /\ Top.file \in Files \cup {Input}
      /\ Top.dir \in Dirs
  BY <1>3 DEF FrameSet
<1>5. lists \in Seq(Seq(ItemSet))
  BY DEF TypeOK
<1>6. Top.list \in DOMAIN lists /\ lists[Top.list] \in Seq(ItemSet)
  BY <1>4, <1>5
<1>7. Len(lists[Top.list]) \in Nat /\ DOMAIN lists[Top.list] = 1..Len(lists[Top.list])
  BY <1>6
<1>8. Top.at <= Len(lists[Top.list]) + 1 /\ Top.dir = DirOf[Top.file]
  BY <1>2, <1>3 DEF TypeOK, FramesInv
<1>9. InList <=> Top.at \in DOMAIN lists[Top.list]
  BY <1>4, <1>7 DEF InList
<1> QED
  BY <1>2, <1>3, <1>4, <1>6, <1>7, <1>8, <1>9 DEF Item

\* An include that is left was written in the file whose activation meets it.
LEMMA IncludeHome ==
    ASSUME IInv, InList, Item.kind = "include"
    PROVE  /\ Item.home = Top.file /\ Top.dir = DirOf[Item.home]
           /\ Item \in ItemSet
<1>1. Len(stack) \in DOMAIN stack /\ Top = stack[Len(stack)] /\ Top.dir = DirOf[Top.file]
  BY AtTop DEF IInv
<1>2. Top.list \in DOMAIN lists /\ Top.at \in DOMAIN lists[Top.list] /\ Item = lists[Top.list][Top.at]
  BY AtTop DEF IInv
<1>3. ~ Clean(lists, Item)
  BY DEF Clean
<1>4. Item.home = Top.file
  BY <1>1, <1>2, <1>3 DEF IInv, WalkInv, WalkedInv
<1>5. Item \in ItemSet
  <2>1. lists[Top.list] \in Seq(ItemSet)
    BY <1>2 DEF IInv, TypeOK
  <2> QED
    BY <1>2, <2>1
<1> QED
  BY <1>1, <1>4, <1>5

LEMMA Sound ==
    ASSUME IInv
    PROVE  WalkSound
  BY IncludeHome DEF IInv, WalkSound, OwnDirectory

\* A walk that is at the end of its list has cleaned it.
LEMMA AtEnd ==
    ASSUME IInv, ~InList
    PROVE  /\ Top.list \in Cleaned(lists)
           /\ \A p \in DOMAIN lists[Top.list] : Clean(lists, lists[Top.list][p])
<1>1. Len(stack) \in DOMAIN stack /\ Top = stack[Len(stack)] /\ Top.list \in DOMAIN lists
  BY AtTop DEF IInv
<1>2. Top.at \in Nat /\ DOMAIN lists[Top.list] = 1..Len(lists[Top.list]) /\ Len(lists[Top.list]) \in Nat
      /\ Top.at <= Len(lists[Top.list]) + 1 /\ Top.at \notin DOMAIN lists[Top.list]
  BY AtTop DEF IInv
<1>3. \A p \in DOMAIN lists[Top.list] : p < Top.at
  <2> DEFINE m == Len(lists[Top.list])
             a == Top.at
  <2>1. a \in Nat /\ m \in Nat /\ a <= m + 1 /\ a \notin 1..m /\ a # 0
    BY <1>2, AtTop DEF IInv
  <2>2. DOMAIN lists[Top.list] = 1..m
    BY <1>2
  <2> HIDE DEF a, m
  <2>3. \A p \in 1..m : p < a
    BY ONLY <2>1
  <2> QED
    BY <2>2, <2>3 DEF a
<1>4. \A p \in DOMAIN lists[Top.list] : Clean(lists, lists[Top.list][p])
  BY <1>1, <1>3 DEF IInv, WalkInv, WalkedInv
<1>5. Top.list \in Cleaned(lists)
  BY <1>1, <1>4, ListCleaned
<1> QED
  BY <1>4, <1>5

-----------------------------------------------------------------------------
(* The stack.                                                              *)

Frames(n) ==
    [list : 1..n, at : Nat \ {0}, dir : Dirs, file : Files \cup {Input}, into : 0..n]

LEMMA FramesAre == FrameSet = Frames(Len(lists))
  BY DEF FrameSet, Frames

\* The frames of a stack without the innermost ones, the last of them gone on.
Gone(s, fr) ==
    /\ Len(fr) \in 1..Len(s) /\ DOMAIN fr = 1..Len(fr)
    /\ \A k \in 1..Len(fr) :
          /\ fr[k].list = s[k].list /\ fr[k].dir = s[k].dir
          /\ fr[k].file = s[k].file /\ fr[k].into = s[k].into
    /\ \A k \in 1..Len(fr) - 1 : fr[k] = s[k]
    /\ fr[Len(fr)].at = s[Len(fr)].at + 1

LEMMA AdvancedIs ==
    ASSUME NEW n \in Nat, NEW s \in Seq(Frames(n)), NEW m \in 1..Len(s)
    PROVE  LET fr == Advanced(SubSeq(s, 1, m)) IN fr \in Seq(Frames(n)) /\ Len(fr) = m /\ Gone(s, fr)
<1> DEFINE b  == SubSeq(s, 1, m)
           fr == Advanced(b)
<1>1. Len(s) \in Nat /\ m \in Nat \ {0} /\ m <= Len(s)
  OBVIOUS
<1>2. b \in Seq(Frames(n)) /\ Len(b) = m /\ \A k \in 1..m : b[k] = s[k]
  BY <1>1
<1> HIDE DEF b
<1>3. \A k \in 1..m : b[k] \in Frames(n)
  BY <1>2
<1>4. fr = [b EXCEPT ![m] = [b[m] EXCEPT !.at = b[m].at + 1]]
  BY <1>2 DEF Advanced
<1>5. m \in 1..m
  BY <1>1
<1> DEFINE x == [b[m] EXCEPT !.at = b[m].at + 1]
<1>6. /\ x \in Frames(n) /\ x.list = b[m].list /\ x.dir = b[m].dir
      /\ x.file = b[m].file /\ x.into = b[m].into /\ x.at = b[m].at + 1
  <2>1. b[m] \in Frames(n)
    BY <1>3, <1>5
  <2>2. b[m] \in [list : 1..n, at : Nat \ {0}, dir : Dirs, file : Files \cup {Input}, into : 0..n]
    BY <2>1 DEF Frames
  <2>3. b[m].at + 1 \in Nat \ {0}
    BY <2>2
  <2> QED
    BY <2>2, <2>3 DEF Frames
<1> HIDE DEF x
<1>7. fr = [b EXCEPT ![m] = x]
  BY <1>4 DEF x
<1> HIDE DEF fr
<1>8. fr \in Seq(Frames(n)) /\ Len(fr) = m /\ DOMAIN fr = 1..m
  BY <1>2, <1>6, <1>7
<1>9. fr[m] = x /\ \A k \in 1..m : k # m => fr[k] = b[k]
  BY <1>2, <1>5, <1>7
<1>10. \A k \in 1..m :
          /\ fr[k].list = s[k].list /\ fr[k].dir = s[k].dir
          /\ fr[k].file = s[k].file /\ fr[k].into = s[k].into
  <2> SUFFICES ASSUME NEW k \in 1..m
               PROVE  /\ fr[k].list = s[k].list /\ fr[k].dir = s[k].dir
                      /\ fr[k].file = s[k].file /\ fr[k].into = s[k].into
    OBVIOUS
  <2>1. CASE k = m
    BY <1>2, <1>5, <1>6, <1>9, <2>1
  <2>2. CASE k # m
    BY <1>2, <1>9, <2>2
  <2> QED
    BY <2>1, <2>2
<1>11. \A k \in 1..m - 1 : fr[k] = s[k]
  <2>1. \A k \in 1..m - 1 : k \in 1..m /\ k # m
    BY <1>1
  <2> QED
    BY <1>2, <1>9, <2>1
<1>12. fr[m].at = s[m].at + 1
  BY <1>2, <1>5, <1>6, <1>9
<1>13. Gone(s, fr)
  BY <1>1, <1>8, <1>10, <1>11, <1>12 DEF Gone
<1> QED
  BY <1>8, <1>13 DEF fr, b

\* What a frame of the stack is.
LEMMA FrameIs ==
    ASSUME TypeOK, NEW k \in DOMAIN stack
    PROVE  /\ stack[k] \in FrameSet /\ k \in Nat \ {0} /\ k <= Len(stack)
           /\ stack[k].list \in DOMAIN lists /\ stack[k].at \in Nat \ {0}
           /\ stack[k].at <= Len(lists[stack[k].list]) + 1
           /\ Len(lists[stack[k].list]) \in Nat
           /\ DOMAIN lists[stack[k].list] = 1..Len(lists[stack[k].list])
<1>1. stack \in Seq(FrameSet) /\ lists \in Seq(Seq(ItemSet))
  BY DEF TypeOK
<1>2. stack[k] \in FrameSet /\ k \in Nat \ {0} /\ k <= Len(stack)
  BY <1>1
<1>3. stack[k].list \in 1..Len(lists) /\ stack[k].at \in Nat \ {0}
  BY <1>2 DEF FrameSet
<1>4. stack[k].list \in DOMAIN lists /\ lists[stack[k].list] \in Seq(ItemSet)
  BY <1>1, <1>3
<1> QED
  BY <1>2, <1>3, <1>4 DEF TypeOK

\* A step that goes on with the next item of an activation, over lists that keep their number.
Goes(m) ==
    /\ lists' \in Seq(Seq(ItemSet)) /\ Len(lists') = Len(lists) /\ Changed(lists, lists')
    /\ stack' \in Seq(FrameSet) /\ Len(stack') = m /\ Gone(stack, stack')
    /\ stack[m].at \in DOMAIN lists[stack[m].list]
    /\ Clean(lists', lists'[stack[m].list][stack[m].at])
    /\ \A k \in 1..m - 1 : lists'[stack[k].list] = lists[stack[k].list]
    /\ \A k \in m + 1..Len(stack) :
          stack[k].list \in Cleaned(lists) \/ HasModule(lists, stack[k].list)
    /\ \A i \in DOMAIN lists : \A p \in DOMAIN lists[i] :
          lists[i][p].kind = "include" =>
              \/ lists'[i][p] = lists[i][p]
              \/ Resolve(lists[i][p].inc, DirOf[lists[i][p].home]) \in included
    /\ text' = text /\ included' = included /\ status' = status

LEMMA GoesTyped ==
    ASSUME IInv, NEW m \in 1..Len(stack), Goes(m)
    PROVE  TypeOK'
<1>1. /\ lists \in Seq(Seq(ItemSet)) /\ lists' \in Seq(Seq(ItemSet)) /\ Len(lists') = Len(lists)
      /\ Changed(lists, lists')
      /\ Gone(stack, stack') /\ Len(stack') = m /\ DOMAIN stack' = 1..m
  BY DEF IInv, TypeOK, Goes, Gone
<1>2. DOMAIN stack = 1..Len(stack) /\ Len(stack) \in Nat /\ m \in Nat \ {0} /\ m <= Len(stack)
  BY AtTop DEF IInv
<1>3. stack' \in Seq(FrameSet)'
  <2>1. FrameSet' = FrameSet
    BY <1>1 DEF FrameSet
  <2> QED
    BY <2>1 DEF Goes
<1>4. ASSUME NEW k \in DOMAIN stack'
      PROVE  stack'[k].at <= Len(lists'[stack'[k].list]) + 1
  <2>1. k \in DOMAIN stack /\ stack'[k].list = stack[k].list /\ k \in 1..m
    BY <1>1, <1>2 DEF Gone
  <2> DEFINE l == stack[k].list
             a == stack[k].at
  <2>2. l \in DOMAIN lists /\ a \in Nat /\ a <= Len(lists[l]) + 1
    BY <2>1, FrameIs DEF IInv
  <2>3. lists[l] \in Seq(ItemSet) /\ lists'[l] \in Seq(ItemSet) /\ DOMAIN lists[l] \subseteq DOMAIN lists'[l]
    <3> HIDE DEF l
    <3>1. l \in DOMAIN lists /\ l \in DOMAIN lists'
      BY <1>1, <2>2
    <3>2. lists[l] \in Seq(ItemSet) /\ lists'[l] \in Seq(ItemSet)
      BY <1>1, <3>1
    <3> QED
      BY <1>1, <3>1, <3>2 DEF Changed
  <2> HIDE DEF l
  <2>4. Len(lists[l]) \in Nat /\ Len(lists'[l]) \in Nat /\ 1..Len(lists[l]) \subseteq 1..Len(lists'[l])
    BY <2>3
  <2>5. Len(lists[l]) <= Len(lists'[l])
    <3>1. Len(lists[l]) # 0 => Len(lists[l]) \in 1..Len(lists'[l])
      BY <2>4
    <3> QED
      BY <2>4, <3>1
  <2>6. CASE k = m
    <3>1. stack'[k].at = a + 1 /\ a \in DOMAIN lists[l]
      BY <1>1, <2>6 DEF Gone, Goes, l
    <3>2. a <= Len(lists[l])
      BY <2>3, <3>1
    <3> HIDE DEF a
    <3>3. stack'[k].at <= Len(lists'[l]) + 1
      BY <2>2, <2>4, <2>5, <3>1, <3>2
    <3> QED
      BY <2>1, <3>3 DEF l
  <2>7. CASE k # m
    <3>1. k \in 1..m - 1
      BY <1>2, <2>1, <2>7
    <3>2. stack'[k].at = a
      BY <1>1, <3>1 DEF Gone
    <3> HIDE DEF a
    <3>3. stack'[k].at <= Len(lists'[l]) + 1
      BY <2>2, <2>4, <2>5, <3>2
    <3> QED
      BY <2>1, <3>3 DEF l
  <2> QED
    BY <2>6, <2>7
<1>5. ASSUME NEW k \in DOMAIN stack', stack'[k].into # 0
      PROVE  k > 1 /\ stack'[k].into = stack'[k - 1].list
  <2>1. k \in DOMAIN stack /\ stack'[k].into = stack[k].into /\ k \in 1..m
    BY <1>1, <1>2 DEF Gone
  <2>2. k > 1 /\ stack[k].into = stack[k - 1].list
    BY <1>5, <2>1 DEF IInv, TypeOK
  <2>3. k - 1 \in 1..m
    BY <1>2, <2>1, <2>2
  <2> QED
    BY <1>1, <2>1, <2>2, <2>3 DEF Gone
<1>6. /\ DOMAIN text' = included' \cup {Input} /\ included' \subseteq Files
      /\ \A f \in DOMAIN text' : text'[f] \in Texts[IF f = Input THEN Main ELSE f]
      /\ status' \in {"walking", "done", "failed"}
  BY DEF Goes, IInv, TypeOK
<1> QED
  BY <1>1, <1>3, <1>4, <1>5, <1>6 DEF TypeOK

LEMMA GoesFrames ==
    ASSUME IInv, NEW m \in 1..Len(stack), Goes(m)
    PROVE  FramesInv' /\ NoReentry'
<1>1. /\ Gone(stack, stack') /\ Len(stack') = m /\ DOMAIN stack' = 1..m /\ included' = included
  BY DEF Goes, Gone
<1>2. DOMAIN stack = 1..Len(stack) /\ Len(stack) \in Nat /\ m \in Nat \ {0} /\ m <= Len(stack)
  BY AtTop DEF IInv
<1>3. \A k \in 1..m : k \in DOMAIN stack /\
          /\ stack'[k].list = stack[k].list /\ stack'[k].dir = stack[k].dir
          /\ stack'[k].file = stack[k].file /\ stack'[k].into = stack[k].into
  BY <1>1, <1>2 DEF Gone
<1>4. 1 \in 1..m
  BY <1>2
<1>5. stack' # <<>>
  BY <1>1, <1>2
<1>6. stack'[1].list = 1 /\ stack'[1].into = 0
  BY <1>3, <1>4 DEF IInv, FramesInv
<1>7. \A k \in 1..m : stack'[k].dir = DirOf[stack'[k].file] /\ (stack'[k].into # 0 => stack'[k].file \in included')
  BY <1>1, <1>3 DEF IInv, FramesInv
<1>8. \A j, k \in 1..m : j < k => stack'[j].list < stack'[k].list
  BY <1>3 DEF IInv, FramesInv
<1>9. \A j, k \in 1..m :
         stack'[j].into # 0 /\ stack'[k].into # 0 /\ stack'[j].file = stack'[k].file => j = k
  BY <1>3 DEF IInv, NoReentry
<1> QED
  BY <1>1, <1>5, <1>6, <1>7, <1>8, <1>9 DEF FramesInv, NoReentry
LEMMA ChangedSame ==
    ASSUME NEW ls \in Seq(Seq(ItemSet)), TreeInv(ls)
    PROVE  Changed(ls, ls)
  BY DEF Changed

LEMMA GoesWalk ==
    ASSUME IInv, NEW m \in 1..Len(stack), Goes(m)
    PROVE  TreeInv(lists)' /\ WalkInv' /\ WaitInv'
<1>1. /\ lists \in Seq(Seq(ItemSet)) /\ lists' \in Seq(Seq(ItemSet)) /\ Changed(lists, lists')
      /\ Gone(stack, stack') /\ Len(stack') = m /\ DOMAIN stack' = 1..m
  BY DEF Goes, Gone, IInv, TypeOK
<1>2. DOMAIN stack = 1..Len(stack) /\ Len(stack) \in Nat /\ m \in Nat \ {0} /\ m <= Len(stack)
  BY AtTop DEF IInv
<1>3. \A k \in 1..m : k \in DOMAIN stack /\
          /\ stack'[k].list = stack[k].list /\ stack'[k].dir = stack[k].dir
          /\ stack'[k].file = stack[k].file /\ stack'[k].into = stack[k].into
  BY <1>1, <1>2 DEF Gone
<1>4. \A k \in 1..m : k # m => stack'[k] = stack[k]
  <2>1. \A k \in 1..m : k # m => k \in 1..m - 1
    BY <1>2
  <2> QED
    BY <1>1, <2>1 DEF Gone
<1>5. \A k \in 1..m : WalkedInv(lists', stack[k])
  <2> SUFFICES ASSUME NEW k \in 1..m PROVE WalkedInv(lists', stack[k])
    OBVIOUS
  <2>1. /\ stack[k].list \in DOMAIN lists /\ stack[k].at \in Nat
        /\ stack[k].at <= Len(lists[stack[k].list]) + 1
    BY <1>3, FrameIs DEF IInv
  <2>2. WalkedInv(lists, stack[k])
    BY <1>3 DEF IInv, WalkInv
  <2> QED
    BY <1>1, <2>1, <2>2, WalkedKept
<1>6. TreeInv(lists')
  BY <1>1, TreeKept DEF IInv
<1>7. ASSUME NEW k \in 1..m
      PROVE  WalkedInv(lists', stack'[k])
  <2>1. CASE k # m
    BY <1>4, <1>5, <2>1
  <2>2. CASE k = m
    <3> DEFINE l == stack[m].list
    <3>1. WalkedInv(lists', stack[m]) /\ stack'[m].list = l /\ stack'[m].file = stack[m].file
      BY <1>3, <1>5, <2>2
    <3>2. stack'[m].at = stack[m].at + 1
      BY <1>1 DEF Gone
    <3>3. Clean(lists', lists'[l][stack[m].at])
      BY DEF Goes
    <3>4. l \in DOMAIN lists /\ l \in DOMAIN lists'
      BY <1>1, <1>3, <2>2, FrameIs DEF IInv, Changed
    <3>5. lists'[l] \in Seq(ItemSet)
      BY <1>1, <3>4
    <3>6. \A p \in DOMAIN lists'[l] : p \in Nat
      BY <3>5
    <3>7. stack[m].at \in Nat
      BY <1>3, <2>2, FrameIs DEF IInv
    <3> DEFINE a == stack[m].at
    <3> HIDE DEF a
    <3>8. \A p \in DOMAIN lists'[l] : p < a + 1 => p < a \/ p = a
      BY <3>6, <3>7 DEF a
    <3>9. ASSUME NEW p \in DOMAIN lists'[l], p < stack[m].at + 1
          PROVE  Clean(lists', lists'[l][p])
      BY <3>1, <3>3, <3>8, <3>9 DEF WalkedInv, a
    <3>10. ASSUME NEW p \in DOMAIN lists'[l]
           PROVE  Clean(lists', lists'[l][p]) \/ lists'[l][p].home = stack'[m].file
      BY <3>1 DEF WalkedInv
    <3> HIDE DEF l
    <3>11. WalkedInv(lists', stack'[m])
      BY <3>1, <3>2, <3>9, <3>10 DEF WalkedInv
    <3> QED
      BY <2>2, <3>11
  <2> QED
    BY <2>1, <2>2
<1>8. ASSUME NEW k \in 1..m - 1
      PROVE  WaitsInv(lists', stack'[k], stack'[k + 1])
  <2>1. k \in 1..m /\ k + 1 \in 1..m /\ k # m /\ k \in 1..Len(stack) - 1
    BY <1>2
  <2>2. WaitsInv(lists, stack[k], stack[k + 1])
    BY <2>1 DEF IInv, WaitInv
  <2>3. stack'[k] = stack[k] /\ lists'[stack[k].list] = lists[stack[k].list]
    BY <1>4, <2>1 DEF Goes
  <2>4. /\ stack'[k + 1].list = stack[k + 1].list /\ stack'[k + 1].file = stack[k + 1].file
        /\ stack'[k + 1].into = stack[k + 1].into
    BY <1>3, <2>1
  <2> QED
    BY <2>2, <2>3, <2>4 DEF WaitsInv
<1>9. WalkInv'
  BY <1>1, <1>7 DEF WalkInv
<1>10. WaitInv'
  BY <1>1, <1>8 DEF WaitInv
<1> QED
  BY <1>6, <1>9, <1>10

LEMMA ModuleKept ==
    ASSUME NEW ls \in Seq(Seq(ItemSet)), NEW l2 \in Seq(Seq(ItemSet)), Changed(ls, l2),
           NEW i, HasModule(ls, i)
    PROVE  HasModule(l2, i)
<1>1. PICK j \in DOMAIN ls : \E p \in DOMAIN ls[j] : ls[j][p].kind = "module" /\ ls[j][p].list = i
  BY DEF HasModule
<1>2. PICK p \in DOMAIN ls[j] : ls[j][p].kind = "module" /\ ls[j][p].list = i
  BY <1>1
<1>3. j \in DOMAIN l2 /\ p \in DOMAIN l2[j] /\ l2[j][p] = ls[j][p]
  BY <1>2 DEF Changed
<1> QED
  BY <1>2, <1>3 DEF HasModule

LEMMA GoesTold ==
    ASSUME IInv, NEW m \in 1..Len(stack), Goes(m)
    PROVE  FromText(lists)' /\ StandsInv' /\ FoundInv'
<1>1. /\ lists \in Seq(Seq(ItemSet)) /\ lists' \in Seq(Seq(ItemSet)) /\ Changed(lists, lists')
      /\ DOMAIN lists' = DOMAIN lists
      /\ text' = text /\ included' = included
  <2>1. lists \in Seq(Seq(ItemSet)) /\ lists' \in Seq(Seq(ItemSet)) /\ Len(lists') = Len(lists)
    BY DEF Goes, IInv, TypeOK
  <2>2. DOMAIN lists' = DOMAIN lists
    BY <2>1
  <2> QED
    BY <2>1, <2>2 DEF Goes
<1>2. /\ Gone(stack, stack') /\ Len(stack') = m /\ DOMAIN stack' = 1..m
      /\ DOMAIN stack = 1..Len(stack) /\ Len(stack) \in Nat /\ m \in Nat \ {0} /\ m <= Len(stack)
  BY AtTop DEF Goes, Gone, IInv
<1>3. ASSUME NEW i \in DOMAIN lists', NEW p \in DOMAIN lists'[i], lists'[i][p].kind = "include"
      PROVE  p \in DOMAIN lists[i] /\ lists'[i][p] = lists[i][p]
  <2>1. ~ Clean(lists', lists'[i][p])
    BY <1>3 DEF Clean
  <2> QED
    BY <1>1, <2>1, ItemKept
<1>4. FromText(lists)'
  <2> SUFFICES ASSUME NEW i \in DOMAIN lists', NEW p \in DOMAIN lists'[i], lists'[i][p].kind = "include"
               PROVE  /\ lists'[i][p].home \in DOMAIN text'
                      /\ \E q \in Where(text'[lists'[i][p].home], "include") :
                            text'[lists'[i][p].home][q[1]][q[2]].inc = lists'[i][p].inc
    BY DEF FromText
  <2>1. i \in DOMAIN lists /\ p \in DOMAIN lists[i] /\ lists'[i][p] = lists[i][p]
    BY <1>1, <1>3
  <2>2. /\ lists[i][p].home \in DOMAIN text
        /\ \E q \in Where(text[lists[i][p].home], "include") :
              text[lists[i][p].home][q[1]][q[2]].inc = lists[i][p].inc
    BY <2>1 DEF IInv, FromText
  <2> QED
    BY <1>1, <2>1, <2>2
<1>5. StandsInv'
  <2> SUFFICES ASSUME NEW f \in DOMAIN text, NEW q \in Where(text[f], "include")
               PROVE  \/ Resolve(text[f][q[1]][q[2]].inc, DirOf[f]) \in included
                      \/ Stands(lists', f, text[f][q[1]][q[2]].inc)
    BY <1>1 DEF StandsInv
  <2> DEFINE inc == text[f][q[1]][q[2]].inc
  <2>1. CASE Resolve(inc, DirOf[f]) \in included
    BY <2>1
  <2>2. CASE Stands(lists, f, inc)
    <3>1. PICK i \in DOMAIN lists : \E p \in DOMAIN lists[i] :
              lists[i][p].kind = "include" /\ lists[i][p].home = f /\ lists[i][p].inc = inc
      BY <2>2 DEF Stands
    <3>2. PICK p \in DOMAIN lists[i] :
              lists[i][p].kind = "include" /\ lists[i][p].home = f /\ lists[i][p].inc = inc
      BY <3>1
    <3>3. CASE lists'[i][p] = lists[i][p]
      <4>1. i \in DOMAIN lists' /\ p \in DOMAIN lists'[i]
        BY <1>1 DEF Changed
      <4>2. Stands(lists', f, inc)
        BY <3>2, <3>3, <4>1 DEF Stands
      <4> QED
        BY <4>2
    <3>4. CASE Resolve(lists[i][p].inc, DirOf[lists[i][p].home]) \in included
      BY <3>2, <3>4
    <3> QED
      BY <3>2, <3>3, <3>4 DEF Goes
  <2> QED
    BY <2>1, <2>2 DEF IInv, StandsInv
<1>6. FoundInv'
  <2> SUFFICES ASSUME NEW i \in DOMAIN lists
               PROVE  \/ i \in Cleaned(lists') \/ HasModule(lists', i)
                      \/ \E k \in DOMAIN stack' : stack'[k].list = i
    BY <1>1 DEF FoundInv
  <2>1. i \in Cleaned(lists) => i \in Cleaned(lists')
    BY <1>1, CleanedKept
  <2>2. HasModule(lists, i) => HasModule(lists', i)
    BY <1>1, ModuleKept
  <2>3. ASSUME NEW k \in DOMAIN stack, stack[k].list = i
        PROVE  i \in Cleaned(lists') \/ HasModule(lists', i) \/ \E j \in DOMAIN stack' : stack'[j].list = i
    <3>1. CASE k \in 1..m
      BY <1>2, <2>3, <3>1 DEF Gone
    <3>2. CASE k \in m + 1..Len(stack)
      BY <2>1, <2>2, <2>3, <3>2 DEF Goes
    <3>3. k \in 1..m \/ k \in m + 1..Len(stack)
      BY <1>2
    <3> QED
      BY <3>1, <3>2, <3>3
  <2> QED
    BY <2>1, <2>2, <2>3 DEF IInv, FoundInv
<1> QED
  BY <1>4, <1>5, <1>6

LEMMA GoesSound ==
    ASSUME IInv, NEW m \in 1..Len(stack), Goes(m)
    PROVE  IInv'
  BY GoesTyped, GoesFrames, GoesWalk, GoesTold DEF IInv

-----------------------------------------------------------------------------
(* The actions.                                                            *)

\* The stack of a step that goes on, in this activation or in the one below it.
LEMMA Steps ==
    ASSUME IInv
    PROVE  /\ Advanced(stack) \in Seq(FrameSet) /\ Len(Advanced(stack)) = Len(stack)
           /\ Gone(stack, Advanced(stack))
           /\ Callers # <<>> =>
                 /\ Advanced(Callers) \in Seq(FrameSet) /\ Len(Advanced(Callers)) = Len(stack) - 1
                 /\ Gone(stack, Advanced(Callers))
                 /\ Len(stack) - 1 \in 1..Len(stack) /\ Caller = stack[Len(stack) - 1]
                 /\ WaitsInv(lists, Caller, Top)
                 /\ Caller.list \in DOMAIN lists /\ Caller.at \in DOMAIN lists[Caller.list]
                 /\ Top.into # 0 => Top.into = Caller.list
           /\ Callers = <<>> => Len(stack) = 1
<1> DEFINE m == Len(stack)
           n == Len(lists)
<1>1. stack \in Seq(FrameSet) /\ lists \in Seq(Seq(ItemSet)) /\ TypeOK
  BY DEF IInv, TypeOK
<1>2. m \in Nat \ {0} /\ m \in DOMAIN stack /\ DOMAIN stack = 1..m /\ Top = stack[m]
  BY AtTop DEF IInv
<1>3. stack \in Seq(Frames(n)) /\ n \in Nat /\ FrameSet = Frames(n)
  BY <1>1, FramesAre
<1>4. SubSeq(stack, 1, m) = stack
  BY <1>1
<1> HIDE DEF n
<1>5. m \in 1..Len(stack)
  BY <1>2
<1>6. Advanced(stack) \in Seq(Frames(n)) /\ Len(Advanced(stack)) = m /\ Gone(stack, Advanced(stack))
  BY <1>3, <1>4, <1>5, AdvancedIs
<1>7. Callers = SubSeq(stack, 1, m - 1)
  BY DEF Callers
<1>8. Len(Callers) = m - 1
  BY <1>1, <1>2, <1>7
<1>9. CASE Callers = <<>>
  <2>1. m - 1 = 0
    BY <1>8, <1>9
  <2> QED
    BY <1>2, <1>3, <1>6, <1>9, <2>1
<1>10. CASE Callers # <<>>
  <2>1. m - 1 \in 1..m /\ m - 1 \in 1..Len(stack)
    <3>1. Callers \in Seq(FrameSet)
      BY <1>1, <1>2, <1>7
    <3>2. Len(Callers) # 0
      BY <1>10, <3>1
    <3> QED
      BY <1>2, <1>8, <3>2
  <2>2. Advanced(Callers) \in Seq(Frames(n)) /\ Len(Advanced(Callers)) = m - 1 /\ Gone(stack, Advanced(Callers))
    BY <1>3, <1>7, <2>1, AdvancedIs
  <2>3. Caller = stack[m - 1]
    BY <1>1, <1>7, <1>8, <2>1 DEF Caller
  <2>4. (m - 1) + 1 = m /\ m - 1 \in DOMAIN stack
    BY <1>2, <2>1
  <2>5. WaitsInv(lists, Caller, Top)
    BY <1>2, <2>1, <2>3, <2>4 DEF IInv, WaitInv
  <2>6. Caller.list \in DOMAIN lists
    BY <1>1, <2>3, <2>4, FrameIs
  <2>7. Caller.at \in DOMAIN lists[Caller.list]
    BY <2>5 DEF WaitsInv
  <2>8. Top.into # 0 => Top.into = Caller.list
    BY <1>1, <1>2, <2>3 DEF TypeOK
  <2> QED
    BY <1>3, <1>6, <1>10, <2>1, <2>2, <2>3, <2>5, <2>6, <2>7, <2>8
<1> QED
  BY <1>9, <1>10

\* Frames walk different lists.
LEMMA Apart ==
    ASSUME IInv, NEW j \in DOMAIN stack, NEW k \in DOMAIN stack, j < k
    PROVE  stack[j].list # stack[k].list /\ stack[j].list < stack[k].list
<1>1. stack[j].list < stack[k].list
  BY DEF IInv, FramesInv
<1>2. stack[j].list \in Nat /\ stack[k].list \in Nat
  <2>1. stack[j] \in FrameSet /\ stack[k] \in FrameSet
    BY FrameIs DEF IInv
  <2> QED
    BY <2>1 DEF FrameSet
<1> QED
  BY <1>1, <1>2

LEMMA SkipItemSound ==
    ASSUME IInv, SkipItem
    PROVE  IInv'
<1> DEFINE m == Len(stack)
<1>1. m \in 1..Len(stack) /\ Top = stack[m] /\ Top.list \in DOMAIN lists /\ Top.at \in DOMAIN lists[Top.list]
      /\ Item = lists[Top.list][Top.at]
  BY AtTop DEF IInv, SkipItem
<1>2. lists' = lists /\ text' = text /\ included' = included /\ status' = status /\ stack' = Advanced(stack)
  BY DEF SkipItem
<1>3. lists \in Seq(Seq(ItemSet)) /\ Changed(lists, lists)
  BY ChangedSame DEF IInv, TypeOK
<1>4. stack' \in Seq(FrameSet) /\ Len(stack') = m /\ Gone(stack, stack')
  BY <1>2, Steps
<1>5. Clean(lists, Item)
  BY DEF SkipItem, Clean
<1>6. m + 1..Len(stack) = {}
  BY <1>1
<1> HIDE DEF m
<1>7. Goes(m)
  BY <1>1, <1>2, <1>3, <1>4, <1>5, <1>6 DEF Goes
<1> QED
  BY <1>1, <1>7, GoesSound

LEMMA EndModuleSound ==
    ASSUME IInv, EndModule
    PROVE  IInv'
<1> DEFINE m == Len(stack) - 1
<1>1. /\ m \in 1..Len(stack) /\ Caller = stack[m] /\ WaitsInv(lists, Caller, Top)
      /\ Caller.list \in DOMAIN lists /\ Caller.at \in DOMAIN lists[Caller.list]
      /\ Advanced(Callers) \in Seq(FrameSet) /\ Len(Advanced(Callers)) = m /\ Gone(stack, Advanced(Callers))
  BY Steps DEF EndModule
<1>2. /\ lists' = lists /\ text' = text /\ included' = included /\ status' = status /\ stack' = Advanced(Callers)
      /\ Top.into = 0 /\ ~InList
  BY DEF EndModule
<1>3. lists \in Seq(Seq(ItemSet)) /\ Changed(lists, lists)
  BY ChangedSame DEF IInv, TypeOK
<1>4. lists[Caller.list][Caller.at].kind = "module" /\ lists[Caller.list][Caller.at].list = Top.list
  BY <1>1, <1>2 DEF WaitsInv
<1>5. Top.list \in Cleaned(lists)
  BY <1>2, AtEnd
<1>6. Clean(lists, lists[Caller.list][Caller.at])
  BY <1>4, <1>5 DEF Clean
<1>7. \A k \in m + 1..Len(stack) : stack[k].list \in Cleaned(lists)
  <2>1. Len(stack) \in Nat /\ Top = stack[Len(stack)]
    BY AtTop DEF IInv
  <2>2. \A k \in m + 1..Len(stack) : k = Len(stack)
    BY <2>1
  <2> QED
    BY <1>5, <2>1, <2>2
<1> HIDE DEF m
<1>8. Goes(m)
  BY <1>1, <1>2, <1>3, <1>6, <1>7 DEF Goes
<1> QED
  BY <1>1, <1>8, GoesSound

LEMMA IncludeKnownSound ==
    ASSUME IInv, IncludeKnown
    PROVE  IInv'
<1> DEFINE m == Len(stack)
           i == Top.list
           a == Top.at
<1>1. /\ m \in 1..Len(stack) /\ m \in Nat /\ Top = stack[m] /\ i \in DOMAIN lists /\ a \in DOMAIN lists[i]
      /\ Item = lists[i][a] /\ DOMAIN stack = 1..m /\ InList
  BY AtTop DEF IInv, IncludeKnown, AtInclude
<1>2. /\ text' = text /\ included' = included /\ status' = status /\ stack' = Advanced(stack)
      /\ lists' = [lists EXCEPT ![i] = [lists[i] EXCEPT ![a].kind = "blank"]]
      /\ Item.kind = "include" /\ Resolve(Item.inc, Top.dir) \in included
  BY DEF IncludeKnown, AtInclude, Blanked
<1>3. Top.dir = DirOf[Item.home]
  BY <1>1, <1>2, IncludeHome
<1>4. lists \in Seq(Seq(ItemSet)) /\ lists[i] \in Seq(ItemSet)
  BY <1>1 DEF IInv, TypeOK
<1>5. /\ lists' \in Seq(Seq(ItemSet)) /\ Len(lists') = Len(lists) /\ Changed(lists, lists')
      /\ \A j \in DOMAIN lists \ {i} : lists'[j] = lists[j]
      /\ \A p \in DOMAIN lists[i] : lists'[i][p] = IF p = a THEN Blank(lists[i][a]) ELSE lists[i][p]
  <2> DEFINE b  == [lists[i] EXCEPT ![a].kind = "blank"]
             l2 == [lists EXCEPT ![i] = b \o <<>>]
  <2>1. lists[i][a].kind = "include" /\ <<>> \in Seq(ItemSet)
        /\ \A p \in DOMAIN <<>> : Clean(lists, <<>>[p]) /\ (<<>>[p].kind = "module" => <<>>[p].list > i)
    BY <1>1, <1>2
  <2>2. b \in Seq(ItemSet)
    BY <1>1, <1>4, BlankedIs
  <2>3. b \o <<>> = b
    BY <2>2
  <2>4. lists' = l2
    BY <1>2, <2>3
  <2> HIDE DEF i, a
  <2>5. OneChanged(lists, l2, i, a)
    BY <1>1, <1>4, <2>1, ChangedOne
  <2> HIDE DEF l2
  <2> QED
    BY <2>4, <2>5 DEF OneChanged
<1>6. stack' \in Seq(FrameSet) /\ Len(stack') = m /\ Gone(stack, stack')
  BY <1>2, Steps
<1>7. Clean(lists', lists'[i][a])
  <2>1. Item \in ItemSet
    BY <1>1, <1>2, IncludeHome
  <2>2. Blank(Item).kind = "blank"
    BY <2>1 DEF Blank, ItemSet
  <2> QED
    BY <1>1, <1>5, <2>2 DEF Clean
<1>8. m + 1..Len(stack) = {}
  BY <1>1
<1>9. \A k \in 1..m - 1 : lists'[stack[k].list] = lists[stack[k].list]
  <2> SUFFICES ASSUME NEW k \in 1..m - 1 PROVE lists'[stack[k].list] = lists[stack[k].list]
    OBVIOUS
  <2>1. k \in DOMAIN stack /\ m \in DOMAIN stack /\ k < m
    BY <1>1
  <2>2. stack[k].list # i
    BY <1>1, <2>1, Apart
  <2>3. stack[k].list \in DOMAIN lists
    BY <2>1, FrameIs DEF IInv
  <2> QED
    BY <1>5, <2>2, <2>3
<1>10. ASSUME NEW j \in DOMAIN lists, NEW p \in DOMAIN lists[j]
       PROVE  \/ lists'[j][p] = lists[j][p]
              \/ Resolve(lists[j][p].inc, DirOf[lists[j][p].home]) \in included
  <2>1. CASE j = i /\ p = a
    BY <1>1, <1>2, <1>3, <2>1
  <2>2. CASE j = i /\ p # a
    BY <1>5, <2>2
  <2>3. CASE j # i
    BY <1>5, <2>3
  <2> QED
    BY <2>1, <2>2, <2>3
<1>11. Top.list = i /\ Top.at = a
  OBVIOUS
<1> HIDE DEF m, i, a
<1>12. Goes(m)
  BY <1>1, <1>2, <1>5, <1>6, <1>7, <1>8, <1>9, <1>10, <1>11 DEF Goes
<1>13. m \in 1..Len(stack)
  BY <1>1
<1> QED
  BY <1>12, <1>13, GoesSound
LEMMA EndFileSound ==
    ASSUME IInv, EndFile
    PROVE  IInv'
<1> DEFINE m   == Len(stack) - 1
           i   == Caller.list
           a   == Caller.at
           new == lists[Top.list]
<1>1. Callers # <<>> /\ Top.into # 0 /\ ~InList
  <2>1. Top.into # 0 /\ ~InList
    BY DEF EndFile
  <2>2. Len(stack) = 1 => Top.into = 0
    BY AtTop DEF IInv, FramesInv
  <2> QED
    BY <2>1, <2>2, Steps
<1>2. /\ m \in 1..Len(stack) /\ Caller = stack[m] /\ WaitsInv(lists, Caller, Top)
      /\ i \in DOMAIN lists /\ a \in DOMAIN lists[i] /\ Top.into = i
      /\ Advanced(Callers) \in Seq(FrameSet) /\ Len(Advanced(Callers)) = m /\ Gone(stack, Advanced(Callers))
  BY <1>1, Steps
<1>3. /\ text' = text /\ included' = included /\ status' = status /\ stack' = Advanced(Callers)
      /\ lists' = [lists EXCEPT ![i] = [lists[i] EXCEPT ![a].kind = "blank"] \o new]
  BY <1>2 DEF EndFile, Blanked, FileForms
<1>4. /\ lists \in Seq(Seq(ItemSet)) /\ Top.list \in DOMAIN lists /\ new \in Seq(ItemSet)
      /\ Top = stack[Len(stack)] /\ Len(stack) \in Nat /\ DOMAIN stack = 1..Len(stack) /\ Len(stack) \in DOMAIN stack
      /\ Top.file \in Files \cup {Input}
  <2>1. lists \in Seq(Seq(ItemSet))
    BY DEF IInv, TypeOK
  <2>2. /\ Top.list \in DOMAIN lists /\ Top = stack[Len(stack)] /\ Len(stack) \in Nat /\ DOMAIN stack = 1..Len(stack)
        /\ Len(stack) \in DOMAIN stack /\ Top.file \in Files \cup {Input}
    BY AtTop DEF IInv
  <2> QED
    BY <2>1, <2>2
<1>5. m \in DOMAIN stack /\ m < Len(stack)
  BY <1>2, <1>4
<1>6. i < Top.list /\ Top.list \in Nat /\ i \in Nat
  <2>1. i < Top.list
    BY <1>2, <1>4, <1>5, Apart
  <2>2. Top.list \in Nat /\ i \in Nat
    <3>1. DOMAIN lists \subseteq Nat
      BY <1>4
    <3> QED
      BY <1>2, <1>4, <3>1
  <2> QED
    BY <2>1, <2>2
<1>7. Top.list \in Cleaned(lists) /\ \A p \in DOMAIN new : Clean(lists, new[p])
  BY <1>1, AtEnd
<1>8. \A p \in DOMAIN new : new[p].kind = "module" => new[p].list > i
  <2> SUFFICES ASSUME NEW p \in DOMAIN new, new[p].kind = "module" PROVE new[p].list > i
    OBVIOUS
  <2>1. new[p].list \in (Top.list + 1)..Len(lists)
    BY <1>4 DEF IInv, TreeInv
  <2> HIDE DEF new, i
  <2> QED
    BY <1>6, <2>1
<1>9. lists[i][a].kind = "include" /\ Top.file = Resolve(lists[i][a].inc, Caller.dir)
  BY <1>1, <1>2 DEF WaitsInv
<1>10. lists[i] \in Seq(ItemSet) /\ lists[i][a] \in ItemSet
  <2>1. lists[i] \in Seq(ItemSet)
    BY <1>2, <1>4
  <2> QED
    BY <1>2, <2>1
<1>11. lists[i][a].home = Caller.file /\ Caller.dir = DirOf[Caller.file] /\ Top.file \in included
  <2>1. ~ Clean(lists, lists[i][a])
    BY <1>9 DEF Clean
  <2>2. WalkedInv(lists, Caller)
    BY <1>2, <1>5 DEF IInv, WalkInv
  <2>3. lists[i][a].home = Caller.file
    BY <1>2, <2>1, <2>2 DEF WalkedInv
  <2> QED
    BY <1>1, <1>2, <1>4, <1>5, <2>3 DEF IInv, FramesInv
<1> HIDE DEF i, a, new
<1>12. OneChanged(lists, lists', i, a)
  BY <1>2, <1>3, <1>4, <1>7, <1>8, <1>9, ChangedOne
<1>13. Clean(lists', lists'[i][a])
  <2>1. Blank(lists[i][a]).kind = "blank"
    BY <1>10 DEF Blank, ItemSet
  <2> QED
    BY <1>2, <1>12, <2>1 DEF OneChanged, Clean
<1>14. \A k \in 1..m - 1 : lists'[stack[k].list] = lists[stack[k].list]
  <2> SUFFICES ASSUME NEW k \in 1..m - 1 PROVE lists'[stack[k].list] = lists[stack[k].list]
    OBVIOUS
  <2>1. k \in DOMAIN stack /\ k < m
    BY <1>4
  <2>2. stack[k].list # i
    BY <1>2, <1>5, <2>1, Apart DEF i
  <2>3. stack[k].list \in DOMAIN lists
    BY <2>1, FrameIs DEF IInv
  <2> QED
    BY <1>12, <2>2, <2>3 DEF OneChanged
<1>15. \A k \in m + 1..Len(stack) : stack[k].list \in Cleaned(lists)
  <2>1. Len(stack) \in Nat
    BY <1>4
  <2>2. \A k \in m + 1..Len(stack) : k = Len(stack)
    BY <2>1
  <2> QED
    BY <1>4, <1>7, <2>2
<1>16. ASSUME NEW j \in DOMAIN lists, NEW p \in DOMAIN lists[j]
       PROVE  \/ lists'[j][p] = lists[j][p]
              \/ Resolve(lists[j][p].inc, DirOf[lists[j][p].home]) \in included
  <2>1. CASE j = i /\ p = a
    BY <1>9, <1>11, <2>1
  <2>2. CASE j = i /\ p # a
    BY <1>12, <2>2 DEF OneChanged
  <2>3. CASE j # i
    BY <1>12, <2>3 DEF OneChanged
  <2> QED
    BY <2>1, <2>2, <2>3
<1>17. stack[m].list = i /\ stack[m].at = a /\ m \in 1..Len(stack)
  BY <1>2 DEF i, a
<1> HIDE DEF m
<1>18. Goes(m)
  BY <1>2, <1>3, <1>12, <1>13, <1>14, <1>15, <1>16, <1>17 DEF Goes, OneChanged
<1> QED
  BY <1>17, <1>18, GoesSound

\* A step that begins a walk.
Pushed(fr) ==
    /\ stack' = Append(stack, fr)
    /\ fr \in FrameSet' /\ fr.at = 1 /\ Top.list < fr.list /\ fr.dir = DirOf[fr.file]
    /\ fr.into # 0 =>
          /\ fr.into = Top.list /\ fr.file \in included'
          /\ \A k \in DOMAIN stack : stack[k].into # 0 => stack[k].file # fr.file
    /\ WalkedInv(lists', fr) /\ WaitsInv(lists', Top, fr)
    /\ lists' \in Seq(Seq(ItemSet)) /\ Changed(lists, lists')
    /\ \A i \in DOMAIN lists : lists'[i] = lists[i]
    /\ included \subseteq included'
    /\ status' = status

LEMMA PushedStack ==
    ASSUME IInv, NEW fr, Pushed(fr)
    PROVE  /\ Len(stack') = Len(stack) + 1 /\ DOMAIN stack' = 1..Len(stack) + 1
           /\ stack'[Len(stack) + 1] = fr
           /\ \A k \in 1..Len(stack) : stack'[k] = stack[k]
           /\ Len(stack) \in Nat \ {0} /\ DOMAIN stack = 1..Len(stack)
           /\ stack' \in Seq(FrameSet)'
<1>1. stack \in Seq(FrameSet) /\ Len(stack) \in Nat \ {0} /\ DOMAIN stack = 1..Len(stack)
  BY AtTop DEF IInv, TypeOK
<1>2. stack' = Append(stack, fr) /\ fr \in FrameSet'
  BY DEF Pushed
<1>3. FrameSet \subseteq FrameSet'
  <2>1. Len(lists) \in Nat /\ Len(lists') \in Nat /\ Len(lists) <= Len(lists')
    BY DEF Pushed, Changed, IInv, TypeOK
  <2>2. 1..Len(lists) \subseteq 1..Len(lists') /\ 0..Len(lists) \subseteq 0..Len(lists')
    BY <2>1
  <2> QED
    BY <2>2 DEF FrameSet
<1> DEFINE F == FrameSet'
<1>4. stack \in Seq(F) /\ fr \in F
  BY <1>1, <1>2, <1>3
<1> HIDE DEF F
<1>5. Append(stack, fr) \in Seq(F)
  BY <1>4
<1>6. stack' \in Seq(FrameSet)'
  BY <1>2, <1>5 DEF F
<1> QED
  BY <1>1, <1>2, <1>6
LEMMA PushedTyped ==
    ASSUME IInv, NEW fr, Pushed(fr)
    PROVE  /\ \A k \in DOMAIN stack' : stack'[k].at <= Len(lists'[stack'[k].list]) + 1
           /\ \A k \in DOMAIN stack' : stack'[k].into # 0 => k > 1 /\ stack'[k].into = stack'[k - 1].list
<1> DEFINE n == Len(stack)
<1>1. /\ Len(stack') = n + 1 /\ DOMAIN stack' = 1..n + 1 /\ stack'[n + 1] = fr
      /\ \A k \in 1..n : stack'[k] = stack[k]
      /\ n \in Nat \ {0} /\ DOMAIN stack = 1..n
  BY PushedStack
<1>2. Top = stack[n]
  BY AtTop DEF IInv
<1> HIDE DEF n
<1>3. \A k \in 1..n + 1 : k \in 1..n \/ k = n + 1
  BY <1>1
<1>4. \A k \in 1..n : stack[k].at <= Len(lists'[stack[k].list]) + 1
  <2> SUFFICES ASSUME NEW k \in 1..n PROVE stack[k].at <= Len(lists'[stack[k].list]) + 1
    OBVIOUS
  <2>1. stack[k].list \in DOMAIN lists /\ stack[k].at <= Len(lists[stack[k].list]) + 1
    BY <1>1, FrameIs DEF IInv
  <2> QED
    BY <2>1 DEF Pushed
<1>5. fr.at <= Len(lists'[fr.list]) + 1
  <2>1. lists' \in Seq(Seq(ItemSet)) /\ fr.list \in 1..Len(lists') /\ fr.at = 1
    BY DEF Pushed, FrameSet
  <2>2. Len(lists'[fr.list]) \in Nat
    BY <2>1
  <2> QED
    BY <2>1, <2>2
<1>6. \A k \in DOMAIN stack' : stack'[k].at <= Len(lists'[stack'[k].list]) + 1
  BY <1>1, <1>3, <1>4, <1>5
<1>7. ASSUME NEW k \in 1..n, stack[k].into # 0
      PROVE  k > 1 /\ stack'[k].into = stack'[k - 1].list
  <2>1. k > 1 /\ stack[k].into = stack[k - 1].list
    BY <1>1, <1>7 DEF IInv, TypeOK
  <2>2. k - 1 \in 1..n
    BY <1>1, <2>1
  <2> QED
    BY <1>1, <2>1, <2>2
<1>8. fr.into # 0 => n + 1 > 1 /\ fr.into = stack'[(n + 1) - 1].list
  <2>1. n \in 1..n /\ (n + 1) - 1 = n /\ n + 1 > 1
    BY <1>1
  <2>2. stack'[n] = Top
    BY <1>1, <1>2, <2>1
  <2> QED
    BY <2>1, <2>2 DEF Pushed
<1>9. ASSUME NEW k \in 1..n + 1, stack'[k].into # 0
      PROVE  k > 1 /\ stack'[k].into = stack'[k - 1].list
  <2>1. CASE k \in 1..n
    <3>1. stack[k].into # 0
      BY <1>1, <1>9, <2>1
    <3> QED
      BY <1>7, <2>1, <3>1
  <2>2. CASE k = n + 1
    <3>1. fr.into # 0
      BY <1>1, <1>9, <2>2
    <3> QED
      BY <1>1, <1>8, <2>2, <3>1
  <2> QED
    BY <1>3, <2>1, <2>2
<1> QED
  BY <1>1, <1>6, <1>9

LEMMA PushedFrames ==
    ASSUME IInv, NEW fr, Pushed(fr)
    PROVE  FramesInv' /\ NoReentry'
<1> DEFINE n == Len(stack)
<1>1. /\ Len(stack') = n + 1 /\ DOMAIN stack' = 1..n + 1 /\ stack'[n + 1] = fr
      /\ \A k \in 1..n : stack'[k] = stack[k]
      /\ n \in Nat \ {0} /\ DOMAIN stack = 1..n
  BY PushedStack
<1>2. Top = stack[n] /\ n \in DOMAIN stack
  BY AtTop DEF IInv
<1> HIDE DEF n
<1>3. \A k \in 1..n + 1 : k \in 1..n \/ k = n + 1
  BY <1>1
<1>4. stack' # <<>> /\ 1 \in 1..n
  BY <1>1
<1>5. stack'[1].list = 1 /\ stack'[1].into = 0
  BY <1>1, <1>4 DEF IInv, FramesInv
<1>6. \A k \in 1..n : stack[k].dir = DirOf[stack[k].file] /\ (stack[k].into # 0 => stack[k].file \in included')
  BY <1>1 DEF IInv, FramesInv, Pushed
<1>7. fr.dir = DirOf[fr.file] /\ (fr.into # 0 => fr.file \in included')
  BY DEF Pushed
<1>8. \A k \in 1..n + 1 :
         stack'[k].dir = DirOf[stack'[k].file] /\ (stack'[k].into # 0 => stack'[k].file \in included')
  BY <1>1, <1>3, <1>6, <1>7
<1>9. ASSUME NEW j \in 1..n
      PROVE  stack[j].list < fr.list
  <2>1. Top.list < fr.list /\ fr.list \in Nat
    BY DEF Pushed, FrameSet
  <2>2. stack[j].list \in Nat /\ Top.list \in Nat
    <3>1. stack[j] \in FrameSet /\ Top \in FrameSet
      BY <1>1, <1>2, FrameIs DEF IInv
    <3> QED
      BY <3>1 DEF FrameSet
  <2>3. stack[j].list <= Top.list
    <3>1. CASE j = n
      BY <1>2, <2>2, <3>1
    <3>2. CASE j # n
      <4>1. j < n
        BY <1>1, <3>2
      <4> QED
        BY <1>1, <1>2, <2>2, <4>1 DEF IInv, FramesInv
    <3> QED
      BY <3>1, <3>2
  <2> QED
    BY <2>1, <2>2, <2>3
<1>10. ASSUME NEW j \in 1..n + 1, NEW k \in 1..n + 1, j < k
       PROVE  stack'[j].list < stack'[k].list
  <2>1. j \in 1..n
    BY <1>1, <1>10
  <2>2. CASE k \in 1..n
    BY <1>1, <1>10, <2>1, <2>2 DEF IInv, FramesInv
  <2>3. CASE k = n + 1
    BY <1>1, <1>9, <2>1, <2>3
  <2> QED
    BY <1>3, <2>2, <2>3
<1>11. ASSUME NEW j \in 1..n + 1, NEW k \in 1..n + 1,
              stack'[j].into # 0, stack'[k].into # 0, stack'[j].file = stack'[k].file
       PROVE  j = k
  <2>1. CASE j \in 1..n /\ k \in 1..n
    BY <1>1, <1>11, <2>1 DEF IInv, NoReentry
  <2>2. CASE j \in 1..n /\ k = n + 1
    BY <1>1, <1>11, <2>2 DEF Pushed
  <2>3. CASE j = n + 1 /\ k \in 1..n
    BY <1>1, <1>11, <2>3 DEF Pushed
  <2> QED
    BY <1>3, <2>1, <2>2, <2>3
<1>12. FramesInv'
  BY <1>1, <1>4, <1>5, <1>8, <1>10 DEF FramesInv
<1>13. NoReentry'
  BY <1>1, <1>11 DEF NoReentry
<1> QED
  BY <1>12, <1>13

LEMMA PushedWalk ==
    ASSUME IInv, NEW fr, Pushed(fr)
    PROVE  TreeInv(lists)' /\ WalkInv' /\ WaitInv'
<1> DEFINE n == Len(stack)
<1>1. /\ Len(stack') = n + 1 /\ DOMAIN stack' = 1..n + 1 /\ stack'[n + 1] = fr
      /\ \A k \in 1..n : stack'[k] = stack[k]
      /\ n \in Nat \ {0} /\ DOMAIN stack = 1..n
  BY PushedStack
<1>2. Top = stack[n] /\ n \in DOMAIN stack
  BY AtTop DEF IInv
<1>3. lists \in Seq(Seq(ItemSet)) /\ lists' \in Seq(Seq(ItemSet)) /\ Changed(lists, lists')
  BY DEF Pushed, IInv, TypeOK
<1> HIDE DEF n
<1>4. \A k \in 1..n + 1 : k \in 1..n \/ k = n + 1
  BY <1>1
<1>5. TreeInv(lists')
  BY <1>3, TreeKept DEF IInv
<1>6. ASSUME NEW k \in 1..n
      PROVE  WalkedInv(lists', stack[k])
  <2>1. /\ stack[k].list \in DOMAIN lists /\ stack[k].at \in Nat
        /\ stack[k].at <= Len(lists[stack[k].list]) + 1
    BY <1>1, FrameIs DEF IInv
  <2>2. WalkedInv(lists, stack[k])
    BY <1>1 DEF IInv, WalkInv
  <2> QED
    BY <1>3, <2>1, <2>2, WalkedKept
<1>7. WalkedInv(lists', fr) /\ WaitsInv(lists', Top, fr)
  BY DEF Pushed
<1>8. \A k \in 1..n + 1 : WalkedInv(lists', stack'[k])
  BY <1>1, <1>4, <1>6, <1>7
<1>9. ASSUME NEW k \in 1..n
      PROVE  WaitsInv(lists', stack'[k], stack'[k + 1])
  <2>1. CASE k = n
    BY <1>1, <1>2, <1>7, <2>1
  <2>2. CASE k # n
    <3>5. k + 1 \in 1..n /\ k \in 1..n - 1
      BY <1>1, <2>2
    <3>1. k + 1 \in 1..n /\ k \in 1..Len(stack) - 1
      BY <3>5 DEF n
    <3>2. WaitsInv(lists, stack[k], stack[k + 1])
      BY <3>1 DEF IInv, WaitInv
    <3>3. stack'[k] = stack[k] /\ stack'[k + 1] = stack[k + 1]
      BY <1>1, <3>1
    <3>4. lists'[stack[k].list] = lists[stack[k].list]
      BY <1>1, FrameIs DEF Pushed, IInv
    <3> QED
      BY <3>2, <3>3, <3>4 DEF WaitsInv
  <2> QED
    BY <2>1, <2>2
<1>10. WalkInv'
  BY <1>1, <1>8 DEF WalkInv
<1>11. WaitInv'
  <2>1. 1..Len(stack') - 1 = 1..n
    BY <1>1
  <2> QED
    BY <1>9, <2>1 DEF WaitInv
<1> QED
  BY <1>5, <1>10, <1>11
LEMMA EnterModuleSound ==
    ASSUME IInv, EnterModule
    PROVE  IInv'
<1> DEFINE fr == Frame(Item.list, Top.dir, Top.file, 0)
           n  == Len(stack)
<1>1. /\ Top.list \in DOMAIN lists /\ Top.at \in DOMAIN lists[Top.list] /\ Item = lists[Top.list][Top.at]
      /\ Top = stack[n] /\ n \in DOMAIN stack /\ Top.file \in Files \cup {Input} /\ Top.dir = DirOf[Top.file]
      /\ Top.dir \in Dirs
  BY AtTop DEF IInv, EnterModule
<1>2. /\ Item.kind = "module" /\ stack' = Append(stack, fr)
      /\ text' = text /\ lists' = lists /\ included' = included /\ status' = status
  BY DEF EnterModule, ModuleDir
<1>3. /\ fr.list = Item.list /\ fr.at = 1 /\ fr.dir = Top.dir /\ fr.file = Top.file /\ fr.into = 0
      /\ DOMAIN fr = {"list", "at", "dir", "file", "into"}
  BY DEF Frame
<1>4. /\ Item.list \in (Top.list + 1)..Len(lists)
      /\ \A q \in DOMAIN lists[Item.list] : Clean(lists, lists[Item.list][q]) \/ lists[Item.list][q].home = Item.home
  BY <1>1, <1>2 DEF IInv, TreeInv
<1>5. lists \in Seq(Seq(ItemSet)) /\ Len(lists) \in Nat /\ Top.list \in Nat /\ DOMAIN lists = 1..Len(lists)
  <2>1. lists \in Seq(Seq(ItemSet))
    BY DEF IInv, TypeOK
  <2> QED
    BY <1>1, <2>1
<1>6. Item.list \in 1..Len(lists) /\ Top.list < Item.list
  <2> DEFINE i == Item.list
             t == Top.list
             m == Len(lists)
  <2>1. i \in (t + 1)..m /\ t \in Nat /\ m \in Nat
    BY <1>4, <1>5
  <2> HIDE DEF i, t, m
  <2>2. i \in 1..m /\ t < i
    BY ONLY <2>1
  <2> QED
    BY <2>2 DEF i, t, m
<1>7. fr \in FrameSet
  <2>1. 0 \in 0..Len(lists) /\ 1 \in Nat \ {0}
    BY <1>5
  <2> QED
    BY <1>1, <1>6, <2>1 DEF Frame, FrameSet
<1>8. WalkedInv(lists, Top)
  BY <1>1 DEF IInv, WalkInv
<1>9. \A q \in DOMAIN lists[Item.list] : Clean(lists, lists[Item.list][q]) \/ lists[Item.list][q].home = Top.file
  <2>1. CASE Clean(lists, Item)
    <3>1. Item.list \in Cleaned(lists)
      BY <1>2, <2>1 DEF Clean
    <3> QED
      BY <3>1, CleanedClosed DEF CleanSet, Clean
  <2>2. CASE Item.home = Top.file
    BY <1>4, <2>2
  <2> QED
    BY <1>1, <1>8, <2>1, <2>2 DEF WalkedInv
<1>10. WalkedInv(lists, fr)
  <2>1. \A p \in DOMAIN lists[Item.list] : ~ (p < 1)
    <3>1. lists[Item.list] \in Seq(ItemSet)
      BY <1>5, <1>6
    <3> QED
      BY <3>1
  <2> HIDE DEF fr
  <2> QED
    BY <1>3, <1>9, <2>1 DEF WalkedInv
<1> HIDE DEF fr
<1>11. WaitsInv(lists, Top, fr)
  BY <1>1, <1>2, <1>3 DEF WaitsInv
<1>12. Changed(lists, lists)
  BY <1>5, ChangedSame DEF IInv
<1>13. FrameSet' = FrameSet
  BY <1>2 DEF FrameSet
<1>14. Pushed(fr)
  BY <1>1, <1>2, <1>3, <1>5, <1>6, <1>7, <1>10, <1>11, <1>12, <1>13 DEF Pushed
<1>15. TypeOK'
  <2>1. stack' \in Seq(FrameSet)'
    BY <1>14, PushedStack
  <2>2. /\ \A k \in DOMAIN stack' : stack'[k].at <= Len(lists'[stack'[k].list]) + 1
        /\ \A k \in DOMAIN stack' : stack'[k].into # 0 => k > 1 /\ stack'[k].into = stack'[k - 1].list
    BY <1>14, PushedTyped
  <2>3. /\ DOMAIN text' = included' \cup {Input} /\ included' \subseteq Files
        /\ \A f \in DOMAIN text' : text'[f] \in Texts[IF f = Input THEN Main ELSE f]
        /\ lists' \in Seq(Seq(ItemSet)) /\ status' \in {"walking", "done", "failed"}
    BY <1>2 DEF IInv, TypeOK
  <2> QED
    BY <2>1, <2>2, <2>3 DEF TypeOK
<1>16. FramesInv' /\ NoReentry' /\ TreeInv(lists)' /\ WalkInv' /\ WaitInv'
  BY <1>14, PushedFrames, PushedWalk
<1>17. FromText(lists)' /\ StandsInv'
  BY <1>2 DEF IInv, FromText, StandsInv
<1>18. FoundInv'
  <2>1. \A k \in DOMAIN stack : k \in DOMAIN stack' /\ stack'[k] = stack[k]
    <3>1. /\ Len(stack') = n + 1 /\ DOMAIN stack' = 1..n + 1 /\ n \in Nat /\ DOMAIN stack = 1..n
          /\ \A k \in 1..n : stack'[k] = stack[k]
      BY <1>14, PushedStack
    <3> HIDE DEF n
    <3> QED
      BY <3>1
  <2> QED
    BY <1>2, <2>1 DEF IInv, FoundInv
<1> QED
  BY <1>15, <1>16, <1>17, <1>18 DEF IInv
LEMMA IncludeNewSound ==
    ASSUME IInv, IncludeNew
    PROVE  IInv'
<1>1. PICK f \in Files \ included : AtInclude(f) /\ included' = included \cup {f}
          /\ (\E t \in Contents(f) :
                /\ text' = [g \in DOMAIN text \cup {f} |-> IF g = f THEN t ELSE text[g]]
                /\ lists' = lists \o Parsed(f, t, Len(lists)))
          /\ stack' = Append(stack, Frame(Len(lists) + 1, DirOf[f], f, Top.list))
          /\ status' = status
  BY DEF IncludeNew, Entered, Target
<1>2. PICK t \in Contents(f) :
          /\ text' = [g \in DOMAIN text \cup {f} |-> IF g = f THEN t ELSE text[g]]
          /\ lists' = lists \o Parsed(f, t, Len(lists))
  BY <1>1
<1> DEFINE n  == Len(lists)
           fr == Frame(n + 1, DirOf[f], f, Top.list)
           k0 == Len(stack)
           P  == Parsed(f, t, n)
<1>3. f \in Files /\ f \notin included /\ f # Input /\ f \notin DOMAIN text
  BY FilesAssumption DEF IInv, TypeOK
<1>4. t \in Texts[IF f = Input THEN Main ELSE f]
  <2>1. text[Input] \in Texts[Main]
    BY DEF IInv, TypeOK
  <2> QED
    BY <1>3, <2>1 DEF Contents
<1>5. IsParsed(f, t, n, P) /\ lists \in Seq(Seq(ItemSet)) /\ n \in Nat
  <2>1. lists \in Seq(Seq(ItemSet)) /\ n \in Nat
    BY DEF IInv, TypeOK
  <2> QED
    BY <1>3, <1>4, <2>1, ParsedIs
<1>6. /\ lists' \in Seq(Seq(ItemSet)) /\ Len(lists') = n + Len(t) /\ Len(t) \in Nat \ {0}
      /\ Changed(lists, lists')
      /\ \A i \in DOMAIN lists : lists'[i] = lists[i]
      /\ \A i \in DOMAIN lists' \ DOMAIN lists : i - n \in DOMAIN t /\ lists'[i] = P[i - n]
      /\ \A i \in DOMAIN t : n + i \in DOMAIN lists' \ DOMAIN lists /\ lists'[n + i] = P[i]
  <2> DEFINE l2 == lists \o P
  <2>1. NewLists(lists, l2, f, t, P)
    BY <1>3, <1>4, <1>5, ChangedParsed
  <2>2. lists' = l2
    BY <1>2
  <2> HIDE DEF l2, P
  <2> QED
    BY <2>1, <2>2 DEF NewLists
<1>7. /\ Top.list \in DOMAIN lists /\ Top.at \in DOMAIN lists[Top.list] /\ Item = lists[Top.list][Top.at]
      /\ Top = stack[k0] /\ k0 \in DOMAIN stack
  BY <1>1, AtTop DEF IInv, AtInclude
<1>8. Item.kind = "include" /\ f = Resolve(Item.inc, Top.dir)
  BY <1>1 DEF AtInclude
<1>9. Top.list \in 1..n /\ Top.list \in Nat
  <2>1. DOMAIN lists = 1..n
    BY <1>5
  <2> QED
    BY <1>7, <2>1
<1>10. /\ fr.list = n + 1 /\ fr.at = 1 /\ fr.dir = DirOf[f] /\ fr.file = f /\ fr.into = Top.list
  BY DEF Frame
<1> HIDE DEF P
<1>11. /\ n + 1 \in 1..Len(lists') /\ Top.list < n + 1 /\ Top.list # 0 /\ Top.list \in 0..Len(lists')
       /\ lists'[n + 1] = P[1] /\ 1 \in DOMAIN t
  <2>1. n \in Nat /\ Len(t) \in Nat \ {0} /\ Len(lists') = n + Len(t) /\ Top.list \in 1..n
    BY <1>5, <1>6, <1>9
  <2>2. 1 \in DOMAIN t
    BY <1>5, <2>1 DEF IsParsed
  <2>3. lists'[n + 1] = P[1]
    BY <1>6, <2>2
  <2> HIDE DEF n
  <2> QED
    BY <2>1, <2>2, <2>3
<1>12. fr \in FrameSet'
  <2>1. DirOf[f] \in Dirs
    BY <1>3, DiskAssumption
  <2> QED
    BY <1>3, <1>11, <2>1 DEF Frame, FrameSet
<1> HIDE DEF fr
<1>13. WalkedInv(lists', fr)
  <2>1. \A p \in DOMAIN P[1] : P[1][p].home = f
    <3>1. DOMAIN P[1] = DOMAIN t[1]
      BY <1>5, <1>11 DEF IsParsed
    <3>2. \A p \in DOMAIN t[1] : P[1][p].home = f
      BY <1>5, <1>11 DEF IsParsed
    <3> QED
      BY <3>1, <3>2
  <2>2. \A p \in DOMAIN P[1] : ~ (p < 1)
    <3>1. lists'[n + 1] \in Seq(ItemSet)
      BY <1>6, <1>11
    <3> QED
      BY <1>11, <3>1
  <2> QED
    BY <1>10, <1>11, <2>1, <2>2 DEF WalkedInv
<1>14. WaitsInv(lists', Top, fr)
  <2>1. lists'[Top.list] = lists[Top.list]
    BY <1>6, <1>7
  <2> QED
    BY <1>7, <1>8, <1>10, <1>11, <2>1 DEF WaitsInv
<1>15. \A k \in DOMAIN stack : stack[k].into # 0 => stack[k].file # fr.file
  BY <1>3, <1>10 DEF IInv, FramesInv
<1>16. Pushed(fr)
  <2>1. stack' = Append(stack, fr) /\ f \in included' /\ included \subseteq included' /\ status' = status
    BY <1>1 DEF fr
  <2>2. Top.list < fr.list /\ fr.at = 1 /\ fr.dir = DirOf[fr.file] /\ fr.into = Top.list /\ fr.file = f
    BY <1>10, <1>11
  <2> HIDE DEF n, k0
  <2> QED
    BY <1>6, <1>12, <1>13, <1>14, <1>15, <2>1, <2>2 DEF Pushed
<1>17. /\ DOMAIN text' = DOMAIN text \cup {f} /\ text'[f] = t /\ \A g \in DOMAIN text : text'[g] = text[g]
  BY <1>2, <1>3
<1>18. TypeOK'
  <2>1. stack' \in Seq(FrameSet)'
    BY <1>16, PushedStack
  <2>2. /\ \A k \in DOMAIN stack' : stack'[k].at <= Len(lists'[stack'[k].list]) + 1
        /\ \A k \in DOMAIN stack' : stack'[k].into # 0 => k > 1 /\ stack'[k].into = stack'[k - 1].list
    BY <1>16, PushedTyped
  <2>3. /\ DOMAIN text' = included' \cup {Input} /\ included' \subseteq Files
        /\ status' \in {"walking", "done", "failed"}
    BY <1>1, <1>3, <1>17 DEF IInv, TypeOK
  <2>4. \A g \in DOMAIN text' : text'[g] \in Texts[IF g = Input THEN Main ELSE g]
    BY <1>4, <1>17 DEF IInv, TypeOK
  <2> QED
    BY <1>6, <2>1, <2>2, <2>3, <2>4 DEF TypeOK
<1>19. FramesInv' /\ NoReentry' /\ TreeInv(lists)' /\ WalkInv' /\ WaitInv'
  BY <1>16, PushedFrames, PushedWalk
<1>20. \A i \in DOMAIN t : \A p \in DOMAIN t[i] :
          /\ n + i \in DOMAIN lists' /\ p \in DOMAIN lists'[n + i]
          /\ lists'[n + i][p].kind = t[i][p].kind /\ lists'[n + i][p].inc = t[i][p].inc
          /\ lists'[n + i][p].list = n + t[i][p].list /\ lists'[n + i][p].home = f
  <2> SUFFICES ASSUME NEW i \in DOMAIN t, NEW p \in DOMAIN t[i]
               PROVE  /\ n + i \in DOMAIN lists' /\ p \in DOMAIN lists'[n + i]
                      /\ lists'[n + i][p].kind = t[i][p].kind /\ lists'[n + i][p].inc = t[i][p].inc
                      /\ lists'[n + i][p].list = n + t[i][p].list /\ lists'[n + i][p].home = f
    OBVIOUS
  <2>1. n + i \in DOMAIN lists' /\ lists'[n + i] = P[i]
    BY <1>6
  <2>2. DOMAIN P[i] = DOMAIN t[i]
    BY <1>5 DEF IsParsed
  <2>3. /\ P[i][p].kind = t[i][p].kind /\ P[i][p].inc = t[i][p].inc
        /\ P[i][p].list = n + t[i][p].list /\ P[i][p].home = f
    BY <1>5 DEF IsParsed
  <2> QED
    BY <2>1, <2>2, <2>3
<1>21. \A q : q \in Where(t, "include") <=>
          \E i \in DOMAIN t : \E p \in DOMAIN t[i] : q = <<i, p>> /\ t[i][p].kind = "include"
  BY DEF Where, Positions
<1>22. FromText(lists)'
  <2> SUFFICES ASSUME NEW i \in DOMAIN lists', NEW p \in DOMAIN lists'[i], lists'[i][p].kind = "include"
               PROVE  /\ lists'[i][p].home \in DOMAIN text'
                      /\ \E q \in Where(text'[lists'[i][p].home], "include") :
                            text'[lists'[i][p].home][q[1]][q[2]].inc = lists'[i][p].inc
    BY DEF FromText
  <2>1. CASE i \in DOMAIN lists
    <3>1. lists'[i] = lists[i]
      BY <1>6, <2>1
    <3>2. /\ lists[i][p].home \in DOMAIN text
          /\ \E q \in Where(text[lists[i][p].home], "include") :
                text[lists[i][p].home][q[1]][q[2]].inc = lists[i][p].inc
      BY <2>1, <3>1 DEF IInv, FromText
    <3> QED
      BY <1>17, <3>1, <3>2
  <2>2. CASE i \notin DOMAIN lists
    <3> DEFINE j == i - n
    <3>1. j \in DOMAIN t /\ lists'[i] = P[j]
      BY <1>6, <2>2
    <3> HIDE DEF j
    <3>2. p \in DOMAIN t[j] /\ P[j][p].kind = t[j][p].kind /\ P[j][p].inc = t[j][p].inc /\ P[j][p].home = f
      BY <1>5, <3>1 DEF IsParsed
    <3>3. <<j, p>> \in Where(t, "include")
      BY <1>21, <3>1, <3>2
    <3>4. text'[f][<<j, p>>[1]][<<j, p>>[2]].inc = lists'[i][p].inc
      BY <1>17, <3>1, <3>2
    <3>5. lists'[i][p].home = f
      BY <3>1, <3>2
    <3> QED
      BY <1>17, <3>3, <3>4, <3>5
  <2> QED
    BY <2>1, <2>2
<1>23. \A g, inc : Stands(lists, g, inc) => Stands(lists', g, inc)
  <2>1. DOMAIN lists \subseteq DOMAIN lists'
    BY <1>6 DEF Changed
  <2> QED
    BY <1>6, <2>1 DEF Stands
<1>24. StandsInv'
  <2> SUFFICES ASSUME NEW g \in DOMAIN text', NEW q \in Where(text'[g], "include")
               PROVE  \/ Resolve(text'[g][q[1]][q[2]].inc, DirOf[g]) \in included'
                      \/ Stands(lists', g, text'[g][q[1]][q[2]].inc)
    BY DEF StandsInv
  <2>1. CASE g = f
    <3>1. PICK i \in DOMAIN t : \E p \in DOMAIN t[i] : q = <<i, p>> /\ t[i][p].kind = "include"
      BY <1>17, <1>21, <2>1
    <3>2. PICK p \in DOMAIN t[i] : q = <<i, p>> /\ t[i][p].kind = "include"
      BY <3>1
    <3>3. text'[g][q[1]][q[2]].inc = t[i][p].inc
      BY <1>17, <2>1, <3>2
    <3>4. Stands(lists', f, t[i][p].inc)
      BY <1>20, <3>2 DEF Stands
    <3> QED
      BY <2>1, <3>3, <3>4
  <2>2. CASE g # f
    <3>1. g \in DOMAIN text /\ text'[g] = text[g]
      BY <1>17, <2>2
    <3>2. \/ Resolve(text[g][q[1]][q[2]].inc, DirOf[g]) \in included
          \/ Stands(lists, g, text[g][q[1]][q[2]].inc)
      BY <3>1 DEF IInv, StandsInv
    <3> QED
      BY <1>1, <1>23, <3>1, <3>2
  <2> QED
    BY <2>1, <2>2
<1>25. FoundInv'
  <2> SUFFICES ASSUME NEW i \in DOMAIN lists'
               PROVE  \/ i \in Cleaned(lists') \/ HasModule(lists', i)
                      \/ \E k \in DOMAIN stack' : stack'[k].list = i
    BY DEF FoundInv
  <2>1. /\ \A k \in DOMAIN stack : k \in DOMAIN stack' /\ stack'[k] = stack[k]
        /\ \E k \in DOMAIN stack' : stack'[k].list = n + 1
    <3>1. /\ Len(stack') = k0 + 1 /\ DOMAIN stack' = 1..k0 + 1 /\ k0 \in Nat /\ DOMAIN stack = 1..k0
          /\ \A k \in 1..k0 : stack'[k] = stack[k]
          /\ stack'[k0 + 1] = fr
      BY <1>16, PushedStack
    <3> HIDE DEF k0
    <3>2. k0 + 1 \in DOMAIN stack'
      BY <3>1
    <3> QED
      BY <1>10, <3>1, <3>2
  <2>2. CASE i \in DOMAIN lists
    <3>1. i \in Cleaned(lists) \/ HasModule(lists, i) \/ \E k \in DOMAIN stack : stack[k].list = i
      BY <2>2 DEF IInv, FoundInv
    <3>2. i \in Cleaned(lists) => i \in Cleaned(lists')
      BY <1>5, <1>6, CleanedKept
    <3>3. HasModule(lists, i) => HasModule(lists', i)
      BY <1>5, <1>6, ModuleKept
    <3> QED
      BY <2>1, <3>1, <3>2, <3>3
  <2>3. CASE i \notin DOMAIN lists
    <3> DEFINE j == i - n
    <3>1. j \in 1..Len(t) /\ i = n + j
      <4>1. j \in DOMAIN t /\ DOMAIN t = 1..Len(t) /\ i \in Nat /\ n \in Nat
        BY <1>5, <1>6, <2>3 DEF IsParsed
      <4> HIDE DEF n
      <4> QED
        BY <4>1
    <3> HIDE DEF j
    <3>2. CASE j = 1
      BY <2>1, <3>1, <3>2
    <3>3. CASE j # 1
      <4>1. j \in 2..Len(t)
        <5>1. Len(t) \in Nat
          BY <1>6
        <5> QED
          BY <3>1, <3>3, <5>1
      <4>2. PICK g \in DOMAIN t : \E p \in DOMAIN t[g] : t[g][p].kind = "module" /\ t[g][p].list = j
        BY <1>5, <4>1 DEF IsParsed
      <4>3. PICK p \in DOMAIN t[g] : t[g][p].kind = "module" /\ t[g][p].list = j
        BY <4>2
      <4>4. n + g \in DOMAIN lists' /\ p \in DOMAIN lists'[n + g]
            /\ lists'[n + g][p].kind = "module" /\ lists'[n + g][p].list = i
        BY <1>20, <3>1, <4>3
      <4> QED
        BY <4>4 DEF HasModule
    <3> QED
      BY <3>2, <3>3
  <2> QED
    BY <2>2, <2>3
<1> QED
  BY <1>18, <1>19, <1>22, <1>24, <1>25 DEF IInv
-----------------------------------------------------------------------------
(* The theorems.                                                           *)

LEMMA InitSound ==
    ASSUME Init
    PROVE  IInv
<1>1. PICK t \in Texts[Main] : text = [f \in {Input} |-> t] /\ lists = Parsed(Input, t, 0)
  BY DEF Init
<1>2. stack = <<Frame(1, DirOf[Input], Input, 0)>> /\ included = {} /\ status = "walking"
  BY DEF Init
<1> DEFINE fr == Frame(1, DirOf[Input], Input, 0)
<1>3. fr.list = 1 /\ fr.at = 1 /\ fr.dir = DirOf[Input] /\ fr.file = Input /\ fr.into = 0
  BY DEF Frame
<1>4. IsParsed(Input, t, 0, lists)
  BY <1>1, ParsedIs
<1>5. /\ lists \in Seq(Seq(ItemSet)) /\ Len(lists) = Len(t) /\ Len(t) \in Nat \ {0} /\ DOMAIN t = 1..Len(t)
      /\ DOMAIN lists = DOMAIN t
      /\ \A i \in DOMAIN t : DOMAIN lists[i] = DOMAIN t[i]
  BY <1>4 DEF IsParsed
<1>6. \A i \in DOMAIN t : \A p \in DOMAIN t[i] :
          /\ lists[i][p].kind = t[i][p].kind /\ lists[i][p].inc = t[i][p].inc
          /\ lists[i][p].list = t[i][p].list /\ lists[i][p].home = Input
  <2> SUFFICES ASSUME NEW i \in DOMAIN t, NEW p \in DOMAIN t[i]
               PROVE  /\ lists[i][p].kind = t[i][p].kind /\ lists[i][p].inc = t[i][p].inc
                      /\ lists[i][p].list = t[i][p].list /\ lists[i][p].home = Input
    OBVIOUS
  <2>1. /\ lists[i][p].kind = t[i][p].kind /\ lists[i][p].inc = t[i][p].inc
        /\ lists[i][p].list = 0 + t[i][p].list /\ lists[i][p].home = Input
    BY <1>4 DEF IsParsed
  <2>2. t[i][p].list \in Nat
    <3> DEFINE T == [kind : {"form", "include", "module"}, inc : Incs, list : Nat]
    <3>1. t \in Seq(Seq(T))
      BY FilesAssumption, TextsAssumption
    <3> HIDE DEF T
    <3>2. t[i] \in Seq(T)
      BY <3>1
    <3>3. t[i][p] \in T
      BY <3>2
    <3> QED
      BY <3>3 DEF T
  <2> QED
    BY <2>1, <2>2
<1>7. \A i \in DOMAIN t : \A p \in DOMAIN t[i] :
          t[i][p].kind = "module" => t[i][p].list \in (i + 1)..Len(t)
  BY <1>4 DEF IsParsed
<1>8. fr \in FrameSet
  <2>1. 1 \in 1..Len(lists) /\ 0 \in 0..Len(lists) /\ 1 \in Nat \ {0} /\ DirOf[Input] \in Dirs
    BY <1>5, DiskAssumption
  <2> QED
    BY <2>1 DEF Frame, FrameSet
<1>9. lists[1] \in Seq(ItemSet)
  BY <1>5
<1> HIDE DEF fr
<1>10. stack = <<fr>>
  BY <1>2 DEF fr
<1>11. stack \in Seq(FrameSet) /\ Len(stack) = 1 /\ DOMAIN stack = {1} /\ stack[1] = fr
  BY <1>8, <1>10
<1>12. TypeOK
  <2>1. fr.at <= Len(lists[fr.list]) + 1
    BY <1>3, <1>9
  <2>2. DOMAIN text = included \cup {Input} /\ included \subseteq Files /\ status \in {"walking", "done", "failed"}
    BY <1>1, <1>2
  <2>3. \A f \in DOMAIN text : text[f] \in Texts[IF f = Input THEN Main ELSE f]
    BY <1>1
  <2>4. \A k \in DOMAIN stack : stack[k].at <= Len(lists[stack[k].list]) + 1
    BY <1>11, <2>1
  <2>5. \A k \in DOMAIN stack : stack[k].into # 0 => k > 1 /\ stack[k].into = stack[k - 1].list
    BY <1>3, <1>11
  <2> QED
    BY <1>5, <1>11, <2>2, <2>3, <2>4, <2>5 DEF TypeOK
<1>13. FramesInv
  BY <1>3, <1>10, <1>11 DEF FramesInv
<1>14. TreeInv(lists)
  <2> SUFFICES ASSUME NEW i \in DOMAIN lists, NEW p \in DOMAIN lists[i], lists[i][p].kind = "module"
               PROVE  /\ lists[i][p].list \in (i + 1)..Len(lists)
                      /\ \A q \in DOMAIN lists[lists[i][p].list] :
                            lists[lists[i][p].list][q].home = lists[i][p].home
    BY DEF TreeInv
  <2> DEFINE m == lists[i][p].list
  <2>1. i \in DOMAIN t /\ p \in DOMAIN t[i]
    BY <1>5
  <2>2. t[i][p].kind = "module" /\ m = t[i][p].list /\ lists[i][p].home = Input
    BY <1>6, <2>1
  <2>3. m \in (i + 1)..Len(t)
    BY <1>7, <2>1, <2>2
  <2> HIDE DEF m
  <2>4. m \in DOMAIN t
    BY <1>5, <2>1, <2>3
  <2>5. \A q \in DOMAIN lists[m] : lists[m][q].home = Input
    BY <1>5, <1>6, <2>4
  <2> QED
    BY <1>5, <2>2, <2>3, <2>5 DEF m
<1>15. WalkInv
  <2>1. \A p \in DOMAIN lists[1] : lists[1][p].home = Input
    <3>1. 1 \in DOMAIN t
      BY <1>5
    <3> QED
      BY <1>5, <1>6, <3>1
  <2>2. \A p \in DOMAIN lists[1] : ~ (p < 1)
    BY <1>9
  <2>3. WalkedInv(lists, fr)
    BY <1>3, <2>1, <2>2 DEF WalkedInv
  <2> QED
    BY <1>11, <2>3 DEF WalkInv
<1>16. WaitInv
  <2>1. 1..Len(stack) - 1 = {}
    BY <1>11
  <2> QED
    BY <2>1 DEF WaitInv
<1>17. \A q : q \in Where(t, "include") <=>
          \E i \in DOMAIN t : \E p \in DOMAIN t[i] : q = <<i, p>> /\ t[i][p].kind = "include"
  BY DEF Where, Positions
<1>18. DOMAIN text = {Input} /\ text[Input] = t
  BY <1>1
<1>19. FromText(lists)
  <2> SUFFICES ASSUME NEW i \in DOMAIN lists, NEW p \in DOMAIN lists[i], lists[i][p].kind = "include"
               PROVE  /\ lists[i][p].home \in DOMAIN text
                      /\ \E q \in Where(text[lists[i][p].home], "include") :
                            text[lists[i][p].home][q[1]][q[2]].inc = lists[i][p].inc
    BY DEF FromText
  <2>1. i \in DOMAIN t /\ p \in DOMAIN t[i]
    BY <1>5
  <2>2. t[i][p].kind = "include" /\ t[i][p].inc = lists[i][p].inc /\ lists[i][p].home = Input
    BY <1>6, <2>1
  <2>3. <<i, p>> \in Where(t, "include")
    BY <1>17, <2>1, <2>2
  <2>4. t[<<i, p>>[1]][<<i, p>>[2]].inc = lists[i][p].inc
    BY <2>2
  <2> QED
    BY <1>18, <2>2, <2>3, <2>4
<1>20. StandsInv
  <2> SUFFICES ASSUME NEW q \in Where(t, "include")
               PROVE  Stands(lists, Input, t[q[1]][q[2]].inc)
    BY <1>18 DEF StandsInv
  <2>1. PICK i \in DOMAIN t : \E p \in DOMAIN t[i] : q = <<i, p>> /\ t[i][p].kind = "include"
    BY <1>17
  <2>2. PICK p \in DOMAIN t[i] : q = <<i, p>> /\ t[i][p].kind = "include"
    BY <2>1
  <2>3. t[q[1]][q[2]].inc = t[i][p].inc
    BY <2>2
  <2>4. i \in DOMAIN lists /\ p \in DOMAIN lists[i]
    BY <1>5
  <2>5. lists[i][p].kind = "include" /\ lists[i][p].inc = t[i][p].inc /\ lists[i][p].home = Input
    BY <1>6, <2>2
  <2> QED
    BY <2>3, <2>4, <2>5 DEF Stands
<1>21. FoundInv
  <2> SUFFICES ASSUME NEW i \in DOMAIN lists
               PROVE  HasModule(lists, i) \/ \E k \in DOMAIN stack : stack[k].list = i
    BY DEF FoundInv
  <2>1. CASE i = 1
    BY <1>3, <1>11, <2>1
  <2>2. CASE i # 1
    <3>1. i \in 2..Len(t)
      BY <1>5, <2>2
    <3>2. PICK j \in DOMAIN t : \E p \in DOMAIN t[j] : t[j][p].kind = "module" /\ t[j][p].list = i
      BY <1>4, <3>1 DEF IsParsed
    <3>3. PICK p \in DOMAIN t[j] : t[j][p].kind = "module" /\ t[j][p].list = i
      BY <3>2
    <3>4. j \in DOMAIN lists /\ p \in DOMAIN lists[j] /\ lists[j][p].kind = "module" /\ lists[j][p].list = i
      BY <1>5, <1>6, <3>3
    <3> QED
      BY <3>4 DEF HasModule
  <2> QED
    BY <2>1, <2>2
<1>22. NoReentry
  BY <1>11 DEF NoReentry
<1> QED
  BY <1>12, <1>13, <1>14, <1>15, <1>16, <1>19, <1>20, <1>21, <1>22 DEF IInv

\* An action that leaves all but the status alone.
LEMMA OnlyStatus ==
    ASSUME IInv, status' \in {"walking", "done", "failed"},
           text' = text, lists' = lists, stack' = stack, included' = included
    PROVE  IInv'
<1>1. FrameSet' = FrameSet
  BY DEF FrameSet
<1>2. TypeOK'
  BY <1>1 DEF IInv, TypeOK
<1>3. FramesInv' /\ NoReentry'
  BY DEF IInv, FramesInv, NoReentry
<1>4. TreeInv(lists)' /\ WalkInv' /\ WaitInv'
  BY DEF IInv, WalkInv, WaitInv
<1>5. FromText(lists)' /\ StandsInv' /\ FoundInv'
  BY DEF IInv, FromText, StandsInv, FoundInv
<1> QED
  BY <1>2, <1>3, <1>4, <1>5 DEF IInv

LEMMA StepSound ==
    ASSUME IInv, [Next]_vars
    PROVE  IInv'
<1>1. CASE SkipItem
  BY <1>1, SkipItemSound
<1>2. CASE EnterModule
  BY <1>2, EnterModuleSound
<1>3. CASE IncludeMissing
  <2>1. status' = "failed" /\ text' = text /\ lists' = lists /\ stack' = stack /\ included' = included
    BY <1>3 DEF IncludeMissing
  <2> QED
    BY <2>1, OnlyStatus
<1>4. CASE IncludeKnown
  BY <1>4, IncludeKnownSound
<1>5. CASE IncludeNew
  BY <1>5, IncludeNewSound
<1>6. CASE EndFile
  BY <1>6, EndFileSound
<1>7. CASE EndModule
  BY <1>7, EndModuleSound
<1>8. CASE EndMain
  <2>1. status' = "done" /\ text' = text /\ lists' = lists /\ stack' = stack /\ included' = included
    BY <1>8 DEF EndMain
  <2> QED
    BY <2>1, OnlyStatus
<1>9. CASE UNCHANGED vars
  <2>1. status' = status /\ text' = text /\ lists' = lists /\ stack' = stack /\ included' = included
    BY <1>9 DEF vars
  <2>2. status' \in {"walking", "done", "failed"}
    BY <2>1 DEF IInv, TypeOK
  <2> QED
    BY <2>1, <2>2, OnlyStatus
<1> QED
  BY <1>1, <1>2, <1>3, <1>4, <1>5, <1>6, <1>7, <1>8, <1>9 DEF Next, Finished

LEMMA Inductive == Spec => []IInv
<1>1. Init => IInv
  BY InitSound
<1>2. IInv /\ [Next]_vars => IInv'
  BY StepSound
<1> QED
  BY <1>1, <1>2, PTL DEF Spec

\* Whatever the files contain and however they include each other, the walk stays inside
\* lists that exist, resolves every include in the directory of the file it was written
\* in, and merges no file inside itself (fs.c:173-225).
THEOREM Walks == Spec => []WalkSound
<1>1. IInv => WalkSound
  BY Sound
<1> QED
  BY <1>1, Inductive, PTL
-----------------------------------------------------------------------------
(* The walk implements the closure.                                        *)

LEMMA WantedIs ==
    /\ \A f \in DOMAIN text : \A q \in Where(text[f], "include") :
          Resolve(text[f][q[1]][q[2]].inc, DirOf[f]) \in Closure!Wanted
    /\ \A x \in Closure!Wanted : \E f \in DOMAIN text : \E q \in Where(text[f], "include") :
          x = Resolve(text[f][q[1]][q[2]].inc, DirOf[f])
<1> DEFINE A == [f \in DOMAIN text |-> Asked(f)]
<1>1. Closure!Wanted = UNION {A[f] : f \in DOMAIN A}
  BY DEF Closure!Wanted
<1>2. DOMAIN A = DOMAIN text /\ \A f \in DOMAIN text : A[f] = Asked(f)
  OBVIOUS
<1> HIDE DEF A
<1> QED
  BY <1>1, <1>2 DEF Asked

\* What the include of a tree asks for is asked for by a file of the program.
LEMMA AsksFor ==
    ASSUME IInv, NEW f, AtInclude(f)
    PROVE  f \in Closure!Wanted
<1>1. InList /\ Item.kind = "include" /\ f = Resolve(Item.inc, Top.dir)
  BY DEF AtInclude
<1>2. Top.dir = DirOf[Item.home]
  BY <1>1, IncludeHome
<1>3. Top.list \in DOMAIN lists /\ Top.at \in DOMAIN lists[Top.list] /\ Item = lists[Top.list][Top.at]
  BY <1>1, AtTop DEF IInv
<1>4. /\ Item.home \in DOMAIN text
      /\ \E q \in Where(text[Item.home], "include") : text[Item.home][q[1]][q[2]].inc = Item.inc
  BY <1>1, <1>3 DEF IInv, FromText
<1>5. PICK q \in Where(text[Item.home], "include") : text[Item.home][q[1]][q[2]].inc = Item.inc
  BY <1>4
<1> QED
  BY <1>1, <1>2, <1>4, <1>5, WantedIs

\* When the walk of the input is over, every list has been cleaned.
LEMMA AllCleaned ==
    ASSUME IInv, ~InList, Callers = <<>>
    PROVE  \A i \in DOMAIN lists : i \in Cleaned(lists)
<1> DEFINE T == {i \in DOMAIN lists : i \notin Cleaned(lists)}
<1>1. lists \in Seq(Seq(ItemSet))
  BY DEF IInv, TypeOK
<1>2. Len(stack) = 1
  BY Steps
<1>3. Top = stack[1] /\ DOMAIN stack = {1} /\ Top.list = 1
  <2>1. Top = stack[Len(stack)] /\ DOMAIN stack = 1..Len(stack)
    BY AtTop DEF IInv
  <2> QED
    BY <1>2, <2>1 DEF IInv, FramesInv
<1>4. 1 \in Cleaned(lists)
  BY <1>3, AtEnd
<1> SUFFICES ASSUME T # {} PROVE FALSE
  OBVIOUS
<1>5. T \in SUBSET Nat
  BY <1>1
<1>6. PICK i \in T : \A j \in T : i <= j
  BY <1>5, Least
<1>7. i \in DOMAIN lists /\ i \notin Cleaned(lists)
  BY <1>6
<1>8. HasModule(lists, i)
  BY <1>3, <1>4, <1>7 DEF IInv, FoundInv
<1>9. PICK j \in DOMAIN lists : \E p \in DOMAIN lists[j] : lists[j][p].kind = "module" /\ lists[j][p].list = i
  BY <1>8 DEF HasModule
<1>10. PICK p \in DOMAIN lists[j] : lists[j][p].kind = "module" /\ lists[j][p].list = i
  BY <1>9
<1>11. j \in Nat /\ i \in Nat /\ i \in (j + 1)..Len(lists)
  BY <1>1, <1>7, <1>10 DEF IInv, TreeInv
<1>12. j \notin Cleaned(lists)
  BY <1>7, <1>10, CleanedClosed DEF CleanSet
<1>13. i <= j
  BY <1>6, <1>12
<1> QED
  BY <1>11, <1>13

LEMMA MergeStep ==
    ASSUME IInv, IInv', IncludeNew
    PROVE  Closure!Next
<1>1. PICK f \in Files \ included : AtInclude(f) /\ included' = included \cup {f}
          /\ (\E t \in Contents(f) :
                /\ text' = [g \in DOMAIN text \cup {f} |-> IF g = f THEN t ELSE text[g]]
                /\ lists' = lists \o Parsed(f, t, Len(lists)))
          /\ status' = status
  BY DEF IncludeNew, Entered
<1>2. status = "walking"
  BY <1>1 DEF AtInclude
<1>3. DOMAIN text' = DOMAIN text \cup {f}
  BY <1>1
<1>4. \A g \in DOMAIN text : text'[g] = text[g]
  <2>1. f \notin DOMAIN text
    BY FilesAssumption DEF IInv, TypeOK
  <2> QED
    BY <1>1, <2>1
<1>5. f \in Closure!Wanted
  BY <1>1, AsksFor
<1> DEFINE A == [g \in DOMAIN text |-> Asked(g)]
           B == [g \in DOMAIN text' |-> Asked(g)']
<1>6. \A g \in DOMAIN text : B[g] = A[g]
  <2> SUFFICES ASSUME NEW g \in DOMAIN text PROVE Asked(g)' = Asked(g)
    BY <1>3
  <2>1. text'[g] = text[g]
    BY <1>4
  <2> QED
    BY <2>1 DEF Asked
<1>7. \A g \in DOMAIN text' : Asked(g)' \subseteq Files \cup {NotFound}
  <2> SUFFICES ASSUME NEW g \in DOMAIN text' PROVE Asked(g)' \subseteq Files \cup {NotFound}
    OBVIOUS
  <2>1. g \in Files \cup {Input}
    BY DEF IInv, TypeOK
  <2>2. DirOf[g] \in Dirs
    BY <2>1, DiskAssumption
  <2>3. \A inc : Resolve(inc, DirOf[g]) \in Files \cup {NotFound}
    BY <2>2, ResolveType
  <2> QED
    BY <2>3 DEF Asked
<1>8. B \in [DOMAIN A \cup {f} -> SUBSET (Files \cup {NotFound})]
  BY <1>3, <1>7
<1>9. Closure!Merge(f)
  <2>1. (CASE status = "walking" -> "open" [] status = "done" -> "merged" [] status = "failed" -> "failed") = "open"
    BY <1>2
  <2>2. (CASE status' = "walking" -> "open" [] status' = "done" -> "merged" [] status' = "failed" -> "failed") = "open"
    BY <1>1, <1>2
  <2>3. f \in (Closure!Wanted \cap Files) \ included
    BY <1>1, <1>5
  <2>4. \A g \in DOMAIN A : B[g] = A[g]
    BY <1>6
  <2> QED
    BY <1>1, <1>8, <2>1, <2>2, <2>3, <2>4 DEF Closure!Merge
<1> QED
  BY <1>5, <1>9 DEF Closure!Next

LEMMA CompleteStep ==
    ASSUME IInv, EndMain
    PROVE  Closure!Next
<1>1. /\ status = "walking" /\ ~InList /\ Callers = <<>> /\ status' = "done"
      /\ text' = text /\ included' = included
  BY DEF EndMain
<1>2. \A i \in DOMAIN lists : \A p \in DOMAIN lists[i] : lists[i][p].kind # "include"
  BY <1>1, AllCleaned, CleanedClosed DEF CleanSet
<1>3. Closure!Wanted \subseteq included
  <2> SUFFICES ASSUME NEW x \in Closure!Wanted PROVE x \in included
    OBVIOUS
  <2>1. PICK f \in DOMAIN text : \E q \in Where(text[f], "include") :
            x = Resolve(text[f][q[1]][q[2]].inc, DirOf[f])
    BY WantedIs
  <2>2. PICK q \in Where(text[f], "include") : x = Resolve(text[f][q[1]][q[2]].inc, DirOf[f])
    BY <2>1
  <2>3. ~ Stands(lists, f, text[f][q[1]][q[2]].inc)
    BY <1>2 DEF Stands
  <2> QED
    BY <2>2, <2>3 DEF IInv, StandsInv
<1>4. Closure!Complete
  <2>1. (CASE status = "walking" -> "open" [] status = "done" -> "merged" [] status = "failed" -> "failed") = "open"
    BY <1>1
  <2>2. (CASE status' = "walking" -> "open" [] status' = "done" -> "merged" [] status' = "failed" -> "failed") = "merged"
    BY <1>1
  <2>3. [f \in DOMAIN text |-> Asked(f)]' = [f \in DOMAIN text |-> Asked(f)]
    BY <1>1 DEF Asked
  <2> QED
    BY <1>1, <1>3, <2>1, <2>2, <2>3 DEF Closure!Complete
<1> QED
  BY <1>4 DEF Closure!Next

LEMMA FailStep ==
    ASSUME IInv, IncludeMissing
    PROVE  Closure!Next
<1>1. AtInclude(NotFound) /\ status' = "failed" /\ text' = text /\ included' = included
  BY DEF IncludeMissing
<1>2. NotFound \in Closure!Wanted /\ status = "walking"
  BY <1>1, AsksFor DEF AtInclude
<1>3. Closure!Fail
  <2>1. (CASE status = "walking" -> "open" [] status = "done" -> "merged" [] status = "failed" -> "failed") = "open"
    BY <1>2
  <2>2. (CASE status' = "walking" -> "open" [] status' = "done" -> "merged" [] status' = "failed" -> "failed") = "failed"
    BY <1>1
  <2>3. [f \in DOMAIN text |-> Asked(f)]' = [f \in DOMAIN text |-> Asked(f)]
    BY <1>1 DEF Asked
  <2> QED
    BY <1>1, <1>2, <2>1, <2>2, <2>3 DEF Closure!Fail
<1> QED
  BY <1>3 DEF Closure!Next

LEMMA StutterStep ==
    ASSUME text' = text, included' = included, status' = status
    PROVE  UNCHANGED Closure!vars
  BY DEF Closure!vars, Asked

LEMMA ClosureInit ==
    ASSUME Init
    PROVE  Closure!Init
<1>1. IInv /\ included = {} /\ status = "walking" /\ DOMAIN text = {Input}
  BY InitSound DEF Init
<1>2. \A f \in DOMAIN text : Asked(f) \subseteq Files \cup {NotFound}
  <2>1. DirOf[Input] \in Dirs
    BY DiskAssumption
  <2>2. \A inc : Resolve(inc, DirOf[Input]) \in Files \cup {NotFound}
    BY <2>1, ResolveType
  <2> QED
    BY <1>1, <2>2 DEF Asked
<1>3. [f \in DOMAIN text |-> Asked(f)] \in [{Input} -> SUBSET (Files \cup {NotFound})]
  BY <1>1, <1>2
<1>4. (CASE status = "walking" -> "open" [] status = "done" -> "merged" [] status = "failed" -> "failed") = "open"
  BY <1>1
<1> QED
  BY <1>1, <1>3, <1>4 DEF Closure!Init

LEMMA ClosureStep ==
    ASSUME IInv, IInv', [Next]_vars
    PROVE  [Closure!Next]_Closure!vars
<1>1. CASE IncludeNew
  BY <1>1, MergeStep
<1>2. CASE EndMain
  BY <1>2, CompleteStep
<1>3. CASE IncludeMissing
  BY <1>3, FailStep
<1>4. CASE SkipItem \/ EnterModule \/ IncludeKnown \/ EndFile \/ EndModule \/ UNCHANGED vars
  <2>1. text' = text /\ included' = included /\ status' = status
    BY <1>4 DEF SkipItem, EnterModule, IncludeKnown, EndFile, EndModule, vars
  <2> QED
    BY <2>1, StutterStep
<1> QED
  BY <1>1, <1>2, <1>3, <1>4 DEF Next, Finished

\* The walk merges the files of a program one by one, each because a merged file asks for
\* it and none twice; it ends when nothing that is asked for is left out, and it fails
\* over a file that does not exist, the only failure in the module (merge_includes,
\* fs.c:173-225).
THEOREM Implements == Spec => ImplementsClosure
<1>1. Init => Closure!Init
  BY ClosureInit
<1>2. IInv /\ IInv' /\ [Next]_vars => [Closure!Next]_Closure!vars
  BY ClosureStep
<1> QED
  BY <1>1, <1>2, Inductive, PTL DEF Spec, ImplementsClosure, Closure!Spec

-----------------------------------------------------------------------------
(* The forms of the tree, counted.                                         *)

Matches(b, S, T) ==
    /\ b \in [S -> T]
    /\ \A x, y \in S : b[x] = b[y] => x = y
    /\ \A z \in T : \E x \in S : b[x] = z
Matched(S, T) == \E b : Matches(b, S, T)

\* Where the lists of L hold items of a kind.
ItemAt(ls, p)     == ls[p[1]][p[2]]
Live(ls, L, kind) == {p \in Where(ls, kind) : p[1] \in L}
Held(ls, L, f)    == {p \in Live(ls, L, "form") : ItemAt(ls, p).home = f}

\* Every list of L but the roots belongs to one module, and every module in L has its
\* list there.
Treed(ls, L, R) ==
    /\ L \subseteq DOMAIN ls /\ R \subseteq L
    /\ \A p \in Live(ls, L, "module") : ItemAt(ls, p).list \in L \ R
    /\ \A p, q \in Live(ls, L, "module") : ItemAt(ls, p).list = ItemAt(ls, q).list => p = q
    /\ \A l \in L \ R : \E p \in Live(ls, L, "module") : ItemAt(ls, p).list = l

\* L holds the forms of each file that was read, and no other.
Counted(ls, L, tx) ==
    /\ \A f \in DOMAIN tx : Matched(FormsIn(tx[f]), Held(ls, L, f))
    /\ \A p \in Live(ls, L, "form") : ItemAt(ls, p).home \in DOMAIN tx

\* The input's list and those of files that are still to be appended belong to no module.
Roots(s) == {1} \cup {s[k].list : k \in {j \in DOMAIN s : s[j].into # 0}}

Stocked(ls, s, tx, L) ==
    /\ Treed(ls, L, Roots(s)) /\ Counted(ls, L, tx)
    /\ \A k \in DOMAIN s : s[k].list \in L
StockInv ==
    /\ status = "done" => Len(stack) = 1
    /\ \E L : Stocked(lists, stack, text, L)

LEMMA MatchedThrough ==
    ASSUME NEW S, NEW T, NEW U, Matched(S, T), Matched(T, U)
    PROVE  Matched(S, U)
<1>1. PICK b, c : Matches(b, S, T) /\ Matches(c, T, U)
  BY DEF Matched
<1> DEFINE d == [x \in S |-> c[b[x]]]
<1>2. d \in [S -> U] /\ \A x \in S : b[x] \in T /\ d[x] = c[b[x]]
  BY <1>1 DEF Matches
<1> HIDE DEF d
<1>3. \A x, y \in S : d[x] = d[y] => x = y
  BY <1>1, <1>2 DEF Matches
<1>4. \A z \in U : \E x \in S : d[x] = z
  <2> TAKE z \in U
  <2>1. PICK y \in T : c[y] = z
    BY <1>1 DEF Matches
  <2>2. PICK x \in S : b[x] = y
    BY <1>1 DEF Matches
  <2> QED BY <1>2, <2>1, <2>2
<1> QED BY <1>2, <1>3, <1>4 DEF Matched, Matches

\* A position is a list and an index in it.
LEMMA PlaceIs ==
    ASSUME NEW ls, NEW kind
    PROVE  /\ \A p \in Where(ls, kind) : /\ p = <<p[1], p[2]>> /\ p[1] \in DOMAIN ls /\ p[2] \in DOMAIN ls[p[1]]
                                         /\ ItemAt(ls, p).kind = kind
           /\ \A i \in DOMAIN ls : \A j \in DOMAIN ls[i] : ls[i][j].kind = kind => <<i, j>> \in Where(ls, kind)
<1>1. \A p \in Positions(ls) : p = <<p[1], p[2]>> /\ p[1] \in DOMAIN ls /\ p[2] \in DOMAIN ls[p[1]]
  BY DEF Positions
<1>2. \A i \in DOMAIN ls : \A j \in DOMAIN ls[i] : <<i, j>> \in Positions(ls)
  BY DEF Positions
<1> QED BY <1>1, <1>2 DEF Where, ItemAt

LEMMA LiveIs ==
    ASSUME NEW ls, NEW L, NEW kind
    PROVE  /\ \A p \in Live(ls, L, kind) : /\ p = <<p[1], p[2]>> /\ p[1] \in DOMAIN ls /\ p[1] \in L
                                           /\ p[2] \in DOMAIN ls[p[1]] /\ ItemAt(ls, p).kind = kind
           /\ \A i \in L \cap DOMAIN ls : \A j \in DOMAIN ls[i] :
                 ls[i][j].kind = kind => <<i, j>> \in Live(ls, L, kind) /\ ItemAt(ls, <<i, j>>) = ls[i][j]
<1>1. \A p \in Live(ls, L, kind) : p \in Where(ls, kind) /\ p[1] \in L
  BY DEF Live
<1>2. \A i \in L : \A j : <<i, j>> \in Where(ls, kind) => <<i, j>> \in Live(ls, L, kind)
  BY DEF Live
<1>3. \A i, j : ItemAt(ls, <<i, j>>) = ls[i][j]
  BY DEF ItemAt
<1> QED BY <1>1, <1>2, <1>3, PlaceIs

\* The items of a kind are carried from the lists of L to those of M as they are.
Carries(b, ls, L, l2, M, kind) ==
    /\ Matches(b, Live(ls, L, kind), Live(l2, M, kind))
    /\ \A p \in Live(ls, L, kind) : ItemAt(l2, b[p]) = ItemAt(ls, p)
Carried(ls, L, l2, M) == \A kind \in {"form", "module"} : \E b : Carries(b, ls, L, l2, M, kind)

LEMMA TreedCarried ==
    ASSUME NEW ls, NEW L, NEW R, NEW l2, NEW M, NEW Q, Treed(ls, L, R), Carried(ls, L, l2, M),
           M \subseteq DOMAIN l2, Q \subseteq M, M \ Q = L \ R
    PROVE  Treed(l2, M, Q)
<1> DEFINE S == Live(ls, L, "module")
           T == Live(l2, M, "module")
<1>1. PICK b : Matches(b, S, T) /\ \A p \in S : ItemAt(l2, b[p]) = ItemAt(ls, p)
  BY DEF Carried, Carries
<1>2. /\ \A p \in S : ItemAt(ls, p).list \in L \ R
      /\ \A p, q \in S : ItemAt(ls, p).list = ItemAt(ls, q).list => p = q
      /\ \A l \in L \ R : \E p \in S : ItemAt(ls, p).list = l
  BY DEF Treed
<1> HIDE DEF S, T
<1>3. \A q \in T : \E p \in S : b[p] = q /\ ItemAt(l2, q) = ItemAt(ls, p)
  BY <1>1 DEF Matches
<1>4. \A p \in S : b[p] \in T
  BY <1>1 DEF Matches
<1>5. \A q \in T : ItemAt(l2, q).list \in M \ Q
  BY <1>2, <1>3
<1>6. \A q, r \in T : ItemAt(l2, q).list = ItemAt(l2, r).list => q = r
  BY <1>2, <1>3
<1>7. \A l \in M \ Q : \E q \in T : ItemAt(l2, q).list = l
  BY <1>1, <1>2, <1>4
<1> QED BY <1>5, <1>6, <1>7 DEF Treed, T

LEMMA CountedCarried ==
    ASSUME NEW ls, NEW L, NEW l2, NEW M, NEW tx, Counted(ls, L, tx), Carried(ls, L, l2, M)
    PROVE  Counted(l2, M, tx)
<1> DEFINE S == Live(ls, L, "form")
           T == Live(l2, M, "form")
<1>1. PICK b : Matches(b, S, T) /\ \A p \in S : ItemAt(l2, b[p]) = ItemAt(ls, p)
  BY DEF Carried, Carries
<1>2. \A q \in T : \E p \in S : b[p] = q /\ ItemAt(l2, q) = ItemAt(ls, p)
  BY <1>1 DEF Matches
<1>3. ASSUME NEW f \in DOMAIN tx PROVE Matched(FormsIn(tx[f]), Held(l2, M, f))
  <2> DEFINE H == Held(ls, L, f)
             G == Held(l2, M, f)
             c == [p \in H |-> b[p]]
  <2>1. H = {p \in S : ItemAt(ls, p).home = f} /\ G = {p \in T : ItemAt(l2, p).home = f}
    BY DEF Held
  <2> HIDE DEF S, T, H, G
  <2>2. c \in [H -> G]
    BY <1>1, <2>1 DEF Matches
  <2>3. \A p \in H : c[p] = b[p]
    OBVIOUS
  <2> HIDE DEF c
  <2>4. \A p, q \in H : c[p] = c[q] => p = q
    BY <1>1, <2>1, <2>3 DEF Matches
  <2>5. \A q \in G : \E p \in H : c[p] = q
    BY <1>2, <2>1, <2>3
  <2>6. Matched(H, G)
    BY <2>2, <2>4, <2>5 DEF Matched, Matches
  <2>7. Matched(FormsIn(tx[f]), H)
    BY DEF Counted, H
  <2> QED BY <2>6, <2>7, MatchedThrough DEF G
<1>4. \A q \in T : ItemAt(l2, q).home \in DOMAIN tx
  BY <1>2 DEF Counted
<1> QED BY <1>3, <1>4 DEF Counted

\* An include that is blanked changes no other item.
LEMMA BlankedCarried ==
    ASSUME NEW ls, NEW l2, DOMAIN l2 = DOMAIN ls, \A i \in DOMAIN ls : DOMAIN l2[i] = DOMAIN ls[i],
           \A i \in DOMAIN ls : \A p \in DOMAIN ls[i] :
              \/ l2[i][p] = ls[i][p]
              \/ ls[i][p].kind = "include" /\ l2[i][p].kind = "blank",
           NEW L
    PROVE  Carried(ls, L, l2, L)
<1> SUFFICES ASSUME NEW kind \in {"form", "module"} PROVE \E b : Carries(b, ls, L, l2, L, kind)
  BY DEF Carried
<1> DEFINE S == Live(ls, L, kind)
           b == [p \in S |-> p]
<1>1. \A p \in S : p \in Live(l2, L, kind) /\ ItemAt(l2, p) = ItemAt(ls, p)
  <2> TAKE p \in S
  <2>1. PICK i, j : i \in DOMAIN ls /\ j \in DOMAIN ls[i] /\ p = <<i, j>> /\ i \in L /\ ls[i][j].kind = kind
    BY LiveIs DEF ItemAt
  <2>2. l2[i][j] = ls[i][j]
    BY <2>1
  <2>3. i \in L \cap DOMAIN l2 /\ j \in DOMAIN l2[i] /\ l2[i][j].kind = kind
    BY <2>1, <2>2
  <2>4. <<i, j>> \in Live(l2, L, kind) /\ ItemAt(l2, <<i, j>>) = l2[i][j]
    BY <2>3, LiveIs
  <2> QED BY <2>1, <2>2, <2>4 DEF ItemAt
<1>2. \A p \in Live(l2, L, kind) : p \in S
  <2> TAKE p \in Live(l2, L, kind)
  <2>1. PICK i, j : i \in DOMAIN ls /\ j \in DOMAIN ls[i] /\ p = <<i, j>> /\ i \in L /\ l2[i][j].kind = kind
    BY LiveIs DEF ItemAt
  <2>2. l2[i][j] = ls[i][j]
    BY <2>1
  <2> QED BY <2>1, <2>2, LiveIs
<1>3. Matches(b, S, Live(l2, L, kind)) /\ \A p \in S : b[p] = p
  <2> HIDE DEF S
  <2> QED BY <1>1, <1>2 DEF Matches
<1> QED BY <1>1, <1>3 DEF Carries

\* The items of a file go behind those of the list that holds the include.
Appends(ls, l2, top, into, n, m) ==
    /\ DOMAIN l2 = DOMAIN ls /\ top \in DOMAIN ls /\ into \in DOMAIN ls /\ top # into
    /\ n \in Nat /\ m \in Nat /\ DOMAIN ls[into] = 1..n /\ DOMAIN ls[top] = 1..m /\ DOMAIN l2[into] = 1..n + m
    /\ \A i \in DOMAIN ls \ {into} : l2[i] = ls[i]
    /\ \A p \in 1..n : \/ l2[into][p] = ls[into][p]
                       \/ ls[into][p].kind = "include" /\ l2[into][p].kind = "blank"
    /\ \A p \in 1..m : l2[into][n + p] = ls[top][p]

LEMMA AppendsCarried ==
    ASSUME NEW ls, NEW l2, NEW top, NEW into, NEW n, NEW m, Appends(ls, l2, top, into, n, m),
           NEW L, top \in L, into \in L
    PROVE  Carried(ls, L, l2, L \ {top})
<1> SUFFICES ASSUME NEW kind \in {"form", "module"} PROVE \E b : Carries(b, ls, L, l2, L \ {top}, kind)
  BY DEF Carried
<1> DEFINE S == Live(ls, L, kind)
           T == Live(l2, L \ {top}, kind)
           b == [p \in S |-> IF p[1] = top THEN <<into, n + p[2]>> ELSE p]
<1>1. \A p \in 1..m : n + p \in 1..n + m /\ n + p \notin 1..n
  BY DEF Appends
<1>2. \A q \in 1..n + m : q \in 1..n \/ \E p \in 1..m : q = n + p
  <2> TAKE q \in 1..n + m
  <2>1. CASE q > n
    <3>1. q - n \in 1..m /\ q = n + (q - n)
      BY <2>1 DEF Appends
    <3> QED BY <3>1
  <2>2. CASE ~(q > n)
    BY <2>2 DEF Appends
  <2> QED BY <2>1, <2>2
<1>3. \A p, q \in 1..m : n + p = n + q => p = q
  BY DEF Appends
<1>4. ASSUME NEW i \in DOMAIN ls, NEW j \in DOMAIN ls[i], i \in L, ls[i][j].kind = kind, i # top
      PROVE  <<i, j>> \in T /\ l2[i][j] = ls[i][j]
  <2>1. j \in DOMAIN l2[i] /\ l2[i][j] = ls[i][j]
    <3>1. CASE i = into
      <4>1. j \in 1..n /\ DOMAIN l2[i] = 1..n + m
        BY <1>4, <3>1 DEF Appends
      <4>2. j \in 1..n + m
        BY <4>1 DEF Appends
      <4> QED BY <1>4, <3>1, <4>1, <4>2 DEF Appends
    <3>2. CASE i # into
      BY <3>2 DEF Appends
    <3> QED BY <3>1, <3>2
  <2>2. i \in (L \ {top}) \cap DOMAIN l2 /\ l2[i][j].kind = kind
    BY <1>4, <2>1 DEF Appends
  <2> QED BY <2>1, <2>2, LiveIs
<1>5. ASSUME NEW j \in DOMAIN ls[top], ls[top][j].kind = kind
      PROVE  <<into, n + j>> \in T /\ l2[into][n + j] = ls[top][j]
  <2>1. j \in 1..m /\ n + j \in DOMAIN l2[into] /\ l2[into][n + j] = ls[top][j]
    BY <1>1 DEF Appends
  <2>2. into \in (L \ {top}) \cap DOMAIN l2
    BY DEF Appends
  <2> QED BY <1>5, <2>1, <2>2, LiveIs
<1>6. ASSUME NEW p \in S
      PROVE  /\ p = <<p[1], p[2]>> /\ p[1] \in DOMAIN ls /\ p[2] \in DOMAIN ls[p[1]] /\ p[1] \in L
             /\ ls[p[1]][p[2]].kind = kind
  BY LiveIs DEF ItemAt
<1>7. \A p \in S : b[p] \in T /\ ItemAt(l2, b[p]) = ItemAt(ls, p)
  <2> TAKE p \in S
  <2>1. CASE p[1] = top
    <3>1. b[p] = <<into, n + p[2]>>
      BY <2>1
    <3> HIDE DEF b, T
    <3> QED BY <1>5, <1>6, <2>1, <3>1 DEF ItemAt
  <2>2. CASE p[1] # top
    <3>1. b[p] = p
      BY <2>2
    <3> HIDE DEF b, T
    <3> QED BY <1>4, <1>6, <2>2, <3>1 DEF ItemAt
  <2> QED BY <2>1, <2>2
<1>8. \A p, q \in S : b[p] = b[q] => p = q
  <2> TAKE p, q \in S
  <2>1. p[2] \in DOMAIN ls[p[1]] /\ q[2] \in DOMAIN ls[q[1]] /\ p = <<p[1], p[2]>> /\ q = <<q[1], q[2]>>
    BY <1>6
  <2>2. CASE p[1] = top /\ q[1] = top
    <3>1. p[2] \in 1..m /\ q[2] \in 1..m
      BY <2>1, <2>2 DEF Appends
    <3>2. b[p] = <<into, n + p[2]>> /\ b[q] = <<into, n + q[2]>>
      BY <2>2
    <3> HIDE DEF b
    <3> QED BY <1>3, <2>1, <2>2, <3>1, <3>2
  <2>3. CASE p[1] # top /\ q[1] # top
    BY <2>3
  <2>4. ASSUME NEW x \in S, NEW y \in S, x[1] = top, y[1] # top, b[x] = b[y] PROVE FALSE
    <3>1. b[x] = <<into, n + x[2]>> /\ b[y] = y
      BY <2>4
    <3>2. y = <<y[1], y[2]>> /\ x[2] \in 1..m /\ y[2] \in DOMAIN ls[y[1]]
      BY <1>6, <2>4 DEF Appends
    <3>3. y[1] = into /\ y[2] = n + x[2]
      BY <2>4, <3>1, <3>2
    <3>4. y[2] \in 1..n
      BY <3>2, <3>3 DEF Appends
    <3> QED BY <1>1, <3>2, <3>3, <3>4
  <2> QED BY <2>2, <2>3, <2>4
<1>9. \A q \in T : \E p \in S : b[p] = q
  <2> TAKE q \in T
  <2>1. PICK i, j : i \in DOMAIN ls /\ j \in DOMAIN l2[i] /\ q = <<i, j>> /\ i \in L /\ i # top /\ l2[i][j].kind = kind
    BY LiveIs DEF ItemAt, Appends
  <2>2. CASE i = into /\ j \notin 1..n
    <3>1. PICK p \in 1..m : j = n + p
      BY <1>2, <2>1, <2>2 DEF Appends
    <3>2. ls[top][p].kind = kind /\ p \in DOMAIN ls[top] /\ top \in L \cap DOMAIN ls
      BY <2>1, <2>2, <3>1 DEF Appends
    <3>3. <<top, p>> \in S
      BY <3>2, LiveIs
    <3>4. b[<<top, p>>] = <<into, n + p>>
      BY <3>3
    <3> QED BY <2>1, <2>2, <3>1, <3>3, <3>4
  <2>3. CASE ~(i = into /\ j \notin 1..n)
    <3>1. j \in DOMAIN ls[i] /\ ls[i][j].kind = kind
      BY <2>1, <2>3 DEF Appends
    <3>2. <<i, j>> \in S
      BY <2>1, <3>1, LiveIs
    <3>3. b[<<i, j>>] = <<i, j>>
      BY <2>1, <3>2
    <3> QED BY <2>1, <3>2, <3>3
  <2> QED BY <2>2, <2>3
<1>10. b \in [S -> T]
  <2>1. b \in [S -> {b[p] : p \in S}]
    OBVIOUS
  <2> HIDE DEF b, S, T
  <2> QED BY <1>7, <2>1
<1>11. Matches(b, S, T)
  <2> HIDE DEF b, S, T
  <2> QED BY <1>8, <1>9, <1>10 DEF Matches
<1>12. Carries(b, ls, L, l2, L \ {top}, kind)
  <2> HIDE DEF b
  <2> QED BY <1>7, <1>11 DEF Carries
<1> QED BY <1>12

LEMMA RootIs ==
    ASSUME NEW s, NEW x
    PROVE  x \in Roots(s) <=> x = 1 \/ \E k \in DOMAIN s : s[k].into # 0 /\ s[k].list = x
  BY DEF Roots

LEMMA MatchedCount ==
    ASSUME NEW S, NEW T, IsFiniteSet(S), Matched(S, T)
    PROVE  IsFiniteSet(T) /\ Cardinality(T) = Cardinality(S)
<1>1. PICK b : Matches(b, S, T)
  BY DEF Matched
<1>2. b \in Injection(S, T) /\ b \in Surjection(S, T)
  BY <1>1 DEF Matches, Injection, IsInjective, Surjection
<1>3. ExistsBijection(S, T)
  BY <1>2 DEF ExistsBijection, Bijection
<1> QED BY <1>3, FS_Bijection

LEMMA PositionsFinite ==
    ASSUME NEW T, NEW t \in Seq(Seq(T))
    PROVE  IsFiniteSet(Positions(t))
<1> DEFINE R == {{i} \X DOMAIN t[i] : i \in DOMAIN t}
           g == [i \in DOMAIN t |-> {i} \X DOMAIN t[i]]
<1>1. IsFiniteSet(DOMAIN t)
  <2>1. DOMAIN t = 1..Len(t) /\ Len(t) \in Int /\ 1 \in Int
    OBVIOUS
  <2> QED BY <2>1, FS_Interval
<1>2. g \in Surjection(DOMAIN t, R)
  BY DEF Surjection
<1>3. IsFiniteSet(R)
  <2> HIDE DEF g, R
  <2> QED BY <1>1, <1>2, FS_Surjection
<1>4. ASSUME NEW i \in DOMAIN t PROVE IsFiniteSet({i} \X DOMAIN t[i])
  <2>1. t[i] \in Seq(T)
    OBVIOUS
  <2>2. DOMAIN t[i] = 1..Len(t[i]) /\ Len(t[i]) \in Int /\ 1 \in Int
    BY <2>1
  <2>3. IsFiniteSet(DOMAIN t[i])
    BY <2>2, FS_Interval
  <2>4. IsFiniteSet({i})
    BY FS_Singleton
  <2> QED BY <2>3, <2>4, FS_Product
<1>5. \A Q \in R : IsFiniteSet(Q)
  BY <1>4
<1>6. Positions(t) = UNION R
  BY DEF Positions
<1> HIDE DEF R
<1> QED BY <1>3, <1>5, <1>6, FS_UNION

\* A list of a text belongs to one module of it.
OneParent(t) ==
    /\ \A p \in Where(t, "module") : ItemAt(t, p).list \in p[1] + 1..Len(t)
    /\ \A p, q \in Where(t, "module") : ItemAt(t, p).list = ItemAt(t, q).list => p = q
    /\ \A i \in 2..Len(t) : \E p \in Where(t, "module") : ItemAt(t, p).list = i

LEMMA TextParents ==
    ASSUME NEW f \in Files \cup {Input}, NEW t \in Texts[IF f = Input THEN Main ELSE f]
    PROVE  /\ OneParent(t) /\ IsFiniteSet(Positions(t))
           /\ Len(t) \in Nat \ {0} /\ DOMAIN t = 1..Len(t)
<1> DEFINE T == [kind : {"form", "include", "module"}, inc : Incs, list : Nat]
           M == Where(t, "module")
           H(i) == {p \in M : t[p[1]][p[2]].list = i}
<1>1. t \in Seq(Seq(T)) /\ t # <<>>
  BY FilesAssumption, TextsAssumption
<1>2. \A p \in M : t[p[1]][p[2]].list \in p[1] + 1..Len(t)
  BY FilesAssumption, TextsAssumption
<1>3. \A i \in 2..Len(t) : Cardinality(H(i)) = 1
  BY FilesAssumption, TextsAssumption
<1> HIDE DEF T
<1>4. Len(t) \in Nat \ {0} /\ DOMAIN t = 1..Len(t)
  BY <1>1
<1>5. IsFiniteSet(Positions(t))
  BY <1>1, PositionsFinite
<1>6. \A i : H(i) \in SUBSET Positions(t)
  BY DEF Where
<1> HIDE DEF H
<1>7. ASSUME NEW i \in 2..Len(t) PROVE \E x : H(i) = {x}
  <2>1. IsFiniteSet(H(i))
    BY <1>5, <1>6, FS_Subset
  <2> QED BY <1>3, <2>1, FS_Singleton
<1>8. \A p \in M : t[p[1]][p[2]].list \in 2..Len(t)
  <2> TAKE p \in M
  <2>1. p[1] \in 1..Len(t)
    BY <1>4, PlaceIs
  <2>2. t[p[1]][p[2]].list \in p[1] + 1..Len(t)
    BY <1>2
  <2> QED BY <1>4, <2>1, <2>2
<1>9. ASSUME NEW p \in M, NEW q \in M, t[p[1]][p[2]].list = t[q[1]][q[2]].list PROVE p = q
  <2> DEFINE i == t[p[1]][p[2]].list
  <2>1. i \in 2..Len(t)
    BY <1>8
  <2>2. p \in H(i) /\ q \in H(i)
    BY <1>9 DEF H
  <2> HIDE DEF i
  <2> QED BY <1>7, <2>1, <2>2
<1>10. ASSUME NEW i \in 2..Len(t) PROVE \E p \in M : t[p[1]][p[2]].list = i
  <2>1. PICK p : p \in H(i)
    BY <1>7
  <2> QED BY <2>1 DEF H
<1> QED BY <1>2, <1>4, <1>5, <1>9, <1>10 DEF OneParent, ItemAt

\* The lists of a file, behind n others.
Lifted(t, n)  == {n + i : i \in DOMAIN t}
Copied(l2, n, f, t) ==
    /\ n \in Nat /\ Len(t) \in Nat \ {0} /\ DOMAIN t = 1..Len(t) /\ OneParent(t)
    /\ \A i \in DOMAIN t : n + i \in DOMAIN l2 /\ DOMAIN l2[n + i] = DOMAIN t[i]
    /\ \A i \in DOMAIN t : \A p \in DOMAIN t[i] :
          /\ l2[n + i][p].kind = t[i][p].kind
          /\ l2[n + i][p].list = n + t[i][p].list
          /\ l2[n + i][p].home = f

Lifts(b, l2, n, f, t, kind) ==
    /\ Matches(b, Where(t, kind), Live(l2, Lifted(t, n), kind))
    /\ \A p \in Where(t, kind) : ItemAt(l2, b[p]).list = n + ItemAt(t, p).list
                                 /\ ItemAt(l2, b[p]).home = f

LEMMA CopyLifts ==
    ASSUME NEW l2, NEW n, NEW f, NEW t, Copied(l2, n, f, t), NEW kind
    PROVE  \E b : Lifts(b, l2, n, f, t, kind)
<1> DEFINE S == Where(t, kind)
           T == Live(l2, Lifted(t, n), kind)
           b == [p \in S |-> <<n + p[1], p[2]>>]
<1>1. ASSUME NEW p \in S
      PROVE  p = <<p[1], p[2]>> /\ p[1] \in DOMAIN t /\ p[2] \in DOMAIN t[p[1]] /\ t[p[1]][p[2]].kind = kind
  BY PlaceIs DEF ItemAt
<1>2. \A p \in S : b[p] = <<n + p[1], p[2]>>
  OBVIOUS
<1> HIDE DEF S
<1>3. ASSUME NEW p \in S
      PROVE  b[p] \in T /\ ItemAt(l2, b[p]).list = n + ItemAt(t, p).list /\ ItemAt(l2, b[p]).home = f
  <2>1. p[1] \in DOMAIN t /\ p[2] \in DOMAIN t[p[1]] /\ t[p[1]][p[2]].kind = kind
    BY <1>1
  <2>2. n + p[1] \in Lifted(t, n) \cap DOMAIN l2 /\ p[2] \in DOMAIN l2[n + p[1]]
    BY <2>1 DEF Copied, Lifted
  <2>3. l2[n + p[1]][p[2]].kind = kind /\ l2[n + p[1]][p[2]].list = n + t[p[1]][p[2]].list
        /\ l2[n + p[1]][p[2]].home = f
    BY <2>1 DEF Copied
  <2>4. <<n + p[1], p[2]>> \in T /\ ItemAt(l2, <<n + p[1], p[2]>>) = l2[n + p[1]][p[2]]
    <3>1. PICK i, j : i = n + p[1] /\ j = p[2]
      OBVIOUS
    <3>2. i \in Lifted(t, n) \cap DOMAIN l2 /\ j \in DOMAIN l2[i] /\ l2[i][j].kind = kind
      BY <2>2, <2>3, <3>1
    <3>3. <<i, j>> \in T /\ ItemAt(l2, <<i, j>>) = l2[i][j]
      BY <3>2, LiveIs
    <3> HIDE DEF T
    <3> QED BY <3>1, <3>3
  <2>5. b[p] = <<n + p[1], p[2]>>
    BY <1>2
  <2> HIDE DEF b, T
  <2> QED BY <2>3, <2>4, <2>5 DEF ItemAt
<1>4. \A p, q \in S : b[p] = b[q] => p = q
  <2> TAKE p, q \in S
  <2>1. p = <<p[1], p[2]>> /\ q = <<q[1], q[2]>> /\ p[1] \in Nat /\ q[1] \in Nat /\ n \in Nat
    BY <1>1 DEF Copied
  <2> HAVE b[p] = b[q]
  <2>2. n + p[1] = n + q[1] /\ p[2] = q[2]
    BY <1>2
  <2>3. p[1] = q[1]
    BY <2>1, <2>2
  <2> QED BY <2>1, <2>2, <2>3
<1>5. \A q \in T : \E p \in S : b[p] = q
  <2> TAKE q \in T
  <2>1. /\ q = <<q[1], q[2]>> /\ q[1] \in Lifted(t, n) /\ q[2] \in DOMAIN l2[q[1]]
        /\ l2[q[1]][q[2]].kind = kind
    BY LiveIs DEF ItemAt
  <2>2. PICK i \in DOMAIN t : q[1] = n + i
    BY <2>1 DEF Lifted
  <2>3. q[2] \in DOMAIN t[i] /\ t[i][q[2]].kind = kind
    BY <2>1, <2>2 DEF Copied
  <2>4. <<i, q[2]>> \in S
    BY <2>3, PlaceIs DEF S
  <2> HIDE DEF b
  <2>5. b[<<i, q[2]>>] = <<n + i, q[2]>>
    BY <1>2, <2>4
  <2> QED BY <2>1, <2>2, <2>4, <2>5
<1>6. b \in [S -> T]
  <2>1. b \in [S -> {b[p] : p \in S}]
    OBVIOUS
  <2> HIDE DEF b, T
  <2> QED BY <1>3, <2>1
<1>7. Lifts(b, l2, n, f, t, kind)
  <2> HIDE DEF b
  <2> QED BY <1>3, <1>4, <1>5, <1>6 DEF Lifts, Matches, S
<1> QED BY <1>7

LEMMA CopyTreed ==
    ASSUME NEW l2, NEW n, NEW f, NEW t, Copied(l2, n, f, t)
    PROVE  /\ Treed(l2, Lifted(t, n), {n + 1})
           /\ Matched(FormsIn(t), Live(l2, Lifted(t, n), "form"))
           /\ \A p \in Live(l2, Lifted(t, n), "form") : ItemAt(l2, p).home = f
<1> DEFINE N == Lifted(t, n)
           S(kind) == Where(t, kind)
           T(kind) == Live(l2, N, kind)
<1>1. PICK b : Lifts(b, l2, n, f, t, "form")
  BY CopyLifts
<1>2. PICK c : Lifts(c, l2, n, f, t, "module")
  BY CopyLifts
<1>3. Matched(FormsIn(t), Live(l2, N, "form"))
  BY <1>1 DEF Lifts, Matched, FormsIn
<1>4. \A q \in Live(l2, N, "form") : ItemAt(l2, q).home = f
  BY <1>1 DEF Lifts, Matches
<1>5. \A q \in T("module") : \E p \in S("module") : c[p] = q /\ ItemAt(l2, q).list = n + ItemAt(t, p).list
  BY <1>2 DEF Lifts, Matches
<1>6. \A p \in S("module") : c[p] \in T("module") /\ ItemAt(l2, c[p]).list = n + ItemAt(t, p).list
  BY <1>2 DEF Lifts, Matches
<1>7. ASSUME NEW p \in S("module") PROVE ItemAt(t, p).list \in 2..Len(t)
  <2>1. p[1] \in 1..Len(t) /\ Len(t) \in Nat
    BY PlaceIs DEF Copied
  <2>2. ItemAt(t, p).list \in p[1] + 1..Len(t)
    BY DEF Copied, OneParent
  <2> QED BY <2>1, <2>2
<1>8. N \subseteq DOMAIN l2 /\ {n + 1} \subseteq N
  <2>1. 1 \in DOMAIN t
    BY DEF Copied
  <2> QED BY <2>1 DEF Copied, Lifted
<1>9. \A m \in 2..Len(t) : n + m \in N \ {n + 1}
  <2> TAKE m \in 2..Len(t)
  <2>1. m \in DOMAIN t /\ n + m # n + 1
    BY DEF Copied
  <2> QED BY <2>1 DEF Lifted
<1>10. \A l \in N \ {n + 1} : \E m \in 2..Len(t) : l = n + m
  <2> TAKE l \in N \ {n + 1}
  <2>1. PICK m \in DOMAIN t : l = n + m
    BY DEF Lifted
  <2>2. m \in 2..Len(t)
    BY <2>1 DEF Copied
  <2> QED BY <2>1, <2>2
<1> HIDE DEF N, S, T
<1>11. \A q \in T("module") : ItemAt(l2, q).list \in N \ {n + 1}
  BY <1>5, <1>7, <1>9
<1>12. ASSUME NEW q \in T("module"), NEW r \in T("module"), ItemAt(l2, q).list = ItemAt(l2, r).list
       PROVE  q = r
  <2>1. PICK x \in S("module") : c[x] = q /\ ItemAt(l2, q).list = n + ItemAt(t, x).list
    BY <1>5
  <2>2. PICK y \in S("module") : c[y] = r /\ ItemAt(l2, r).list = n + ItemAt(t, y).list
    BY <1>5
  <2>3. ItemAt(t, x).list \in Nat /\ ItemAt(t, y).list \in Nat /\ n \in Nat
    BY <1>7 DEF Copied
  <2>4. \A u, v \in Nat : n + u = n + v => u = v
    BY <2>3
  <2>5. ItemAt(t, x).list = ItemAt(t, y).list
    BY <1>12, <2>1, <2>2, <2>3, <2>4
  <2>6. x = y
    BY <2>5 DEF Copied, OneParent, S
  <2> QED BY <2>1, <2>2, <2>6
<1>13. ASSUME NEW l \in N \ {n + 1} PROVE \E q \in T("module") : ItemAt(l2, q).list = l
  <2>1. PICK m \in 2..Len(t) : l = n + m
    BY <1>10
  <2>2. PICK p \in S("module") : ItemAt(t, p).list = m
    BY DEF Copied, OneParent, S
  <2> QED BY <1>6, <2>1, <2>2
<1>14. Treed(l2, N, {n + 1})
  BY <1>8, <1>11, <1>12, <1>13 DEF Treed, T
<1> QED BY <1>3, <1>4, <1>14 DEF N

\* New lists are put beside those there are.
Beside(ls, L, l2, N) ==
    /\ L \subseteq DOMAIN ls /\ DOMAIN ls \subseteq DOMAIN l2 /\ N \cap DOMAIN ls = {}
    /\ \A i \in DOMAIN ls : l2[i] = ls[i]

Joined(ls, L, l2, N, kind) ==
    /\ Live(l2, L \cup N, kind) = Live(ls, L, kind) \cup Live(l2, N, kind)
    /\ \A p \in Live(ls, L, kind) : ItemAt(l2, p) = ItemAt(ls, p)

LEMMA BesideLive ==
    ASSUME NEW ls, NEW L, NEW l2, NEW N, Beside(ls, L, l2, N), NEW kind
    PROVE  Joined(ls, L, l2, N, kind)
<1>1. ASSUME NEW p \in Live(l2, L \cup N, kind) PROVE p \in Live(ls, L, kind) \cup Live(l2, N, kind)
  <2>1. PICK i, j : p = <<i, j>> /\ i \in DOMAIN l2 /\ i \in L \cup N /\ j \in DOMAIN l2[i] /\ l2[i][j].kind = kind
    BY LiveIs DEF ItemAt
  <2>2. CASE i \in L
    <3>1. i \in L \cap DOMAIN ls /\ j \in DOMAIN ls[i] /\ ls[i][j].kind = kind
      BY <2>1, <2>2 DEF Beside
    <3> QED BY <2>1, <3>1, LiveIs
  <2>3. CASE i \in N
    BY <2>1, <2>3, LiveIs
  <2> QED BY <2>1, <2>2, <2>3
<1>2. ASSUME NEW p \in Live(ls, L, kind)
      PROVE  p \in Live(l2, L \cup N, kind) /\ ItemAt(l2, p) = ItemAt(ls, p)
  <2>1. PICK i, j : p = <<i, j>> /\ i \in DOMAIN ls /\ i \in L /\ j \in DOMAIN ls[i] /\ ls[i][j].kind = kind
    BY LiveIs DEF ItemAt
  <2>2. i \in (L \cup N) \cap DOMAIN l2 /\ j \in DOMAIN l2[i] /\ l2[i][j].kind = kind /\ l2[i] = ls[i]
    BY <2>1 DEF Beside
  <2>3. <<i, j>> \in Live(l2, L \cup N, kind)
    BY <2>2, LiveIs
  <2> QED BY <2>1, <2>2, <2>3 DEF ItemAt
<1>3. \A p \in Live(l2, N, kind) : p \in Live(l2, L \cup N, kind)
  BY DEF Live
<1> QED BY <1>1, <1>2, <1>3 DEF Joined

LEMMA BesideTreed ==
    ASSUME NEW ls, NEW L, NEW R, NEW l2, NEW N, NEW Q,
           Beside(ls, L, l2, N), Treed(ls, L, R), Treed(l2, N, Q)
    PROVE  Treed(l2, L \cup N, R \cup Q)
<1> DEFINE A == Live(ls, L, "module")
           B == Live(l2, N, "module")
           C == Live(l2, L \cup N, "module")
<1>1. C = A \cup B /\ \A p \in A : ItemAt(l2, p) = ItemAt(ls, p)
  <2>1. Joined(ls, L, l2, N, "module")
    BY BesideLive
  <2> QED BY <2>1 DEF Joined
<1>2. /\ \A p \in A : ItemAt(ls, p).list \in L \ R
      /\ \A p, q \in A : ItemAt(ls, p).list = ItemAt(ls, q).list => p = q
      /\ \A l \in L \ R : \E p \in A : ItemAt(ls, p).list = l
      /\ R \subseteq L
  BY DEF Treed
<1>3. /\ \A p \in B : ItemAt(l2, p).list \in N \ Q
      /\ \A p, q \in B : ItemAt(l2, p).list = ItemAt(l2, q).list => p = q
      /\ \A l \in N \ Q : \E p \in B : ItemAt(l2, p).list = l
      /\ Q \subseteq N
  BY DEF Treed
<1>4. L \cap N = {}
  BY DEF Beside
<1>5. L \cup N \subseteq DOMAIN l2 /\ R \cup Q \subseteq L \cup N
  BY <1>2, <1>3 DEF Beside, Treed
<1>6. (L \cup N) \ (R \cup Q) = (L \ R) \cup (N \ Q)
  BY <1>2, <1>3, <1>4
<1> HIDE DEF A, B, C
<1>7. \A p \in C : ItemAt(l2, p).list \in (L \cup N) \ (R \cup Q)
  BY <1>1, <1>2, <1>3, <1>6
<1>8. \A p, q \in C : ItemAt(l2, p).list = ItemAt(l2, q).list => p = q
  BY <1>1, <1>2, <1>3, <1>4
<1>9. \A l \in (L \cup N) \ (R \cup Q) : \E p \in C : ItemAt(l2, p).list = l
  BY <1>1, <1>2, <1>3, <1>6
<1> QED BY <1>5, <1>7, <1>8, <1>9 DEF Treed, C

LEMMA BesideCounted ==
    ASSUME NEW ls, NEW L, NEW l2, NEW N, NEW tx, NEW f, NEW t, NEW t2,
           Beside(ls, L, l2, N), Counted(ls, L, tx), f \notin DOMAIN tx,
           Matched(FormsIn(t), Live(l2, N, "form")), \A p \in Live(l2, N, "form") : ItemAt(l2, p).home = f,
           DOMAIN t2 = DOMAIN tx \cup {f}, t2[f] = t, \A g \in DOMAIN tx : t2[g] = tx[g]
    PROVE  Counted(l2, L \cup N, t2)
<1> DEFINE A == Live(ls, L, "form")
           B == Live(l2, N, "form")
           C == Live(l2, L \cup N, "form")
<1>1. C = A \cup B /\ \A p \in A : ItemAt(l2, p) = ItemAt(ls, p)
  <2>1. Joined(ls, L, l2, N, "form")
    BY BesideLive
  <2> QED BY <2>1 DEF Joined
<1>2. \A p \in A : ItemAt(ls, p).home \in DOMAIN tx
  BY DEF Counted
<1>3. \A p \in B : ItemAt(l2, p).home = f
  OBVIOUS
<1>4. \A g : Held(l2, L \cup N, g) = {p \in C : ItemAt(l2, p).home = g}
  BY DEF Held
<1>5. \A g : Held(ls, L, g) = {p \in A : ItemAt(ls, p).home = g}
  BY DEF Held
<1> HIDE DEF A, B, C
<1>6. ASSUME NEW g \in DOMAIN tx PROVE Matched(FormsIn(t2[g]), Held(l2, L \cup N, g))
  <2>1. Held(l2, L \cup N, g) = Held(ls, L, g)
    <3>1. {p \in C : ItemAt(l2, p).home = g} = {p \in A : ItemAt(ls, p).home = g}
      BY <1>1, <1>3, <1>6
    <3> QED BY <1>4, <1>5, <3>1
  <2>2. t2[g] = tx[g]
    OBVIOUS
  <2> QED BY <2>1, <2>2 DEF Counted
<1>7. Matched(FormsIn(t2[f]), Held(l2, L \cup N, f))
  <2>1. {p \in C : ItemAt(l2, p).home = f} = B
    BY <1>1, <1>2, <1>3
  <2>2. Held(l2, L \cup N, f) = B
    BY <1>4, <2>1
  <2> QED BY <2>2 DEF B
<1>8. \A p \in C : ItemAt(l2, p).home \in DOMAIN t2
  BY <1>1, <1>2, <1>3
<1> QED BY <1>6, <1>7, <1>8 DEF Counted, C

\* The lists of the input, and those of a file that is read.
LEMMA CopyOf ==
    ASSUME NEW f \in Files \cup {Input}, NEW t \in Texts[IF f = Input THEN Main ELSE f], NEW n \in Nat, NEW P,
           IsParsed(f, t, n, P), NEW l2, \A i \in DOMAIN t : n + i \in DOMAIN l2 /\ l2[n + i] = P[i]
    PROVE  Copied(l2, n, f, t)
<1>1. OneParent(t) /\ Len(t) \in Nat \ {0} /\ DOMAIN t = 1..Len(t)
  BY TextParents
<1>2. ASSUME NEW i \in DOMAIN t
      PROVE  /\ n + i \in DOMAIN l2 /\ DOMAIN l2[n + i] = DOMAIN t[i]
             /\ \A p \in DOMAIN t[i] : /\ l2[n + i][p].kind = t[i][p].kind
                                       /\ l2[n + i][p].list = n + t[i][p].list
                                       /\ l2[n + i][p].home = f
  <2>1. n + i \in DOMAIN l2 /\ l2[n + i] = P[i]
    OBVIOUS
  <2> QED BY <2>1 DEF IsParsed
<1> QED BY <1>1, <1>2 DEF Copied

LEMMA StockInit ==
    ASSUME Init
    PROVE  StockInv
<1>1. PICK t \in Texts[Main] : text = [f \in {Input} |-> t] /\ lists = Parsed(Input, t, 0)
  BY DEF Init
<1>2. stack = <<Frame(1, DirOf[Input], Input, 0)>> /\ status = "walking"
  BY DEF Init
<1>3. IsParsed(Input, t, 0, lists)
  BY <1>1, ParsedIs
<1>4. DOMAIN lists = DOMAIN t /\ DOMAIN t \subseteq Nat /\ 1 \in DOMAIN t
  BY <1>3 DEF IsParsed
<1>5. \A i \in DOMAIN t : 0 + i = i
  BY <1>4
<1>6. Copied(lists, 0, Input, t)
  <2>1. \A i \in DOMAIN t : 0 + i \in DOMAIN lists /\ lists[0 + i] = lists[i]
    BY <1>4, <1>5
  <2>2. 0 \in Nat /\ Input \in Files \cup {Input} /\ t \in Texts[IF Input = Input THEN Main ELSE Input]
    OBVIOUS
  <2> QED BY <1>3, <2>1, <2>2, CopyOf
<1>7. Lifted(t, 0) = DOMAIN lists
  BY <1>4, <1>5 DEF Lifted
<1>8. /\ Treed(lists, DOMAIN lists, {0 + 1})
      /\ Matched(FormsIn(t), Live(lists, DOMAIN lists, "form"))
      /\ \A p \in Live(lists, DOMAIN lists, "form") : ItemAt(lists, p).home = Input
  BY <1>6, <1>7, CopyTreed
<1>9. Roots(stack) = {0 + 1} /\ \A k \in DOMAIN stack : stack[k].list \in DOMAIN lists
  <2>1. DOMAIN stack = {1} /\ stack[1].into = 0 /\ stack[1].list = 1
    BY <1>2 DEF Frame
  <2>2. \A x : x \in Roots(stack) <=> x = 1
    BY <2>1, RootIs
  <2> QED BY <1>4, <2>1, <2>2
<1>10. Held(lists, DOMAIN lists, Input) = Live(lists, DOMAIN lists, "form")
  BY <1>8 DEF Held
<1>11. Counted(lists, DOMAIN lists, text)
  <2>1. DOMAIN text = {Input} /\ text[Input] = t
    BY <1>1
  <2> QED BY <1>8, <1>10, <2>1 DEF Counted
<1>12. Stocked(lists, stack, text, DOMAIN lists)
  BY <1>8, <1>9, <1>11 DEF Stocked
<1> QED BY <1>2, <1>12 DEF StockInv

StockedBy(ls, s, tx) == \E L : Stocked(ls, s, tx, L)

LEMMA GoneRoots ==
    ASSUME NEW s, NEW fr, Gone(s, fr), Len(s) \in Nat, DOMAIN s = 1..Len(s)
    PROVE  /\ \A x : x \in Roots(fr) <=> x = 1 \/ \E k \in 1..Len(fr) : s[k].into # 0 /\ s[k].list = x
           /\ \A k \in DOMAIN fr : fr[k].list = s[k].list /\ k \in DOMAIN s
<1>1. DOMAIN fr = 1..Len(fr) /\ 1..Len(fr) \subseteq DOMAIN s
  BY DEF Gone
<1>2. \A k \in 1..Len(fr) : fr[k].list = s[k].list /\ fr[k].into = s[k].into
  BY DEF Gone
<1>3. \A x : x \in Roots(fr) <=> x = 1 \/ \E k \in DOMAIN fr : fr[k].into # 0 /\ fr[k].list = x
  BY RootIs
<1> QED BY <1>1, <1>2, <1>3

\* A step that goes on in an activation, the lists of the tree or their items carried on.
LEMMA GoneStocked ==
    ASSUME NEW ls, NEW l2, NEW s, NEW fr, NEW tx, NEW L, Stocked(ls, s, tx, L), Carried(ls, L, l2, L),
           DOMAIN l2 = DOMAIN ls, Gone(s, fr), Len(s) \in Nat, DOMAIN s = 1..Len(s),
           \A k \in DOMAIN s : k \in 1..Len(fr) \/ s[k].into = 0
    PROVE  StockedBy(l2, fr, tx)
<1>1. Roots(fr) = Roots(s)
  <2>1. \A x : x \in Roots(fr) <=> x = 1 \/ \E k \in 1..Len(fr) : s[k].into # 0 /\ s[k].list = x
    BY GoneRoots
  <2>2. \A x : x \in Roots(s) <=> x = 1 \/ \E k \in DOMAIN s : s[k].into # 0 /\ s[k].list = x
    BY RootIs
  <2>3. 1..Len(fr) \subseteq DOMAIN s
    BY DEF Gone
  <2>4. \A x : x \in Roots(fr) <=> x \in Roots(s)
    BY <2>1, <2>2, <2>3
  <2> QED BY <2>4
<1>2. \A k \in DOMAIN fr : fr[k].list \in L
  BY GoneRoots DEF Stocked
<1>3. Treed(ls, L, Roots(s)) /\ Counted(ls, L, tx)
  BY DEF Stocked
<1>4. L \subseteq DOMAIN l2 /\ Roots(s) \subseteq L
  BY <1>3 DEF Treed
<1>5. Treed(l2, L, Roots(s)) /\ Counted(l2, L, tx)
  BY <1>3, <1>4, TreedCarried, CountedCarried
<1> QED BY <1>1, <1>2, <1>5 DEF StockedBy, Stocked

LEMMA SameCarried ==
    ASSUME NEW ls, NEW L
    PROVE  Carried(ls, L, ls, L)
  BY BlankedCarried

LEMMA StackIs ==
    ASSUME IInv
    PROVE  Len(stack) \in Nat \ {0} /\ DOMAIN stack = 1..Len(stack) /\ Top = stack[Len(stack)]
  BY AtTop DEF IInv

LEMMA SkipItemStocked ==
    ASSUME IInv, SkipItem, NEW L, Stocked(lists, stack, text, L)
    PROVE  StockedBy(lists', stack', text')
<1>1. lists' = lists /\ text' = text /\ stack' = Advanced(stack)
  BY DEF SkipItem
<1>2. Len(Advanced(stack)) = Len(stack) /\ Gone(stack, Advanced(stack))
  BY Steps
<1>3. StockedBy(lists, Advanced(stack), text)
  BY <1>2, StackIs, SameCarried, GoneStocked
<1> QED BY <1>1, <1>3

LEMMA EndModuleStocked ==
    ASSUME IInv, EndModule, NEW L, Stocked(lists, stack, text, L)
    PROVE  StockedBy(lists', stack', text')
<1>1. lists' = lists /\ text' = text /\ stack' = Advanced(Callers) /\ Top.into = 0 /\ Callers # <<>>
  BY DEF EndModule
<1>2. Len(Advanced(Callers)) = Len(stack) - 1 /\ Gone(stack, Advanced(Callers))
  BY <1>1, Steps
<1>3. \A k \in DOMAIN stack : k \in 1..Len(Advanced(Callers)) \/ stack[k].into = 0
  <2> TAKE k \in DOMAIN stack
  <2>1. k \in 1..Len(stack) - 1 \/ k = Len(stack)
    BY StackIs
  <2> QED BY <1>1, <1>2, <2>1, StackIs
<1>4. StockedBy(lists, Advanced(Callers), text)
  BY <1>2, <1>3, StackIs, SameCarried, GoneStocked
<1> QED BY <1>1, <1>4

LEMMA IncludeKnownStocked ==
    ASSUME IInv, IncludeKnown, NEW L, Stocked(lists, stack, text, L)
    PROVE  StockedBy(lists', stack', text')
<1> DEFINE i  == Top.list
           a  == Top.at
           l2 == [lists EXCEPT ![i] = [lists[i] EXCEPT ![a].kind = "blank"]]
<1>1. /\ i \in DOMAIN lists /\ a \in DOMAIN lists[i] /\ lists[i][a].kind = "include"
      /\ lists' = l2 /\ text' = text /\ stack' = Advanced(stack)
  BY AtTop DEF IInv, IncludeKnown, AtInclude, Blanked
<1>2. lists \in Seq(Seq(ItemSet))
  BY DEF IInv, TypeOK
<1> DEFINE b == [lists[i] EXCEPT ![a].kind = "blank"]
<1>3. b \in Seq(ItemSet) /\ DOMAIN b = DOMAIN lists[i]
      /\ \A p \in DOMAIN lists[i] : b[p] = IF p = a THEN Blank(lists[i][a]) ELSE lists[i][p]
  <2>1. lists[i] \in Seq(ItemSet)
    BY <1>1, <1>2
  <2> HIDE DEF i, a
  <2>2. Len(b) = Len(lists[i]) /\ b \in Seq(ItemSet)
        /\ \A p \in DOMAIN lists[i] : b[p] = IF p = a THEN Blank(lists[i][a]) ELSE lists[i][p]
    BY <1>1, <2>1, BlankedIs
  <2> QED BY <2>2
<1>4. Blank(lists[i][a]).kind = "blank"
  <2>1. lists[i] \in Seq(ItemSet)
    BY <1>1, <1>2
  <2>2. lists[i][a] \in ItemSet
    BY <1>1, <2>1
  <2> QED BY <2>2 DEF Blank, ItemSet
<1>5. l2 = [lists EXCEPT ![i] = b]
  OBVIOUS
<1> HIDE DEF b, i, a, l2
<1>6. DOMAIN l2 = DOMAIN lists /\ l2[i] = b /\ \A j \in DOMAIN lists : j # i => l2[j] = lists[j]
  BY <1>1, <1>5
<1>7. \A j \in DOMAIN lists : DOMAIN l2[j] = DOMAIN lists[j]
  BY <1>3, <1>6
<1>8. ASSUME NEW j \in DOMAIN lists, NEW p \in DOMAIN lists[j]
      PROVE  \/ l2[j][p] = lists[j][p]
             \/ lists[j][p].kind = "include" /\ l2[j][p].kind = "blank"
  <2>1. CASE j = i
    BY <1>1, <1>3, <1>4, <1>6, <2>1
  <2>2. CASE j # i
    BY <1>6, <2>2
  <2> QED BY <2>1, <2>2
<1>9. Carried(lists, L, l2, L)
  BY <1>6, <1>7, <1>8, BlankedCarried
<1>10. Len(Advanced(stack)) = Len(stack) /\ Gone(stack, Advanced(stack))
  BY Steps
<1>11. StockedBy(l2, Advanced(stack), text)
  BY <1>6, <1>9, <1>10, StackIs, GoneStocked
<1> QED BY <1>1, <1>11

LEMMA EndFileAppends ==
    ASSUME IInv, EndFile
    PROVE  /\ Appends(lists, lists', Top.list, Caller.list, Len(lists[Caller.list]), Len(lists[Top.list]))
           /\ text' = text /\ stack' = Advanced(Callers) /\ Len(Advanced(Callers)) = Len(stack) - 1
           /\ Gone(stack, Advanced(Callers))
           /\ Caller = stack[Len(stack) - 1] /\ Len(stack) - 1 \in DOMAIN stack /\ Top.into # 0
<1> DEFINE i  == Caller.list
           a  == Caller.at
           l2 == [lists EXCEPT ![i] = [lists[i] EXCEPT ![a].kind = "blank"] \o lists[Top.list]]
           b  == [lists[i] EXCEPT ![a].kind = "blank"]
<1>1. Callers # <<>> /\ Top.into # 0
  <2>1. Top.into # 0
    BY DEF EndFile
  <2>2. Len(stack) = 1 => Top.into = 0
    BY AtTop DEF IInv, FramesInv
  <2> QED BY <2>1, <2>2, Steps
<1>2. /\ i \in DOMAIN lists /\ a \in DOMAIN lists[i] /\ Top.into = i /\ WaitsInv(lists, Caller, Top)
      /\ Len(stack) - 1 \in 1..Len(stack) /\ Caller = stack[Len(stack) - 1]
      /\ Len(Advanced(Callers)) = Len(stack) - 1 /\ Gone(stack, Advanced(Callers))
  BY <1>1, Steps
<1>3. lists[i][a].kind = "include"
  BY <1>1, <1>2 DEF WaitsInv
<1>4. lists' = l2 /\ text' = text /\ stack' = Advanced(Callers)
  BY <1>2 DEF EndFile, Blanked, FileForms
<1>5. lists \in Seq(Seq(ItemSet)) /\ Top.list \in DOMAIN lists
  BY AtTop DEF IInv, TypeOK
<1>6. Top.list # i
  <2>1. Len(stack) \in DOMAIN stack /\ Len(stack) - 1 \in DOMAIN stack /\ Len(stack) - 1 < Len(stack)
    BY <1>2, StackIs
  <2> QED BY <1>2, <2>1, StackIs, Apart
<1>7. PICK c, top : c = b /\ top = Top.list
  OBVIOUS
<1>8. lists[i] \in Seq(ItemSet) /\ lists[top] \in Seq(ItemSet)
  BY <1>2, <1>5, <1>7
<1>9. /\ c \in Seq(ItemSet) /\ Len(c) = Len(lists[i])
      /\ \A p \in DOMAIN lists[i] : c[p] = IF p = a THEN Blank(lists[i][a]) ELSE lists[i][p]
  <2> HIDE DEF i, a
  <2> QED BY <1>2, <1>7, <1>8, BlankedIs
<1>10. Blank(lists[i][a]).kind = "blank"
  <2>1. lists[i][a] \in ItemSet
    BY <1>2, <1>8
  <2> QED BY <2>1 DEF Blank, ItemSet
<1>11. l2 = [lists EXCEPT ![i] = c \o lists[top]]
  BY <1>7
<1> HIDE DEF i, a, b, l2
<1> DEFINE n == Len(lists[i])
           m == Len(lists[top])
<1>12. /\ n \in Nat /\ m \in Nat /\ DOMAIN lists[i] = 1..n /\ DOMAIN lists[top] = 1..m
       /\ DOMAIN (c \o lists[top]) = 1..n + m
       /\ \A p \in 1..n : (c \o lists[top])[p] = c[p]
       /\ \A p \in 1..m : (c \o lists[top])[n + p] = lists[top][p]
  <2>1. n \in Nat /\ m \in Nat /\ DOMAIN lists[i] = 1..n /\ DOMAIN lists[top] = 1..m
    BY <1>8
  <2>2. /\ c \o lists[top] \in Seq(ItemSet) /\ Len(c \o lists[top]) = Len(c) + Len(lists[top])
        /\ \A p \in 1..Len(c) : (c \o lists[top])[p] = c[p]
        /\ \A p \in 1..Len(lists[top]) : (c \o lists[top])[Len(c) + p] = lists[top][p]
    <3>1. PICK r : r = lists[top]
      OBVIOUS
    <3>2. r \in Seq(ItemSet) /\ c \in Seq(ItemSet)
      BY <1>8, <1>9, <3>1
    <3>3. /\ c \o r \in Seq(ItemSet) /\ Len(c \o r) = Len(c) + Len(r)
          /\ \A p \in 1..Len(c) : (c \o r)[p] = c[p]
          /\ \A p \in 1..Len(r) : (c \o r)[Len(c) + p] = r[p]
      BY <3>2, Concatenated
    <3> QED BY <3>1, <3>3
  <2>3. PICK w : w = c \o lists[top]
    OBVIOUS
  <2>4. w \in Seq(ItemSet) /\ Len(w) = n + m
    BY <1>9, <2>2, <2>3
  <2>5. DOMAIN w = 1..n + m
    BY <2>1, <2>4
  <2> QED BY <1>9, <2>1, <2>2, <2>3, <2>5
<1>13. DOMAIN l2 = DOMAIN lists /\ l2[i] = c \o lists[top] /\ \A j \in DOMAIN lists \ {i} : l2[j] = lists[j]
  BY <1>2, <1>11
<1>14. \A p \in 1..n : \/ l2[i][p] = lists[i][p]
                       \/ lists[i][p].kind = "include" /\ l2[i][p].kind = "blank"
  <2> TAKE p \in 1..n
  <2>1. l2[i][p] = c[p] /\ p \in DOMAIN lists[i]
    BY <1>12, <1>13
  <2>2. c[p] = IF p = a THEN Blank(lists[i][a]) ELSE lists[i][p]
    BY <1>9, <2>1
  <2> QED BY <1>3, <1>10, <2>1, <2>2
<1>15. top \in DOMAIN lists /\ top # i
  BY <1>5, <1>6, <1>7
<1> HIDE DEF n, m
<1>16. Appends(lists, l2, top, i, n, m)
  BY <1>2, <1>12, <1>13, <1>14, <1>15 DEF Appends
<1>17. Len(stack) - 1 \in DOMAIN stack
  BY <1>2, StackIs
<1> QED BY <1>1, <1>2, <1>4, <1>7, <1>16, <1>17 DEF i, n, m

LEMMA EndFileStocked ==
    ASSUME IInv, EndFile, NEW L, Stocked(lists, stack, text, L)
    PROVE  StockedBy(lists', stack', text')
<1>1. PICK l2, fr, top, into, n, m :
          /\ l2 = lists' /\ fr = Advanced(Callers) /\ top = Top.list /\ into = Caller.list
          /\ n = Len(lists[Caller.list]) /\ m = Len(lists[Top.list])
  OBVIOUS
<1>2. /\ Appends(lists, l2, top, into, n, m) /\ text' = text /\ stack' = fr /\ Len(fr) = Len(stack) - 1
      /\ Gone(stack, fr) /\ Caller = stack[Len(stack) - 1] /\ Len(stack) - 1 \in DOMAIN stack /\ Top.into # 0
  BY <1>1, EndFileAppends
<1>3. Len(stack) \in DOMAIN stack /\ stack[Len(stack)].list = top /\ stack[Len(stack)].into # 0
  BY <1>1, <1>2, StackIs
<1>4. top \in L /\ into \in L
  BY <1>1, <1>2, <1>3 DEF Stocked
<1>5. Carried(lists, L, l2, L \ {top})
  BY <1>2, <1>4, AppendsCarried
<1>6. \A k \in 1..Len(stack) - 1 : k \in DOMAIN stack /\ stack[k].list # top
  <2> TAKE k \in 1..Len(stack) - 1
  <2>1. k \in DOMAIN stack /\ k < Len(stack)
    BY StackIs
  <2> QED BY <1>3, <2>1, Apart
<1>7. DOMAIN stack = 1..Len(stack) /\ Len(stack) \in Nat
  BY StackIs
<1>8. top # 1
  <2>1. 1 \in 1..Len(stack) - 1
    BY <1>2, <1>7
  <2>2. stack[1].list = 1
    BY DEF IInv, FramesInv
  <2> QED BY <1>6, <2>1, <2>2
<1>9. Roots(fr) = Roots(stack) \ {top} /\ top \in Roots(stack)
  <2>1. \A x : x \in Roots(fr) <=> x = 1 \/ \E k \in 1..Len(fr) : stack[k].into # 0 /\ stack[k].list = x
    BY <1>2, <1>7, GoneRoots
  <2>2. \A x : x \in Roots(stack) <=> x = 1 \/ \E k \in DOMAIN stack : stack[k].into # 0 /\ stack[k].list = x
    BY RootIs
  <2>3. top \in Roots(stack)
    BY <1>3, <2>2
  <2>4. \A k \in DOMAIN stack : k \in 1..Len(stack) - 1 \/ stack[k].list = top
    <3> TAKE k \in DOMAIN stack
    <3>1. k \in 1..Len(stack) - 1 \/ k = Len(stack)
      BY <1>7
    <3> QED BY <1>3, <3>1
  <2>5. \A x : x \in Roots(fr) <=> x \in Roots(stack) /\ x # top
    BY <1>2, <1>6, <1>8, <2>1, <2>2, <2>4
  <2> QED BY <2>3, <2>5
<1>10. \A k \in DOMAIN fr : fr[k].list \in L \ {top}
  <2> TAKE k \in DOMAIN fr
  <2>1. fr[k].list = stack[k].list /\ k \in DOMAIN stack /\ k \in 1..Len(stack) - 1
    BY <1>2, <1>7, GoneRoots DEF Gone
  <2> QED BY <1>6, <2>1 DEF Stocked
<1>11. Treed(lists, L, Roots(stack)) /\ Counted(lists, L, text)
  BY DEF Stocked
<1> DEFINE M == L \ {top}
           Q == Roots(stack) \ {top}
<1>12. M \subseteq DOMAIN l2 /\ Q \subseteq M /\ M \ Q = L \ Roots(stack)
  BY <1>2, <1>9, <1>11 DEF Treed, Appends
<1> HIDE DEF M, Q
<1>13. Treed(l2, M, Q) /\ Counted(l2, M, text)
  <2>1. Carried(lists, L, l2, M)
    BY <1>5 DEF M
  <2> QED BY <1>11, <1>12, <2>1, TreedCarried, CountedCarried
<1>14. Stocked(l2, fr, text, M)
  BY <1>9, <1>10, <1>13 DEF Stocked, M, Q
<1>15. StockedBy(l2, fr, text)
  BY <1>14 DEF StockedBy
<1> QED BY <1>1, <1>2, <1>15

\* A frame is put on a stack.
LEMMA OnTop ==
    ASSUME NEW s, NEW S, s \in Seq(S), NEW fr
    PROVE  /\ DOMAIN Append(s, fr) = 1..Len(s) + 1 /\ Len(s) \in Nat /\ DOMAIN s = 1..Len(s)
           /\ \A k \in 1..Len(s) : Append(s, fr)[k] = s[k]
           /\ Append(s, fr)[Len(s) + 1] = fr
  OBVIOUS

Upper(s, fr) ==
    /\ \A x : x \in Roots(Append(s, fr)) <=> x \in Roots(s) \/ (fr.into # 0 /\ x = fr.list)
    /\ \A k \in DOMAIN Append(s, fr) : \/ Append(s, fr)[k].list = fr.list
                                       \/ \E j \in DOMAIN s : Append(s, fr)[k].list = s[j].list

LEMMA OnTopRoots ==
    ASSUME NEW s, NEW S, s \in Seq(S), NEW fr
    PROVE  Upper(s, fr)
<1>1. PICK s2, m : s2 = Append(s, fr) /\ m = Len(s) + 1
  OBVIOUS
<1>2. DOMAIN s2 = 1..m /\ Len(s) \in Nat /\ DOMAIN s = 1..Len(s) /\ s2[m] = fr
      /\ \A k \in 1..Len(s) : s2[k] = s[k]
  BY <1>1, OnTop
<1>3. \A k \in 1..m : k \in 1..Len(s) \/ k = m
  BY <1>1, <1>2
<1>4. 1..Len(s) \subseteq 1..m /\ m \in 1..m
  BY <1>1, <1>2
<1>5. \A x : x \in Roots(s2) <=> x = 1 \/ \E k \in DOMAIN s2 : s2[k].into # 0 /\ s2[k].list = x
  BY RootIs
<1>6. \A x : x \in Roots(s) <=> x = 1 \/ \E k \in DOMAIN s : s[k].into # 0 /\ s[k].list = x
  BY RootIs
<1>7. \A x : x \in Roots(s2) <=> x \in Roots(s) \/ (fr.into # 0 /\ x = fr.list)
  BY <1>2, <1>3, <1>4, <1>5, <1>6
<1>8. \A k \in DOMAIN s2 : s2[k].list = fr.list \/ \E j \in DOMAIN s : s2[k].list = s[j].list
  BY <1>2, <1>3
<1> QED BY <1>1, <1>7, <1>8 DEF Upper

LEMMA EnterModuleStocked ==
    ASSUME IInv, EnterModule, NEW L, Stocked(lists, stack, text, L)
    PROVE  StockedBy(lists', stack', text')
<1>1. PICK fr : fr = Frame(Item.list, Top.dir, Top.file, 0)
  OBVIOUS
<1>2. /\ Item.kind = "module" /\ stack' = Append(stack, fr) /\ fr.into = 0 /\ fr.list = Item.list
      /\ text' = text /\ lists' = lists
  BY <1>1 DEF EnterModule, ModuleDir, Frame
<1>3. /\ Top.list \in DOMAIN lists /\ Top.at \in DOMAIN lists[Top.list] /\ Item = lists[Top.list][Top.at]
      /\ Top = stack[Len(stack)] /\ Len(stack) \in DOMAIN stack /\ stack \in Seq(FrameSet)
  BY AtTop DEF IInv, EnterModule, TypeOK
<1>4. Top.list \in L
  BY <1>3 DEF Stocked
<1>5. Item.list \in L
  <2>1. PICK i, j : i = Top.list /\ j = Top.at
    OBVIOUS
  <2>2. i \in L \cap DOMAIN lists /\ j \in DOMAIN lists[i] /\ lists[i][j].kind = "module" /\ Item = lists[i][j]
    BY <1>2, <1>3, <1>4, <2>1
  <2>3. <<i, j>> \in Live(lists, L, "module") /\ ItemAt(lists, <<i, j>>) = Item
    BY <2>2, LiveIs
  <2>4. \A p \in Live(lists, L, "module") : ItemAt(lists, p).list \in L
    BY DEF Stocked, Treed
  <2> QED BY <2>3, <2>4
<1>6. Upper(stack, fr)
  BY <1>3, OnTopRoots
<1>7. Roots(Append(stack, fr)) = Roots(stack)
  <2>1. \A x : x \in Roots(Append(stack, fr)) <=> x \in Roots(stack)
    BY <1>2, <1>6 DEF Upper
  <2> QED BY <2>1
<1>8. \A k \in DOMAIN Append(stack, fr) : Append(stack, fr)[k].list \in L
  BY <1>2, <1>5, <1>6 DEF Upper, Stocked
<1>9. Stocked(lists, Append(stack, fr), text, L)
  BY <1>7, <1>8 DEF Stocked
<1>10. StockedBy(lists, Append(stack, fr), text)
  BY <1>9 DEF StockedBy
<1> QED BY <1>2, <1>10

LEMMA IncludeNewStocked ==
    ASSUME IInv, IncludeNew, NEW L, Stocked(lists, stack, text, L)
    PROVE  StockedBy(lists', stack', text')
<1>1. PICK f \in Files \ included : AtInclude(f)
          /\ (\E t \in Contents(f) :
                /\ text' = [g \in DOMAIN text \cup {f} |-> IF g = f THEN t ELSE text[g]]
                /\ lists' = lists \o Parsed(f, t, Len(lists)))
          /\ stack' = Append(stack, Frame(Len(lists) + 1, DirOf[f], f, Top.list))
  BY DEF IncludeNew, Target
<1>2. PICK t \in Contents(f) :
          /\ text' = [g \in DOMAIN text \cup {f} |-> IF g = f THEN t ELSE text[g]]
          /\ lists' = lists \o Parsed(f, t, Len(lists))
  BY <1>1
<1>3. f \in Files /\ f # Input /\ f \notin DOMAIN text
  BY FilesAssumption DEF IInv, TypeOK
<1>4. f \in Files \cup {Input} /\ t \in Texts[IF f = Input THEN Main ELSE f]
  <2>1. text[Input] \in Texts[Main]
    BY DEF IInv, TypeOK
  <2> QED BY <1>3, <2>1 DEF Contents
<1>5. PICK n, P, l2, t2, fr : /\ n = Len(lists) /\ P = Parsed(f, t, Len(lists))
                              /\ l2 = lists \o Parsed(f, t, Len(lists)) /\ t2 = text'
                              /\ fr = Frame(Len(lists) + 1, DirOf[f], f, Top.list)
  OBVIOUS
<1>6. lists \in Seq(Seq(ItemSet)) /\ n \in Nat /\ DOMAIN lists = 1..n /\ stack \in Seq(FrameSet)
  BY <1>5 DEF IInv, TypeOK
<1>7. IsParsed(f, t, n, P)
  BY <1>4, <1>5, <1>6, ParsedIs
<1>8. NewLists(lists, l2, f, t, P)
  <2>1. NewLists(lists, lists \o Parsed(f, t, Len(lists)), f, t, Parsed(f, t, Len(lists)))
    BY <1>4, <1>6, ChangedParsed
  <2> QED BY <1>5, <2>1
<1>9. Copied(l2, n, f, t)
  <2>1. \A i \in DOMAIN t : n + i \in DOMAIN l2 /\ l2[n + i] = P[i]
    BY <1>5, <1>8 DEF NewLists
  <2> QED BY <1>4, <1>6, <1>7, <2>1, CopyOf
<1>10. Beside(lists, L, l2, Lifted(t, n))
  <2>1. L \subseteq DOMAIN lists
    BY DEF Stocked, Treed
  <2>2. DOMAIN lists \subseteq DOMAIN l2
    <3>1. l2 \in Seq(Seq(ItemSet)) /\ Len(l2) = n + Len(t) /\ Len(t) \in Nat
      BY <1>5, <1>8 DEF NewLists
    <3>2. DOMAIN l2 = 1..n + Len(t)
      BY <3>1
    <3> QED BY <1>6, <3>1, <3>2
  <2>3. Lifted(t, n) \cap DOMAIN lists = {}
    BY <1>5, <1>8 DEF NewLists, Lifted
  <2> QED BY <1>8, <2>1, <2>2, <2>3 DEF Beside, NewLists
<1>11. /\ Treed(l2, Lifted(t, n), {n + 1}) /\ Matched(FormsIn(t), Live(l2, Lifted(t, n), "form"))
       /\ \A p \in Live(l2, Lifted(t, n), "form") : ItemAt(l2, p).home = f
  BY <1>9, CopyTreed
<1>12. Treed(lists, L, Roots(stack)) /\ Counted(lists, L, text)
  BY DEF Stocked
<1> DEFINE M == L \cup Lifted(t, n)
<1>13. Treed(l2, M, Roots(stack) \cup {n + 1})
  BY <1>10, <1>11, <1>12, BesideTreed
<1>14. Counted(l2, M, t2)
  <2>1. DOMAIN t2 = DOMAIN text \cup {f} /\ t2[f] = t /\ \A g \in DOMAIN text : t2[g] = text[g]
    BY <1>2, <1>3, <1>5
  <2> QED BY <1>3, <1>10, <1>11, <1>12, <2>1, BesideCounted
<1>15. fr.list = n + 1 /\ fr.into = Top.list /\ Top.list # 0
  <2>1. Top.list \in DOMAIN lists
    BY AtTop DEF IInv
  <2> QED BY <1>5, <1>6, <2>1 DEF Frame
<1>16. Upper(stack, fr)
  BY <1>6, OnTopRoots
<1>17. Roots(Append(stack, fr)) = Roots(stack) \cup {n + 1}
  <2>1. \A x : x \in Roots(Append(stack, fr)) <=> x \in Roots(stack) \/ x = n + 1
    BY <1>15, <1>16 DEF Upper
  <2> QED BY <2>1
<1>18. \A k \in DOMAIN Append(stack, fr) : Append(stack, fr)[k].list \in M
  <2>1. n + 1 \in M
    BY <1>13 DEF Treed
  <2>2. \A j \in DOMAIN stack : stack[j].list \in M
    BY DEF Stocked
  <2> HIDE DEF M
  <2> QED BY <1>15, <1>16, <2>1, <2>2 DEF Upper
<1> HIDE DEF M
<1>19. Stocked(l2, Append(stack, fr), t2, M)
  BY <1>13, <1>14, <1>17, <1>18 DEF Stocked
<1>20. StockedBy(l2, Append(stack, fr), t2)
  BY <1>19 DEF StockedBy
<1>21. lists' = l2 /\ stack' = Append(stack, fr) /\ text' = t2
  BY <1>1, <1>2, <1>5
<1> QED BY <1>20, <1>21

LEMMA StockStep ==
    ASSUME IInv, StockInv, [Next]_vars
    PROVE  StockInv'
<1> USE DEF StockInv
<1>1. PICK L : Stocked(lists, stack, text, L)
  OBVIOUS
<1> SUFFICES /\ status' = "done" => Len(stack') = 1
             /\ StockedBy(lists', stack', text')
  BY DEF StockedBy
<1>2. CASE SkipItem
  BY <1>1, <1>2, SkipItemStocked DEF SkipItem
<1>3. CASE EnterModule
  BY <1>1, <1>3, EnterModuleStocked DEF EnterModule
<1>4. CASE IncludeMissing
  BY <1>1, <1>4 DEF IncludeMissing, StockedBy
<1>5. CASE IncludeKnown
  BY <1>1, <1>5, IncludeKnownStocked DEF IncludeKnown, AtInclude
<1>6. CASE IncludeNew
  BY <1>1, <1>6, IncludeNewStocked DEF IncludeNew, AtInclude
<1>7. CASE EndFile
  BY <1>1, <1>7, EndFileStocked DEF EndFile
<1>8. CASE EndModule
  BY <1>1, <1>8, EndModuleStocked DEF EndModule
<1>9. CASE EndMain
  BY <1>1, <1>9, Steps DEF EndMain, StockedBy
<1>10. CASE UNCHANGED vars
  BY <1>1, <1>10 DEF vars, StockedBy
<1> QED BY <1>2, <1>3, <1>4, <1>5, <1>6, <1>7, <1>8, <1>9, <1>10 DEF Next, Finished

\* Once the walk is over, the tree is made of the lists of L.
LEMMA TreeIs ==
    ASSUME IInv, NEW L, Treed(lists, L, {1})
    PROVE  Below(1) = L
<1> DEFINE modules == Where(lists, "module")
           Closed(S) == 1 \in S /\ \A p \in modules : p[1] \in S => lists[p[1]][p[2]].list \in S
<1>1. Below(1) = {i \in DOMAIN lists : \A S \in {S \in SUBSET DOMAIN lists : Closed(S)} : i \in S}
  BY DEF Below
<1>2. L \subseteq DOMAIN lists /\ 1 \in L
  BY DEF Treed
<1>3. Closed(L)
  <2> SUFFICES ASSUME NEW p \in modules, p[1] \in L PROVE lists[p[1]][p[2]].list \in L
    BY <1>2
  <2>1. p \in Live(lists, L, "module")
    BY DEF Live
  <2> QED BY <2>1 DEF Treed, ItemAt
<1>4. ASSUME NEW S \in SUBSET DOMAIN lists, Closed(S) PROVE L \subseteq S
  <2> DEFINE T == L \ S
  <2> SUFFICES ASSUME T # {} PROVE FALSE
    OBVIOUS
  <2>1. lists \in Seq(Seq(ItemSet))
    BY DEF IInv, TypeOK
  <2>2. T \in SUBSET Nat
    BY <1>2, <2>1
  <2>3. PICK i \in T : \A j \in T : i <= j
    BY <2>2, Least
  <2>4. i \in L /\ i \notin S /\ i # 1
    BY <1>4
  <2>5. PICK p \in Live(lists, L, "module") : ItemAt(lists, p).list = i
    BY <2>4 DEF Treed
  <2>6. p[1] \in DOMAIN lists /\ p[2] \in DOMAIN lists[p[1]] /\ p[1] \in L /\ ItemAt(lists, p).kind = "module"
    BY LiveIs
  <2>7. PICK a, b : a = p[1] /\ b = p[2]
    OBVIOUS
  <2>8. a \in DOMAIN lists /\ b \in DOMAIN lists[a] /\ lists[a][b].kind = "module" /\ lists[a][b].list = i
    BY <2>5, <2>6, <2>7 DEF ItemAt
  <2>9. i \in (a + 1)..Len(lists)
    BY <2>8 DEF IInv, TreeInv
  <2>10. a \in Nat /\ i \in Nat /\ a < i
    BY <2>1, <2>2, <2>8, <2>9
  <2>11. a \in S
    BY <2>3, <2>6, <2>7, <2>10
  <2>12. p \in modules
    BY DEF Live
  <2> QED BY <1>4, <2>4, <2>7, <2>8, <2>11, <2>12
<1> HIDE DEF Closed
<1> QED BY <1>1, <1>2, <1>3, <1>4

LEMMA OnceDone ==
    ASSUME IInv, StockInv
    PROVE  FormsOnce
<1> SUFFICES ASSUME status = "done" PROVE FormsOnce
  BY DEF FormsOnce
<1>1. PICK L : Stocked(lists, stack, text, L)
  BY DEF StockInv
<1>2. Roots(stack) = {1}
  <2>1. DOMAIN stack = {1}
    BY StackIs DEF StockInv
  <2>2. stack[1].into = 0
    BY DEF IInv, FramesInv
  <2>3. \A x : x \in Roots(stack) <=> x = 1
    BY <2>1, <2>2, RootIs
  <2> QED BY <2>3
<1>3. Treed(lists, L, {1}) /\ Counted(lists, L, text)
  BY <1>1, <1>2 DEF Stocked
<1>4. Below(1) = L
  BY <1>3, TreeIs
<1>5. lists \in Seq(Seq(ItemSet)) /\ DOMAIN text \subseteq Files \cup {Input}
      /\ \A f \in DOMAIN text : text[f] \in Texts[IF f = Input THEN Main ELSE f]
  BY DEF IInv, TypeOK
<1>6. \A kind : {p \in Where(lists, kind) : p[1] \in L} = Live(lists, L, kind)
  BY DEF Live
<1>7. ASSUME NEW f \in DOMAIN text
      PROVE  Cardinality({p \in Live(lists, L, "form") : lists[p[1]][p[2]].home = f}) = Cardinality(FormsIn(text[f]))
  <2>1. Matched(FormsIn(text[f]), Held(lists, L, f))
    BY <1>3 DEF Counted
  <2>2. IsFiniteSet(FormsIn(text[f]))
    <3>1. PICK t : t = text[f]
      OBVIOUS
    <3>2. IsFiniteSet(Positions(t))
      <4>1. f \in Files \cup {Input} /\ t \in Texts[IF f = Input THEN Main ELSE f]
        BY <1>5, <3>1
      <4> QED BY <4>1, TextParents
    <3>3. FormsIn(t) \in SUBSET Positions(t)
      BY DEF FormsIn, Where
    <3> QED BY <3>1, <3>2, <3>3, FS_Subset
  <2>3. Cardinality(Held(lists, L, f)) = Cardinality(FormsIn(text[f]))
    BY <2>1, <2>2, MatchedCount
  <2> QED BY <2>3 DEF Held, ItemAt
<1>8. Cardinality(Live(lists, L, "module")) = Cardinality(L) - 1
  <2> DEFINE S == Live(lists, L, "module")
             T == L \ {1}
             b == [p \in S |-> ItemAt(lists, p).list]
  <2>1. IsFiniteSet(S)
    <3>1. IsFiniteSet(Positions(lists))
      BY <1>5, PositionsFinite
    <3>2. S \in SUBSET Positions(lists)
      BY DEF Live, Where
    <3> HIDE DEF S
    <3> QED BY <3>1, <3>2, FS_Subset
  <2>2. /\ \A p \in S : ItemAt(lists, p).list \in T
        /\ \A p, q \in S : ItemAt(lists, p).list = ItemAt(lists, q).list => p = q
        /\ \A l \in T : \E p \in S : ItemAt(lists, p).list = l
        /\ 1 \in L /\ L \subseteq DOMAIN lists
    BY <1>3 DEF Treed
  <2> HIDE DEF S, T
  <2>3. b \in [S -> T] /\ \A p \in S : b[p] = ItemAt(lists, p).list
    BY <2>2
  <2> HIDE DEF b
  <2>4. Matched(S, T)
    BY <2>2, <2>3 DEF Matched, Matches
  <2>5. IsFiniteSet(L)
    <3>1. DOMAIN lists = 1..Len(lists) /\ Len(lists) \in Int /\ 1 \in Int
      BY <1>5
    <3>2. IsFiniteSet(DOMAIN lists)
      BY <3>1, FS_Interval
    <3> QED BY <2>2, <3>2, FS_Subset
  <2>6. Cardinality(T) = Cardinality(L) - 1
    BY <2>2, <2>5, FS_RemoveElement DEF T
  <2> QED BY <2>1, <2>4, <2>6, MatchedCount DEF S
<1> QED BY <1>4, <1>6, <1>7, <1>8 DEF FormsOnce

LEMMA Stocks == Spec => []StockInv
<1>1. Init => StockInv
  BY StockInit
<1>2. IInv /\ StockInv /\ [Next]_vars => StockInv'
  BY StockStep
<1> QED BY <1>1, <1>2, Inductive, PTL DEF Spec

\* Whatever the files contain and however they include each other, a walk that is over
\* leaves a tree that holds each form of the input and of every included file once, and
\* each module at one place (merge_file_into, fs.c:212-225).
THEOREM MergesOnce == Spec => []FormsOnce
<1>1. IInv /\ StockInv => FormsOnce
  BY OnceDone
<1> QED BY <1>1, Inductive, Stocks, PTL

=============================================================================
