------------------------- MODULE IncludeExpandProofs -------------------------
(***************************************************************************)
(* Proofs about IncludeExpand, for every set of names, paths and texts: no *)
(* file is expanded inside itself under one path, the walk implements the  *)
(* closure, and the new program has what the files give, each path once.   *)
(***************************************************************************)
EXTENDS IncludeExpand, FiniteSetTheorems, TLAPS

-----------------------------------------------------------------------------
(* The inductive invariant.                                                *)

\* Forms of a file, under one path, whose items are walked.
Entered(p)  == {i \in DOMAIN FormsOf(p) : FormsOf(p)[i].module \/ p = Root}
ItemsOf(p, i) == FormsOf(p)[i].items

\* An item the walk is through with.
Leads(x) == x.kind = "include" /\ Printable(x.path)
Dealt(v, x, p) == x.kind # "error" /\ (Leads(x) => ResolvePath(x.path, Dir(p)) \in v)

Behind(fr, i, j) == i < fr.form \/ (i = fr.form /\ j < fr.at)
BehindInv ==
    \A k \in DOMAIN nest : \A i \in Entered(nest[k].path) : \A j \in DOMAIN ItemsOf(nest[k].path, i) :
        Behind(nest[k], i, j) => Dealt(visited, ItemsOf(nest[k].path, i)[j], nest[k].path)

\* A file that was followed is being walked or has been walked to its end.
OnStack(p) == \E k \in DOMAIN nest : nest[k].path = p
WalkedInv ==
    \A p \in Read : OnStack(p) \/ \A i \in Entered(p) : \A j \in DOMAIN ItemsOf(p, i) : Dealt(visited, ItemsOf(p, i)[j], p)

\* What an activation is.
Frames == [path : Seq(Names), file : Sources, form : Nat \ {0}, at : Nat \ {0}, dir : Seq(Names)]
IsFrame(fr) ==
    /\ fr.path \in Read /\ fr.dir = Dir(fr.path) /\ fr.file = File[fr.path]
    /\ fr.form \in 1..Len(FormsOf(fr.path)) + 1

\* An activation waits at the include of the next one.
Waits(fr, next) ==
    /\ fr.form \in Entered(fr.path) /\ fr.at \in DOMAIN ItemsOf(fr.path, fr.form)
    /\ Leads(ItemsOf(fr.path, fr.form)[fr.at])
    /\ ResolvePath(ItemsOf(fr.path, fr.form)[fr.at].path, fr.dir) = next.path

StackInv ==
    /\ nest \in Seq(Frames)
    /\ \A k \in DOMAIN nest : IsFrame(nest[k])
    /\ \A k \in DOMAIN nest : nest[k].path = Root <=> k = 1
    /\ \A k \in 1..Len(nest) - 1 : Waits(nest[k], nest[k + 1])
    /\ stage = "starting" => nest = <<>> /\ visited = {} /\ out = <<>>
    /\ stage \in {"walking", "done"} => nest # <<>>

Copies == [what : Items \cup Forms, path : Seq(Names), file : Sources]
VarsInv ==
    /\ source \in SourceTexts
    /\ visited \subseteq Seq(Names)
    /\ stage \in {"starting", "walking", "done", "failed"}
    /\ out \in Seq(Copies) /\ \A i \in DOMAIN out : out[i].path \in Read

IInv == VarsInv /\ StackInv /\ NoPathTwice /\ BehindInv /\ WalkedInv
-----------------------------------------------------------------------------
(* Lemmas about paths and files.                                           *)

LEMMA FrontIs ==
    ASSUME NEW S, NEW s \in Seq(S)
    PROVE  /\ Front(s) \in Seq(S)
           /\ s # <<>> =>
                /\ Len(Front(s)) = Len(s) - 1 /\ \A i \in 1..Len(s) - 1 : Front(s)[i] = s[i]
                /\ Last(s) = s[Len(s)] /\ Last(s) \in S
<1>1. CASE s = <<>>
  <2>1. Len(s) = 0
    BY <1>1
  <2>2. Front(s) = SubSeq(s, 1, Len(s) - 1)
    BY DEF Front
  <2>3. Front(s) = <<>>
    BY <2>1, <2>2
  <2> QED
    BY <1>1, <2>3
<1>2. CASE s # <<>>
  <2> DEFINE n == Len(s)
  <2>1. n \in Nat \ {0} /\ DOMAIN s = 1..n /\ n \in 1..n
    BY <1>2
  <2>2. s[n] \in S
    BY <2>1
  <2>3. n - 1 \in Nat /\ n - 1 <= n
    BY <2>1
  <2> DEFINE m == n - 1
  <2>4. m \in Nat /\ m <= Len(s)
    BY <2>3
  <2> HIDE DEF m
  <2>5. /\ SubSeq(s, 1, m) \in Seq(S) /\ Len(SubSeq(s, 1, m)) = m
        /\ \A i \in 1..m : SubSeq(s, 1, m)[i] = s[i]
    BY <2>4
  <2> QED
    BY <2>2, <2>5 DEF m, Front, Last
<1> QED
  BY <1>1, <1>2

LEMMA DirIs ==
    ASSUME NEW p \in Seq(Names)
    PROVE  Dir(p) \in Seq(Names)
<1>1. Front(p) \in Seq(Names)
  BY FrontIs
<1> QED
  BY <1>1 DEF Dir

LEMMA ResolveIs ==
    ASSUME NEW inc \in Seq(Names), Printable(inc), NEW dir \in Seq(Names)
    PROVE  ResolvePath(inc, dir) \in Seq(Names) \ {NotAPath}
<1>1. Len(inc) \in Nat /\ Len(inc) > 1
  BY DEF Printable
<1>2. Tail(inc) \in Seq(Names) /\ Len(Tail(inc)) = Len(inc) - 1
  BY <1>1
<1>3. \A s \in Seq(Names) : Len(s) > 0 => Len(dir \o s) > 0 /\ dir \o s \in Seq(Names)
  OBVIOUS
<1>4. ResolvePath(inc, dir) \in Seq(Names) /\ Len(ResolvePath(inc, dir)) > 0
  <2>1. CASE inc[1] \in Known \/ dir = <<>>
    BY <1>1, <2>1 DEF ResolvePath
  <2>2. CASE ~ (inc[1] \in Known \/ dir = <<>>)
    <3> DEFINE s == IF inc[1] = "." THEN Tail(inc) ELSE inc
    <3>1. s \in Seq(Names) /\ Len(s) > 0
      BY <1>1, <1>2
    <3>2. ResolvePath(inc, dir) = dir \o s
      BY <2>2 DEF ResolvePath
    <3> HIDE DEF s
    <3> QED
      BY <1>3, <3>1, <3>2
  <2> QED
    BY <2>1, <2>2
<1> QED
  BY <1>4 DEF NotAPath

LEMMA FileIs ==
    ASSUME NEW p \in Seq(Names), File[p] # Missing
    PROVE  File[p] \in Sources \cap DOMAIN source
<1>1. \/ Found(p) /\ File[p] = Opened(p)
      \/ Found(<<"bootstrap">> \o p) /\ File[p] = Opened(<<"bootstrap">> \o p)
      \/ Found(<<"stdlib">> \o p) /\ File[p] = Opened(<<"stdlib">> \o p)
  BY DEF File
<1>2. ASSUME NEW q, Found(q)
      PROVE  Opened(q) \in Sources \cap DOMAIN source
  <2>1. Opened(q) # Missing /\ Opened(q) \in DOMAIN source
    BY <1>2 DEF Found, Readable
  <2>2. Opened(q) \in Range(PathDisk)
    BY <2>1 DEF Opened, Range
  <2> QED
    BY <2>1, <2>2, ExpandAssumption
<1> QED
  BY <1>1, <1>2

LEMMA TextOf ==
    ASSUME VarsInv, NEW p \in Seq(Names), File[p] # Missing
    PROVE  /\ File[p] \in Sources /\ FormsOf(p) \in Seq(Forms)
           /\ Len(FormsOf(p)) \in Nat /\ DOMAIN FormsOf(p) = 1..Len(FormsOf(p))
           /\ \A i \in DOMAIN FormsOf(p) : i \in Nat \ {0} /\ i \in DOMAIN FormsOf(p) /\ ItemsOf(p, i) \in Seq(Items)
<1>1. p \in Seq(Names) /\ File[p] # Missing
  OBVIOUS
<1>2. File[p] \in Sources /\ File[p] \in DOMAIN source
  BY <1>1, FileIs
<1>3. source[File[p]] \in Seq(Forms)
  <2>1. source \in [DOMAIN source -> Seq(Forms)]
    BY ExpandAssumption DEF VarsInv
  <2> QED
    BY <1>2, <2>1
<1> DEFINE u == source[File[p]]
           t == FormsOf(p)
<1>4. t \in Seq(Forms)
  <2>1. t = IF p # Root THEN u ELSE IF u = <<>> THEN <<Headed>> ELSE <<u[1]>>
    BY DEF FormsOf
  <2> HIDE DEF u, t
  <2>2. <<>> \in Seq(Names)
    OBVIOUS
  <2>3. [kind |-> "other", path |-> <<>>] \in Items
    BY <2>2 DEF Items, ItemKinds
  <2>4. Headed \in Forms
    BY <2>3 DEF Headed, Forms
  <2>5. u \in Seq(Forms)
    BY <1>3 DEF u
  <2>6. u # <<>> => u[1] \in Forms
    BY <2>5
  <2> QED
    BY <2>1, <2>4, <2>5, <2>6
<1> HIDE DEF u, t
<1>5. Len(t) \in Nat /\ DOMAIN t = 1..Len(t) /\ \A i \in DOMAIN t : t[i] \in Forms
  BY <1>4
<1>6. \A i \in DOMAIN t : t[i].items \in Seq(Items)
  BY <1>5 DEF Forms
<1> QED
  BY <1>1, <1>2, <1>4, <1>5, <1>6 DEF t, ItemsOf

LEMMA TextIs ==
    ASSUME VarsInv, NEW p \in Read
    PROVE  /\ p \in Seq(Names) /\ File[p] \in Sources /\ FormsOf(p) \in Seq(Forms)
           /\ Len(FormsOf(p)) \in Nat /\ DOMAIN FormsOf(p) = 1..Len(FormsOf(p))
           /\ \A i \in DOMAIN FormsOf(p) : i \in Nat \ {0} /\ i \in DOMAIN FormsOf(p) /\ ItemsOf(p, i) \in Seq(Items)
<1>1. p \in Seq(Names) /\ File[p] # Missing
  BY DEF Read, VarsInv
<1> QED
  BY <1>1, TextOf
-----------------------------------------------------------------------------
(* The top of the stack.                                                   *)

\* What an activation stands for.
LEMMA FrameIs ==
    ASSUME IInv, NEW k \in DOMAIN nest
    PROVE  /\ nest \in Seq(Frames) /\ Len(nest) \in Nat /\ DOMAIN nest = 1..Len(nest) /\ k \in Nat \ {0}
           /\ nest[k] \in Frames /\ IsFrame(nest[k])
           /\ nest[k].path \in Read /\ nest[k].file = File[nest[k].path]
           /\ nest[k].form \in Nat \ {0} /\ nest[k].at \in Nat \ {0}
<1>1. nest \in Seq(Frames) /\ IsFrame(nest[k])
  BY DEF IInv, StackInv
<1>2. Len(nest) \in Nat /\ DOMAIN nest = 1..Len(nest) /\ k \in Nat \ {0} /\ nest[k] \in Frames
  BY <1>1
<1> QED
  BY <1>1, <1>2 DEF Frames, IsFrame

LEMMA AtTop ==
    ASSUME IInv, Walking
    PROVE  /\ Len(nest) \in DOMAIN nest /\ Len(nest) \in Nat \ {0} /\ Innermost = nest[Len(nest)]
           /\ Len(nest) = 1 <=> Innermost.path = Root
           /\ InFile <=> Innermost.form \in DOMAIN FormsOf(Innermost.path)
           /\ InForm <=> Innermost.form \in Entered(Innermost.path)
           /\ InForm => Form.items = ItemsOf(Innermost.path, Innermost.form)
           /\ InItems <=> InForm /\ Innermost.at \in DOMAIN ItemsOf(Innermost.path, Innermost.form)
           /\ InItems => Child = ItemsOf(Innermost.path, Innermost.form)[Innermost.at] /\ Child \in Items
           /\ InFile => Form \in Forms
<1>1. nest \in Seq(Frames) /\ nest # <<>>
  BY DEF Walking, IInv, StackInv
<1>2. Len(nest) \in Nat \ {0} /\ Len(nest) \in DOMAIN nest /\ Innermost = nest[Len(nest)]
  BY <1>1 DEF Innermost, Last
<1>3. Innermost.path \in Read /\ Innermost.file = File[Innermost.path] /\ Innermost.at \in Nat \ {0}
  BY <1>2, FrameIs
<1>4. Len(nest) = 1 <=> Innermost.path = Root
  BY <1>2 DEF IInv, StackInv
<1>6. InFile <=> Innermost.form \in DOMAIN FormsOf(Innermost.path)
  BY DEF InFile
<1>7. InForm <=> Innermost.form \in Entered(Innermost.path)
  BY <1>3, <1>4, <1>6 DEF InForm, Form, Entered
<1>8. Form.items = ItemsOf(Innermost.path, Innermost.form)
  BY <1>3 DEF Form, ItemsOf
<1>9. InForm => ItemsOf(Innermost.path, Innermost.form) \in Seq(Items)
  <2>1. InForm => Innermost.form \in DOMAIN FormsOf(Innermost.path)
    BY <1>7 DEF Entered
  <2> QED
    BY <1>3, <2>1, TextIs DEF IInv
<1>10. InItems <=> InForm /\ Innermost.at \in DOMAIN ItemsOf(Innermost.path, Innermost.form)
  <2>1. CASE InForm
    <3> DEFINE s == ItemsOf(Innermost.path, Innermost.form)
    <3>1. s \in Seq(Items) /\ Form.items = s
      BY <1>8, <1>9, <2>1
    <3> HIDE DEF s
    <3>2. DOMAIN s = 1..Len(s) /\ Len(s) \in Nat
      BY <3>1
    <3> QED
      BY <1>3, <2>1, <3>1, <3>2 DEF InItems, s
  <2> QED
    BY <2>1 DEF InItems
<1>11. InItems => Child = ItemsOf(Innermost.path, Innermost.form)[Innermost.at] /\ Child \in Items
  BY <1>8, <1>9, <1>10 DEF Child
<1>12. InFile => Form \in Forms
  <2> SUFFICES ASSUME InFile PROVE Form \in Forms
    OBVIOUS
  <2>1. FormsOf(Innermost.path) \in Seq(Forms) /\ Innermost.form \in DOMAIN FormsOf(Innermost.path)
    BY <1>3, <1>6, TextIs DEF IInv
  <2> QED
    BY <2>1 DEF Form
<1> QED
  BY <1>2, <1>4, <1>6, <1>7, <1>8, <1>10, <1>11, <1>12

LEMMA Sound ==
    ASSUME IInv
    PROVE  ExpansionSound
<1>1. stage \in {"starting", "walking", "done", "failed"}
  BY DEF IInv, VarsInv
<1>2. ASSUME stage \in {"walking", "done"} PROVE Root \in visited
  <2>1. nest # <<>> /\ nest \in Seq(Frames)
    BY <1>2 DEF IInv, StackInv
  <2>2. 1 \in DOMAIN nest
    BY <2>1
  <2>3. nest[1].path = Root /\ nest[1].path \in Read
    BY <2>2 DEF IInv, StackInv, IsFrame
  <2> QED
    BY <2>3 DEF Read
<1>3. \A i \in DOMAIN nest :
          /\ nest[i].path \in Read /\ nest[i].dir = Dir(nest[i].path)
          /\ nest[i].form \in 1..Len(FormsOf(nest[i].path)) + 1
  BY DEF IInv, StackInv, IsFrame
<1>4. ASSUME NEW i \in 2..Len(nest)
      PROVE  ResolvePath(FormsOf(nest[i - 1].path)[nest[i - 1].form].items[nest[i - 1].at].path, nest[i - 1].dir)
                 = nest[i].path
  <2> DEFINE k == i - 1
  <2>1. Len(nest) \in Nat /\ DOMAIN nest = 1..Len(nest)
    BY DEF IInv, StackInv
  <2>2. k \in 1..Len(nest) - 1 /\ k + 1 = i /\ k \in DOMAIN nest
    BY <2>1
  <2> HIDE DEF k
  <2>3. Waits(nest[k], nest[i]) /\ nest[k].file = File[nest[k].path]
    BY <2>2 DEF IInv, StackInv, IsFrame
  <2> QED
    BY <2>3 DEF Waits, ItemsOf, k
<1>5. {out[i].path : i \in DOMAIN out} \subseteq Read
  BY DEF IInv, VarsInv
<1>6. ExpandTypeOK
  BY <1>1, <1>2, <1>3, <1>4, <1>5 DEF ExpandTypeOK
<1> QED
  BY <1>6 DEF ExpansionSound, IInv

-----------------------------------------------------------------------------
(* Steps.                                                                  *)

LEMMA FileKept ==
    ASSUME source' = source
    PROVE  /\ File' = File
           /\ \A p : FormsOf(p)' = FormsOf(p) /\ (DOMAIN FormsOf(p))' = DOMAIN FormsOf(p)
           /\ \A p : Entered(p)' = Entered(p)
           /\ \A p, i : ItemsOf(p, i)' = ItemsOf(p, i)
<1>1. File' = File
  BY DEF File, Found, Readable
<1>2. \A p : FormsOf(p)' = FormsOf(p) /\ (DOMAIN FormsOf(p))' = DOMAIN FormsOf(p)
  BY <1>1 DEF FormsOf
<1>3. \A p : Entered(p)' = Entered(p)
  BY <1>2 DEF Entered
<1>4. \A p, i : ItemsOf(p, i)' = ItemsOf(p, i)
  BY <1>2 DEF ItemsOf
<1> QED
  BY <1>1, <1>2, <1>3, <1>4

\* A step that remembers a path that leads nowhere, or none.
LEMMA ReadKept ==
    ASSUME source' = source, visited \subseteq visited',
           \A p \in visited' \ visited : File[p] = Missing
    PROVE  Read' = Read
<1>1. File' = File
  BY FileKept
<1> QED
  BY <1>1 DEF Read

\* A step that goes on with an activation, after those above it have ended.
Through(v, p) == \A i \in Entered(p) : \A j \in DOMAIN ItemsOf(p, i) : Dealt(v, ItemsOf(p, i)[j], p)
Goes(m) ==
    /\ source' = source /\ visited \subseteq visited' /\ Read' = Read
    /\ stage = "walking" /\ stage' = "walking"
    /\ nest' \in Seq(Frames) /\ Len(nest') = m
    /\ \A k \in 1..m - 1 : nest'[k] = nest[k]
    /\ nest'[m].path = nest[m].path /\ nest'[m].file = nest[m].file /\ nest'[m].dir = nest[m].dir
    /\ nest'[m].form \in 1..Len(FormsOf(nest[m].path)) + 1
    /\ \A i \in Entered(nest[m].path) : \A j \in DOMAIN ItemsOf(nest[m].path, i) :
          Behind(nest'[m], i, j) =>
              Behind(nest[m], i, j) \/ Dealt(visited', ItemsOf(nest[m].path, i)[j], nest[m].path)
    /\ \A k \in m + 1..Len(nest) : Through(visited, nest[k].path)

LEMMA DealtKept ==
    ASSUME NEW v, NEW w, v \subseteq w, NEW x, NEW p, Dealt(v, x, p)
    PROVE  Dealt(w, x, p)
  BY DEF Dealt

LEMMA GoesSound ==
    ASSUME IInv, VarsInv', NEW m \in 1..Len(nest), Goes(m)
    PROVE  IInv'
<1> DEFINE n == Len(nest)
<1>1. /\ nest' \in Seq(Frames) /\ Len(nest') = m /\ DOMAIN nest' = 1..m
      /\ n \in Nat /\ DOMAIN nest = 1..n /\ m \in Nat \ {0} /\ m <= n /\ m \in DOMAIN nest
  BY DEF Goes, IInv, StackInv
<1>2. /\ File' = File /\ Read' = Read /\ source' = source
      /\ \A p : Entered(p)' = Entered(p) /\ \A i : ItemsOf(p, i)' = ItemsOf(p, i)
  BY FileKept DEF Goes
<1> HIDE DEF n
<1>3. \A k \in 1..m : k \in DOMAIN nest /\ (k \in 1..m - 1 \/ k = m)
  BY <1>1
<1>4. \A k \in 1..m : /\ nest'[k].path = nest[k].path /\ nest'[k].file = nest[k].file
                      /\ nest'[k].dir = nest[k].dir
  BY <1>3 DEF Goes
<1>5. \A k \in 1..m : IsFrame(nest[k])'
  <2> SUFFICES ASSUME NEW k \in 1..m PROVE IsFrame(nest[k])'
    OBVIOUS
  <2>1. IsFrame(nest[k])
    BY <1>3 DEF IInv, StackInv
  <2>2. nest'[k].form \in 1..Len(FormsOf(nest[k].path)) + 1
    <3>1. CASE k = m
      BY <3>1 DEF Goes
    <3>2. CASE k \in 1..m - 1
      BY <2>1, <3>2 DEF Goes, IsFrame
    <3> QED
      BY <1>3, <3>1, <3>2
  <2>3. \A q : FormsOf(q)' = FormsOf(q)
    BY FileKept DEF Goes
  <2> QED
    BY <1>2, <1>4, <2>1, <2>2, <2>3 DEF IsFrame
<1>6. StackInv'
  <2>1. \A k \in DOMAIN nest' : nest'[k].path = Root <=> k = 1
    BY <1>1, <1>3, <1>4 DEF IInv, StackInv
  <2>2. ASSUME NEW k \in 1..m - 1
        PROVE  Waits(nest[k], nest[k + 1])'
    <3>1. k \in 1..n - 1 /\ k + 1 \in 1..m
      BY <1>1
    <3>2. Waits(nest[k], nest[k + 1])
      BY <3>1 DEF IInv, StackInv, n
    <3>3. nest'[k] = nest[k] /\ nest'[k + 1].path = nest[k + 1].path
      BY <1>4, <3>1 DEF Goes
    <3> QED
      BY <1>2, <3>2, <3>3 DEF Waits
  <2>3. stage' = "walking" /\ nest' # <<>>
    BY <1>1 DEF Goes
  <2> QED
    BY <1>1, <1>5, <2>1, <2>2, <2>3 DEF StackInv
<1>7. NoPathTwice'
  <2>1. \A i, j \in 1..m : nest'[i].path = nest'[j].path => i = j
    BY <1>3, <1>4 DEF IInv, NoPathTwice
  <2> QED
    BY <1>1, <2>1 DEF NoPathTwice
<1>8. visited \subseteq visited'
  BY DEF Goes
<1>9. ASSUME NEW k \in 1..m, NEW i \in Entered(nest[k].path), NEW j \in DOMAIN ItemsOf(nest[k].path, i),
             Behind(nest'[k], i, j)
      PROVE  Dealt(visited', ItemsOf(nest[k].path, i)[j], nest[k].path)
  <2>1. ASSUME Behind(nest[k], i, j)
        PROVE  Dealt(visited', ItemsOf(nest[k].path, i)[j], nest[k].path)
    <3>1. Dealt(visited, ItemsOf(nest[k].path, i)[j], nest[k].path)
      BY <1>3, <2>1 DEF IInv, BehindInv
    <3> QED
      BY <1>8, <3>1, DealtKept
  <2>2. CASE k = m
    BY <1>9, <2>1, <2>2 DEF Goes
  <2>3. CASE k \in 1..m - 1
    <3>1. nest'[k] = nest[k]
      BY <2>3 DEF Goes
    <3> QED
      BY <1>9, <2>1, <3>1
  <2> QED
    BY <1>3, <2>2, <2>3
<1>10. BehindInv'
  BY <1>1, <1>2, <1>4, <1>9 DEF BehindInv
<1>11. \A p \in Read : OnStack(p)' \/ Through(visited', p)
  <2> SUFFICES ASSUME NEW p \in Read PROVE OnStack(p)' \/ Through(visited', p)
    OBVIOUS
  <2>1. Through(visited, p) => Through(visited', p)
    BY <1>8, DealtKept DEF Through
  <2>2. ASSUME NEW k \in DOMAIN nest, nest[k].path = p
        PROVE  OnStack(p)' \/ Through(visited', p)
    <3>1. CASE k \in 1..m
      BY <1>1, <1>4, <2>2, <3>1 DEF OnStack
    <3>2. CASE k \in m + 1..Len(nest)
      BY <2>1, <2>2, <3>2 DEF Goes
    <3>3. k \in 1..m \/ k \in m + 1..n
      BY <1>1
    <3> QED
      BY <3>1, <3>2, <3>3 DEF n
  <2>3. OnStack(p) \/ Through(visited, p)
    BY DEF IInv, WalkedInv, Through
  <2> QED
    BY <2>1, <2>2, <2>3 DEF OnStack
<1>12. WalkedInv'
  BY <1>2, <1>11 DEF WalkedInv, Through
<1> QED
  BY <1>6, <1>7, <1>10, <1>12 DEF IInv

\* A step that begins with a file.
Begins(p, s) ==
    /\ source' = source /\ stage' = "walking" /\ p \in Seq(Names) /\ p \notin visited
    /\ visited' = visited \cup {p} /\ File[p] # Missing
    /\ nest' = Append(s, Expansion(p))

LEMMA BeginsRead ==
    ASSUME IInv, NEW p, NEW s, Begins(p, s)
    PROVE  /\ Read' = Read \cup {p} /\ p \notin Read
           /\ \A q \in Read : q # p
<1>1. File' = File
  BY FileKept DEF Begins
<1> QED
  BY <1>1 DEF Begins, Read

\* The first of an activation, in the step that begins it.
LEMMA NewFrame ==
    ASSUME IInv, VarsInv', NEW p, NEW s, Begins(p, s)
    PROVE  /\ Expansion(p) \in Frames /\ IsFrame(Expansion(p))'
           /\ Expansion(p).path = p
           /\ \A i \in Entered(p)' : \A j \in DOMAIN ItemsOf(p, i)' : ~ Behind(Expansion(p), i, j)
<1> DEFINE fr == Expansion(p)
<1>1. /\ fr.path = p /\ fr.file = File[p] /\ fr.form = 1 /\ fr.at = 1 /\ fr.dir = Dir(p)
      /\ p \in Seq(Names)
  BY DEF Expansion, Begins
<1>2. File' = File /\ p \in Read' /\ source' = source
  BY FileKept, BeginsRead DEF Begins
<1>3. /\ File[p] \in Sources /\ Len(FormsOf(p)) \in Nat
      /\ \A i \in (DOMAIN FormsOf(p))' : i \in Nat \ {0} /\ ItemsOf(p, i)' \in Seq(Items)
  <2>1. /\ File[p] \in Sources /\ Len(FormsOf(p)) \in Nat
        /\ \A i \in DOMAIN FormsOf(p) : i \in Nat \ {0} /\ ItemsOf(p, i) \in Seq(Items)
    BY TextOf DEF IInv, Begins
  <2>2. (DOMAIN FormsOf(p))' = DOMAIN FormsOf(p) /\ \A i : ItemsOf(p, i)' = ItemsOf(p, i)
    BY <1>2, FileKept
  <2> QED
    BY <2>1, <2>2
<1>4. fr \in Frames
  <2>1. Dir(p) \in Seq(Names)
    BY <1>1, DirIs
  <2> QED
    BY <1>1, <1>3, <2>1 DEF Expansion, Frames
<1>5. IsFrame(fr)'
  <2>1. 1 \in 1..Len(FormsOf(p)) + 1
    BY <1>3
  <2>2. fr' = fr
    BY <1>2 DEF Expansion
  <2> HIDE DEF fr
  <2> QED
    BY <1>1, <1>2, <2>1, <2>2 DEF IsFrame
<1>6. ASSUME NEW i \in Entered(p)', NEW j \in DOMAIN ItemsOf(p, i)'
      PROVE  ~ Behind(fr, i, j)
  <2>1. i \in Nat \ {0} /\ ItemsOf(p, i)' \in Seq(Items)
    BY <1>3 DEF Entered
  <2>2. j \in Nat \ {0}
    BY <2>1
  <2> QED
    BY <1>1, <2>1, <2>2 DEF Behind
<1> QED
  BY <1>1, <1>4, <1>5, <1>6

LEMMA BeginsSound ==
    ASSUME IInv, VarsInv', NEW p, Begins(p, nest),
           p = Root <=> nest = <<>>,
           nest # <<>> => Waits(nest[Len(nest)], Expansion(p))
    PROVE  IInv'
<1> DEFINE n  == Len(nest)
           fr == Expansion(p)
<1>1. /\ fr \in Frames /\ IsFrame(fr)' /\ fr.path = p /\ fr' = fr
      /\ \A i \in Entered(p)' : \A j \in DOMAIN ItemsOf(p, i)' : ~ Behind(fr, i, j)
  <2>1. fr' = fr
    BY FileKept DEF Begins, Expansion
  <2> QED
    BY <2>1, NewFrame
<1> HIDE DEF fr
<1>2. /\ File' = File /\ source' = source /\ Read' = Read \cup {p} /\ visited \subseteq visited'
      /\ \A q : Entered(q)' = Entered(q) /\ \A i : ItemsOf(q, i)' = ItemsOf(q, i)
      /\ \A q \in Read : q # p
  BY FileKept, BeginsRead DEF Begins
<1>3. nest \in Seq(Frames) /\ n \in Nat /\ DOMAIN nest = 1..n
  BY DEF IInv, StackInv
<1>4. nest' = Append(nest, fr)
  BY DEF Begins, fr
<1>5. /\ nest' \in Seq(Frames) /\ Len(nest') = n + 1 /\ DOMAIN nest' = 1..n + 1
      /\ nest'[n + 1] = fr /\ \A k \in 1..n : nest'[k] = nest[k]
  BY <1>1, <1>3, <1>4
<1>6. \A k \in 1..n + 1 : k \in 1..n \/ k = n + 1
  BY <1>3
<1>7. \A k \in 1..n : nest[k].path \in Read /\ IsFrame(nest[k])
  BY <1>3 DEF IInv, StackInv, IsFrame
<1>8. nest = <<>> <=> n = 0
  BY <1>3
<1> HIDE DEF n
<1>9. StackInv'
  <2>1. \A k \in DOMAIN nest' : IsFrame(nest[k])'
    <3>1. ASSUME NEW k \in 1..n PROVE IsFrame(nest[k])'
      <4>1. nest'[k] = nest[k]
        BY <1>5
      <4>2. \A q : FormsOf(q)' = FormsOf(q)
        BY FileKept DEF Begins
      <4> QED
        BY <1>2, <1>7, <4>1, <4>2 DEF IsFrame
    <3>2. ASSUME NEW k, k = n + 1 PROVE IsFrame(nest[k])'
      <4>1. nest'[k] = fr
        BY <1>5, <3>2
      <4> QED
        BY <1>1, <4>1 DEF IsFrame
    <3> QED
      BY <1>5, <1>6, <3>1, <3>2
  <2>2. \A k \in 1..n + 1 : nest'[k].path = Root <=> k = 1
    <3>1. ASSUME NEW k \in 1..n PROVE nest'[k].path = Root <=> k = 1
      BY <1>3, <1>5 DEF IInv, StackInv
    <3>2. fr.path = Root <=> n + 1 = 1
      BY <1>1, <1>3, <1>8
    <3> QED
      BY <1>5, <1>6, <3>1, <3>2
  <2>3. ASSUME NEW k \in 1..n
        PROVE  Waits(nest[k], nest[k + 1])'
    <3>1. CASE k = n
      <4>1. nest # <<>>
        BY <1>3, <1>8, <3>1
      <4>2. Waits(nest[n], fr)
        BY <4>1 DEF n, fr
      <4> QED
        BY <1>2, <1>5, <3>1, <4>2 DEF Waits
    <3>2. CASE k # n
      <4>1. k + 1 \in 1..n /\ k \in 1..n - 1
        BY <1>3, <3>2
      <4>2. Waits(nest[k], nest[k + 1])
        BY <4>1 DEF IInv, StackInv, n
      <4> QED
        BY <1>2, <1>5, <4>1, <4>2 DEF Waits
    <3> QED
      BY <3>1, <3>2
  <2>4. nest' # <<>> /\ stage' = "walking"
    BY <1>3, <1>5 DEF Begins
  <2>5. 1..Len(nest') - 1 = 1..n
    BY <1>3, <1>5
  <2> QED
    BY <1>5, <2>1, <2>2, <2>3, <2>4, <2>5 DEF StackInv
<1>10. NoPathTwice'
  <2>1. ASSUME NEW i \in 1..n + 1, NEW j \in 1..n + 1, nest'[i].path = nest'[j].path
        PROVE  i = j
    <3>1. CASE i \in 1..n /\ j \in 1..n
      BY <1>3, <1>5, <2>1, <3>1 DEF IInv, NoPathTwice
    <3>2. CASE i \in 1..n /\ j = n + 1
      BY <1>1, <1>2, <1>5, <1>7, <2>1, <3>2
    <3>3. CASE i = n + 1 /\ j \in 1..n
      BY <1>1, <1>2, <1>5, <1>7, <2>1, <3>3
    <3> QED
      BY <1>6, <3>1, <3>2, <3>3
  <2> QED
    BY <1>5, <2>1 DEF NoPathTwice
<1>11. BehindInv'
  <2> SUFFICES ASSUME NEW k \in 1..n + 1, NEW i \in Entered(nest'[k].path),
                      NEW j \in DOMAIN ItemsOf(nest'[k].path, i), Behind(nest'[k], i, j)
               PROVE  Dealt(visited', ItemsOf(nest'[k].path, i)[j], nest'[k].path)
    BY <1>2, <1>5 DEF BehindInv
  <2>1. CASE k \in 1..n
    <3>1. nest'[k] = nest[k] /\ k \in DOMAIN nest
      BY <1>3, <1>5, <2>1
    <3>2. Dealt(visited, ItemsOf(nest[k].path, i)[j], nest[k].path)
      BY <3>1 DEF IInv, BehindInv
    <3> QED
      BY <1>2, <3>1, <3>2, DealtKept
  <2>2. CASE k = n + 1
    <3>1. nest'[k] = fr
      BY <1>5, <2>2
    <3> QED
      BY <1>1, <1>2, <3>1
  <2> QED
    BY <1>6, <2>1, <2>2
<1>12. WalkedInv'
  <2> SUFFICES ASSUME NEW q \in Read \cup {p} PROVE OnStack(q)' \/ Through(visited', q)
    BY <1>2 DEF WalkedInv, Through
  <2>1. CASE q = p
    <3>1. n + 1 \in DOMAIN nest'
      BY <1>3, <1>5
    <3> QED
      BY <1>1, <1>5, <2>1, <3>1 DEF OnStack
  <2>2. CASE q \in Read
    <3>1. Through(visited, q) => Through(visited', q)
      BY <1>2, DealtKept DEF Through
    <3>2. OnStack(q) => OnStack(q)'
      <4>1. \A k \in DOMAIN nest : k \in DOMAIN nest' /\ nest'[k] = nest[k]
        BY <1>3, <1>5
      <4> QED
        BY <4>1 DEF OnStack
    <3> QED
      BY <2>2, <3>1, <3>2 DEF IInv, WalkedInv, Through
  <2> QED
    BY <2>1, <2>2
<1> QED
  BY <1>9, <1>10, <1>11, <1>12 DEF IInv


\* What a step copies is of a file that was followed.
LEMMA CopiedIs ==
    ASSUME IInv, Walking, NEW what \in Items \cup Forms, Copied(what), source' = source,
           visited' \subseteq Seq(Names), stage' = stage, Read' = Read
    PROVE  VarsInv'
<1> DEFINE c == [what |-> what, path |-> Innermost.path, file |-> Innermost.file]
<1>1. Innermost.path \in Read /\ Innermost.file \in Sources /\ Innermost.path \in Seq(Names)
  <2>1. Innermost.path \in Read /\ Innermost.file = File[Innermost.path]
    BY AtTop, FrameIs
  <2> QED
    BY <2>1, TextIs DEF IInv
<1>2. c \in Copies /\ c.path \in Read
  BY <1>1 DEF Copies
<1>3. out' = Append(out, c)
  BY DEF Copied
<1>4. out \in Seq(Copies) /\ \A i \in DOMAIN out : out[i].path \in Read
  BY DEF IInv, VarsInv
<1> HIDE DEF c
<1>5. out' \in Seq(Copies)
  BY <1>2, <1>3, <1>4
<1>6. \A i \in DOMAIN out' : (i \in DOMAIN out /\ out'[i] = out[i]) \/ out'[i] = c
  BY <1>2, <1>3, <1>4
<1>7. \A i \in DOMAIN out' : out'[i].path \in Read
  BY <1>2, <1>4, <1>6
<1> QED
  BY <1>5, <1>7 DEF IInv, VarsInv

LEMMA NothingCopied ==
    ASSUME IInv, source' = source, out' = out, visited' \subseteq Seq(Names), Read \subseteq Read',
           stage' \in {"starting", "walking", "done", "failed"}
    PROVE  VarsInv'
  BY DEF IInv, VarsInv

LEMMA AdvancedIs ==
    ASSUME NEW s \in Seq(Frames), s # <<>>
    PROVE  /\ Stepped(s) \in Seq(Frames) /\ Len(Stepped(s)) = Len(s)
           /\ \A k \in 1..Len(s) - 1 : Stepped(s)[k] = s[k]
           /\ Stepped(s)[Len(s)] = [s[Len(s)] EXCEPT !.at = @ + 1]
           /\ s[Len(s)] \in Frames
<1> DEFINE n == Len(s)
           fr == [s[n] EXCEPT !.at = @ + 1]
<1>1. n \in Nat \ {0} /\ DOMAIN s = 1..n /\ n \in DOMAIN s
  OBVIOUS
<1>2. s[n] \in Frames
  BY <1>1
<1>3. fr \in Frames
  <2>1. \A x \in Frames : [x EXCEPT !.at = @ + 1] \in Frames
    <3> SUFFICES ASSUME NEW x \in Frames PROVE [x EXCEPT !.at = @ + 1] \in Frames
      OBVIOUS
    <3>1. x.at + 1 \in Nat \ {0}
      BY DEF Frames
    <3> DEFINE y == x.at + 1
    <3> HIDE DEF y
    <3>2. [x EXCEPT !.at = y] \in Frames
      BY <3>1 DEF Frames, y
    <3> QED
      BY <3>2 DEF y
  <2> QED
    BY <1>2, <2>1
<1>4. Stepped(s) = [s EXCEPT ![n] = fr]
  BY <1>1, <1>2 DEF Stepped, Frames
<1> HIDE DEF fr
<1>5. [s EXCEPT ![n] = fr] \in Seq(Frames) /\ Len([s EXCEPT ![n] = fr]) = n
  BY <1>1, <1>3
<1>6. \A k \in 1..n - 1 : [s EXCEPT ![n] = fr][k] = s[k]
  <2> HIDE DEF n
  <2>1. \A k \in 1..n - 1 : k \in DOMAIN s /\ k # n
    BY <1>1
  <2> QED
    BY <2>1
<1>7. [s EXCEPT ![n] = fr][n] = fr
  BY <1>1
<1> QED
  BY <1>2, <1>4, <1>5, <1>6, <1>7 DEF fr

\* The step past an item that has been dealt with.
LEMMA ItemGoes ==
    ASSUME IInv, Walking, InItems, source' = source, visited \subseteq visited', Read' = Read, stage' = stage,
           nest' = Stepped(nest), Dealt(visited', Child, Innermost.path)
    PROVE  Goes(Len(nest))
<1> DEFINE m == Len(nest)
           p == nest[m].path
<1>1. m \in DOMAIN nest /\ m \in Nat \ {0} /\ nest \in Seq(Frames) /\ nest # <<>> /\ Innermost = nest[m]
  BY AtTop, FrameIs
<1>2. /\ nest' \in Seq(Frames) /\ Len(nest') = m /\ \A k \in 1..m - 1 : nest'[k] = nest[k]
      /\ nest'[m] = [nest[m] EXCEPT !.at = @ + 1] /\ nest[m] \in Frames
  BY <1>1, AdvancedIs
<1>3. IsFrame(nest[m])
  BY <1>1, FrameIs
<1>4. /\ nest'[m].path = p /\ nest'[m].file = nest[m].file /\ nest'[m].dir = nest[m].dir
      /\ nest'[m].form = nest[m].form /\ nest'[m].at = nest[m].at + 1
      /\ nest[m].form \in Nat /\ nest[m].at \in Nat
  BY <1>2 DEF Frames
<1>5. Child = ItemsOf(p, nest[m].form)[nest[m].at]
  BY <1>1, AtTop
<1>6. ASSUME NEW i \in Entered(p), NEW j \in DOMAIN ItemsOf(p, i), Behind(nest'[m], i, j)
      PROVE  Behind(nest[m], i, j) \/ Dealt(visited', ItemsOf(p, i)[j], p)
  <2>1. i \in Nat /\ j \in Nat
    <3>1. p \in Read /\ i \in DOMAIN FormsOf(p)
      BY <1>1, FrameIs DEF Entered
    <3>2. i \in Nat /\ ItemsOf(p, i) \in Seq(Items)
      BY <3>1, TextIs DEF IInv
    <3> QED
      BY <3>2
  <2>2. Behind(nest[m], i, j) \/ (i = nest[m].form /\ j = nest[m].at)
    BY <1>4, <1>6, <2>1 DEF Behind
  <2> QED
    BY <1>1, <1>5, <2>2
<1>7. nest'[m].form \in 1..Len(FormsOf(nest[m].path)) + 1
  BY <1>3, <1>4 DEF IsFrame
<1>8. \A k \in m + 1..m : Through(visited, nest[k].path)
  BY <1>1
<1> QED
  BY <1>2, <1>4, <1>6, <1>7, <1>8 DEF Goes, Walking

LEMMA CopyItemSound == ASSUME IInv, CopyItem PROVE IInv'
<1>1. Walking /\ InItems /\ Copied(Child) /\ nest' = Stepped(nest)
  BY DEF CopyItem, Moves
<1>2. source' = source /\ visited' = visited /\ stage' = stage
  BY DEF CopyItem
<1>3. Read' = Read
  BY <1>2, ReadKept
<1>4. Child \in Items /\ visited \subseteq Seq(Names)
  BY <1>1, AtTop DEF IInv, VarsInv
<1>5. VarsInv'
  BY <1>1, <1>2, <1>3, <1>4, CopiedIs
<1>6. Dealt(visited', Child, Innermost.path)
  BY DEF CopyItem, Dealt, Leads
<1>7. Goes(Len(nest))
  BY <1>1, <1>2, <1>3, <1>6, ItemGoes
<1>8. Len(nest) \in 1..Len(nest)
  BY <1>1, AtTop
<1> QED
  BY <1>5, <1>7, <1>8, GoesSound

LEMMA SkipEmptySound == ASSUME IInv, SkipEmpty PROVE IInv'
<1>1. Walking /\ InItems /\ nest' = Stepped(nest)
  BY DEF SkipEmpty, Moves
<1>2. source' = source /\ visited' = visited /\ stage' = stage /\ out' = out
  BY DEF SkipEmpty
<1>3. Read' = Read
  BY <1>2, ReadKept
<1>4. VarsInv'
  BY <1>2, <1>3, NothingCopied DEF IInv, VarsInv
<1>5. Dealt(visited', Child, Innermost.path)
  BY DEF SkipEmpty, Dealt, Leads
<1>6. Goes(Len(nest))
  BY <1>1, <1>2, <1>3, <1>5, ItemGoes
<1>7. Len(nest) \in 1..Len(nest)
  BY <1>1, AtTop
<1> QED
  BY <1>4, <1>6, <1>7, GoesSound

\* What is followed is a path.
LEMMA FollowedIs ==
    ASSUME IInv, Follows
    PROVE  /\ Walking /\ InItems /\ Leads(Child) /\ Child.kind # "error"
           /\ Followed = ResolvePath(Child.path, Dir(Innermost.path)) /\ Followed \in Seq(Names) \ {NotAPath}
           /\ Child \in Items
<1>1. Walking /\ InItems /\ Child.kind = "include" /\ Printable(Child.path)
  BY DEF Follows
<1>2. Child \in Items /\ Child.path \in Seq(Names)
  BY <1>1, AtTop DEF Items
<1>3. Innermost.dir = Dir(Innermost.path) /\ Innermost.path \in Seq(Names)
  <2>1. IsFrame(Innermost) /\ Innermost.path \in Read
    BY <1>1, AtTop, FrameIs
  <2> QED
    BY <2>1, TextIs DEF IsFrame, IInv
<1>4. Dir(Innermost.path) \in Seq(Names)
  BY <1>3, DirIs
<1> QED
  BY <1>1, <1>2, <1>3, <1>4, ResolveIs DEF Followed, Leads

LEMMA IncludeAgainSound == ASSUME IInv, IncludeAgain PROVE IInv'
<1>1. Follows /\ Followed \in visited /\ nest' = Stepped(nest)
  BY DEF IncludeAgain, Moves
<1>2. source' = source /\ visited' = visited /\ stage' = stage /\ out' = out
  BY DEF IncludeAgain
<1>3. Read' = Read
  BY <1>2, ReadKept
<1>4. VarsInv'
  BY <1>2, <1>3, NothingCopied DEF IInv, VarsInv
<1>5. Dealt(visited', Child, Innermost.path)
  BY <1>1, <1>2, FollowedIs DEF Dealt
<1>6. Walking /\ InItems
  BY <1>1, FollowedIs
<1>7. Goes(Len(nest))
  BY <1>1, <1>2, <1>3, <1>5, <1>6, ItemGoes
<1>8. Len(nest) \in 1..Len(nest)
  BY <1>6, AtTop
<1> QED
  BY <1>4, <1>7, <1>8, GoesSound

LEMMA IncludeMissingSound == ASSUME IInv, IncludeLost PROVE IInv' /\ Read' = Read
<1>1. Follows /\ File[Followed] = Missing /\ nest' = Stepped(nest) /\ Copied(Child)
  BY DEF IncludeLost, Moves
<1>2. source' = source /\ visited' = visited \cup {Followed} /\ stage' = stage
  BY DEF IncludeLost, Visited
<1>3. Read' = Read
  BY <1>1, <1>2, ReadKept
<1>4. Walking /\ InItems /\ Child \in Items /\ Followed \in Seq(Names)
  BY <1>1, FollowedIs
<1>5. visited' \subseteq Seq(Names)
  BY <1>2, <1>4 DEF IInv, VarsInv
<1>6. VarsInv'
  BY <1>1, <1>2, <1>3, <1>4, <1>5, CopiedIs
<1>7. Dealt(visited', Child, Innermost.path)
  BY <1>1, <1>2, FollowedIs DEF Dealt
<1>8. Goes(Len(nest))
  BY <1>1, <1>2, <1>3, <1>4, <1>7, ItemGoes
<1>9. Len(nest) \in 1..Len(nest)
  BY <1>4, AtTop
<1> QED
  BY <1>3, <1>6, <1>8, <1>9, GoesSound

\* The step to the next form of a file.
LEMMA NextFormIs ==
    ASSUME IInv, Walking
    PROVE  /\ NextForm \in Seq(Frames) /\ Len(NextForm) = Len(nest)
           /\ \A k \in 1..Len(nest) - 1 : NextForm[k] = nest[k]
           /\ NextForm[Len(nest)] = [nest[Len(nest)] EXCEPT !.form = @ + 1, !.at = 1]
<1> DEFINE n == Len(nest)
           fr == [nest[n] EXCEPT !.form = @ + 1, !.at = 1]
<1>1. n \in Nat \ {0} /\ nest \in Seq(Frames) /\ DOMAIN nest = 1..n /\ n \in DOMAIN nest /\ nest[n] \in Frames
  BY AtTop, FrameIs
<1> HIDE DEF n
<1>2. fr \in Frames
  <2>1. \A x \in Frames : [x EXCEPT !.form = @ + 1, !.at = 1] \in Frames
    <3> SUFFICES ASSUME NEW x \in Frames PROVE [x EXCEPT !.form = @ + 1, !.at = 1] \in Frames
      OBVIOUS
    <3>1. x.form + 1 \in Nat \ {0} /\ 1 \in Nat \ {0}
      BY DEF Frames
    <3> DEFINE y == x.form + 1
    <3> HIDE DEF y
    <3>2. [x EXCEPT !.form = y, !.at = 1] \in Frames
      BY <3>1 DEF Frames, y
    <3> QED
      BY <3>2 DEF y
  <2> QED
    BY <1>1, <2>1
<1>3. NextForm = [nest EXCEPT ![n] = fr]
  <2>1. NextForm = [nest EXCEPT ![n].form = @ + 1, ![n].at = 1]
    BY DEF NextForm, n
  <2> QED
    BY <1>1, <2>1 DEF Frames
<1> HIDE DEF fr
<1>4. [nest EXCEPT ![n] = fr] \in Seq(Frames) /\ Len([nest EXCEPT ![n] = fr]) = n
  BY <1>1, <1>2 DEF n
<1>5. \A k \in 1..n - 1 : [nest EXCEPT ![n] = fr][k] = nest[k]
  <2>1. \A k \in 1..n - 1 : k \in DOMAIN nest /\ k # n
    BY <1>1
  <2> QED
    BY <2>1
<1>6. [nest EXCEPT ![n] = fr][n] = fr
  BY <1>1
<1> QED
  BY <1>3, <1>4, <1>5, <1>6 DEF fr, n

\* Of the form that is left every item has been dealt with.
LEMMA FormGoes ==
    ASSUME IInv, Walking, InFile, ~ InItems, source' = source, visited' = visited, stage' = stage,
           nest' = NextForm
    PROVE  Goes(Len(nest))
<1> DEFINE m == Len(nest)
           p == nest[m].path
<1>1. m \in DOMAIN nest /\ m \in Nat \ {0} /\ nest \in Seq(Frames) /\ Innermost = nest[m] /\ nest[m] \in Frames
  BY AtTop, FrameIs
<1>2. /\ nest' \in Seq(Frames) /\ Len(nest') = m /\ \A k \in 1..m - 1 : nest'[k] = nest[k]
      /\ nest'[m] = [nest[m] EXCEPT !.form = @ + 1, !.at = 1]
  BY NextFormIs
<1>3. IsFrame(nest[m]) /\ p \in Read
  BY <1>1, FrameIs
<1>4. /\ nest'[m].path = p /\ nest'[m].file = nest[m].file /\ nest'[m].dir = nest[m].dir
      /\ nest'[m].form = nest[m].form + 1 /\ nest'[m].at = 1
      /\ nest[m].form \in Nat \ {0} /\ nest[m].at \in Nat \ {0}
  BY <1>1, <1>2 DEF Frames
<1>5. nest[m].form \in DOMAIN FormsOf(p)
  BY <1>1, AtTop
<1>6. nest'[m].form \in 1..Len(FormsOf(nest[m].path)) + 1
  <2>1. nest[m].form \in DOMAIN FormsOf(p) /\ nest[m].file = File[p]
    BY <1>3, <1>5, TextIs DEF IInv, IsFrame
  <2>2. DOMAIN FormsOf(p) = 1..Len(FormsOf(p)) /\ Len(FormsOf(p)) \in Nat
    BY <1>3, TextIs DEF IInv
  <2> QED
    BY <1>4, <2>1, <2>2
<1>7. ASSUME NEW i \in Entered(p), NEW j \in DOMAIN ItemsOf(p, i), Behind(nest'[m], i, j)
      PROVE  Behind(nest[m], i, j)
  <2>1. i \in Nat /\ ItemsOf(p, i) \in Seq(Items)
    BY <1>3, TextIs DEF IInv, Entered
  <2>2. j \in Nat \ {0}
    BY <2>1
  <2>3. i < nest[m].form \/ i = nest[m].form
    BY <1>4, <1>7, <2>1, <2>2 DEF Behind
  <2>4. ASSUME i = nest[m].form PROVE j < nest[m].at
    <3>1. InForm
      BY <1>1, <2>4, AtTop
    <3>2. nest[m].at \notin DOMAIN ItemsOf(p, i)
      BY <1>1, <2>4, <3>1, AtTop
    <3> DEFINE s == ItemsOf(p, i)
    <3>3. s \in Seq(Items) /\ nest[m].at \notin DOMAIN s /\ j \in DOMAIN s
      BY <2>1, <3>2
    <3> HIDE DEF s
    <3>4. DOMAIN s = 1..Len(s) /\ Len(s) \in Nat
      BY <3>3
    <3> QED
      BY <1>4, <3>3, <3>4
  <2> QED
    BY <2>3, <2>4 DEF Behind
<1>8. \A k \in m + 1..m : Through(visited, nest[k].path)
  BY <1>1
<1>9. Read' = Read
  BY ReadKept
<1> QED
  BY <1>2, <1>4, <1>6, <1>7, <1>8, <1>9 DEF Goes, Walking

LEMMA EndModuleSound == ASSUME IInv, EndForm PROVE IInv'
<1>1. Walking /\ InFile /\ ~ InItems /\ nest' = NextForm
  BY DEF EndForm, Moves, InForm
<1>2. source' = source /\ visited' = visited /\ stage' = stage /\ out' = out
  BY DEF EndForm
<1>3. VarsInv'
  BY <1>2, ReadKept, NothingCopied DEF IInv, VarsInv
<1>4. Goes(Len(nest))
  BY <1>1, <1>2, FormGoes
<1>5. Len(nest) \in 1..Len(nest)
  BY <1>1, AtTop
<1> QED
  BY <1>3, <1>4, <1>5, GoesSound

LEMMA CopyFormSound == ASSUME IInv, CopyForm PROVE IInv'
<1>1. Walking /\ InFile /\ ~ InItems /\ nest' = NextForm /\ Copied(Form)
  BY DEF CopyForm, Moves, InItems
<1>2. source' = source /\ visited' = visited /\ stage' = stage
  BY DEF CopyForm
<1>3. Read' = Read
  BY <1>2, ReadKept
<1>4. Form \in Forms /\ visited \subseteq Seq(Names)
  BY <1>1, AtTop DEF IInv, VarsInv
<1>5. VarsInv'
  BY <1>1, <1>2, <1>3, <1>4, CopiedIs
<1>6. Goes(Len(nest))
  BY <1>1, <1>2, FormGoes
<1>7. Len(nest) \in 1..Len(nest)
  BY <1>1, AtTop
<1> QED
  BY <1>5, <1>6, <1>7, GoesSound

\* At the end of a file all it includes has been dealt with.
LEMMA WalkedWhole ==
    ASSUME IInv, Walking, ~ InFile
    PROVE  Through(visited, Innermost.path)
<1> DEFINE m == Len(nest)
           p == nest[m].path
<1>1. m \in DOMAIN nest /\ Innermost = nest[m] /\ IsFrame(nest[m]) /\ p \in Read /\ nest[m].form \in Nat \ {0}
  BY AtTop, FrameIs
<1>2. nest[m].form \notin DOMAIN FormsOf(p)
  BY <1>1, AtTop
<1>3. /\ nest[m].form \in 1..Len(FormsOf(p)) + 1
      /\ Len(FormsOf(p)) \in Nat /\ DOMAIN FormsOf(p) = 1..Len(FormsOf(p))
  BY <1>1, TextIs DEF IInv, IsFrame
<1>4. ASSUME NEW i \in Entered(p)
      PROVE  i < nest[m].form
  <2>1. i \in DOMAIN FormsOf(p)
    BY DEF Entered
  <2>2. CASE p = Root
    BY <1>1, <1>2, <2>1, <2>2
  <2>3. CASE p # Root
    BY <1>2, <1>3, <2>1, <2>3
  <2> QED
    BY <2>2, <2>3
<1>5. \A i \in Entered(p) : \A j \in DOMAIN ItemsOf(p, i) : Behind(nest[m], i, j)
  BY <1>4 DEF Behind
<1>6. Through(visited, p)
  BY <1>1, <1>5 DEF Through, IInv, BehindInv
<1> QED
  BY <1>1, <1>6

LEMMA EndFileGoes ==
    ASSUME IInv, EndForms, Len(nest) # 1
    PROVE  Len(nest) - 1 \in 1..Len(nest) /\ Goes(Len(nest) - 1)
<1> DEFINE n == Len(nest)
           m == n - 1
           p == nest[m].path
           s == Front(nest)
<1>1. Walking /\ ~ InFile /\ nest' = Stepped(s) /\ UNCHANGED <<source, visited, out, stage>>
  BY DEF EndForms, Moves
<1>2. n \in DOMAIN nest /\ n \in Nat \ {0} /\ nest \in Seq(Frames) /\ DOMAIN nest = 1..n /\ Innermost = nest[n]
  BY <1>1, AtTop, FrameIs
<1>3. m \in Nat \ {0} /\ n = m + 1 /\ m \in 1..n /\ m \in 1..n - 1 /\ n \in DOMAIN nest
  BY <1>2
<1>4. s \in Seq(Frames) /\ Len(s) = m /\ \A k \in 1..m : s[k] = nest[k]
  <2>1. nest # <<>> /\ nest \in Seq(Frames)
    BY <1>2
  <2> QED
    BY <2>1, FrontIs
<1> HIDE DEF s
<1>5. s # <<>>
  BY <1>3, <1>4
<1> HIDE DEF m
<1>6. /\ nest' \in Seq(Frames) /\ Len(nest') = m /\ \A k \in 1..m - 1 : nest'[k] = s[k]
      /\ nest'[m] = [s[m] EXCEPT !.at = @ + 1]
  BY <1>1, <1>4, <1>5, AdvancedIs
<1>7. s[m] = nest[m] /\ m \in DOMAIN nest /\ \A k \in 1..m - 1 : nest'[k] = nest[k]
  BY <1>2, <1>3, <1>4, <1>6
<1>8. nest[m] \in Frames /\ IsFrame(nest[m]) /\ p \in Read
  BY <1>7, FrameIs
<1>9. /\ nest'[m].path = p /\ nest'[m].file = nest[m].file /\ nest'[m].dir = nest[m].dir
      /\ nest'[m].form = nest[m].form /\ nest'[m].at = nest[m].at + 1
      /\ nest[m].form \in Nat \ {0} /\ nest[m].at \in Nat \ {0}
  BY <1>6, <1>7, <1>8 DEF Frames
<1>10. Waits(nest[m], nest[n]) /\ nest[n].path \in visited
  <2>1. \A k \in 1..n - 1 : Waits(nest[k], nest[k + 1])
    BY DEF IInv, StackInv
  <2>2. Waits(nest[m], nest[n])
    BY <1>3, <2>1
  <2>3. nest[n].path \in Read
    BY <1>2, FrameIs
  <2> QED
    BY <2>2, <2>3 DEF Read
<1>11. Dealt(visited, ItemsOf(p, nest[m].form)[nest[m].at], p)
  BY <1>8, <1>10 DEF Waits, Dealt, Leads, IsFrame
<1>12. ASSUME NEW i \in Entered(p), NEW j \in DOMAIN ItemsOf(p, i), Behind(nest'[m], i, j)
       PROVE  Behind(nest[m], i, j) \/ Dealt(visited, ItemsOf(p, i)[j], p)
  <2>1. i \in Nat /\ j \in Nat
    <3>1. i \in Nat /\ ItemsOf(p, i) \in Seq(Items)
      BY <1>8, TextIs DEF IInv, Entered
    <3> QED
      BY <3>1
  <2>2. Behind(nest[m], i, j) \/ (i = nest[m].form /\ j = nest[m].at)
    BY <1>9, <1>12, <2>1 DEF Behind
  <2> QED
    BY <1>11, <2>2
<1>13. nest'[m].form \in 1..Len(FormsOf(nest[m].path)) + 1
  BY <1>8, <1>9 DEF IsFrame
<1>14. \A k \in m + 1..Len(nest) : Through(visited, nest[k].path)
  <2>1. Through(visited, nest[n].path)
    BY <1>1, <1>2, WalkedWhole
  <2>2. \A k \in m + 1..n : k = n
    BY <1>2, <1>3
  <2> QED
    BY <2>1, <2>2
<1>15. Read' = Read
  BY <1>1, ReadKept
<1>16. Goes(m)
  BY <1>1, <1>6, <1>7, <1>9, <1>12, <1>13, <1>14, <1>15 DEF Goes, Walking
<1> QED
  BY <1>3, <1>16 DEF m

LEMMA EndFileSound == ASSUME IInv, EndForms, Len(nest) # 1 PROVE IInv'
<1>1. UNCHANGED <<source, visited, out, stage>>
  BY DEF EndForms
<1>2. VarsInv'
  BY <1>1, ReadKept, NothingCopied DEF IInv, VarsInv
<1> QED
  BY <1>2, EndFileGoes, GoesSound

LEMMA IncludeNewSound ==
    ASSUME IInv, IncludeFollowed
    PROVE  IInv' /\ Begins(Followed, nest) /\ Followed # Root
<1>1. Follows /\ Followed \notin visited /\ File[Followed] # Missing /\ nest' = Append(nest, Expansion(Followed))
  BY DEF IncludeFollowed, Moves
<1>2. source' = source /\ visited' = visited \cup {Followed} /\ stage' = stage /\ out' = out
  BY DEF IncludeFollowed, Visited
<1>3. /\ Walking /\ InItems /\ Leads(Child) /\ Child \in Items /\ Followed \in Seq(Names)
      /\ Followed = ResolvePath(Child.path, Dir(Innermost.path))
  BY <1>1, FollowedIs
<1>4. Begins(Followed, nest)
  BY <1>1, <1>2, <1>3 DEF Begins, Walking
<1>5. VarsInv'
  <2>1. Read \subseteq Read' /\ visited' \subseteq Seq(Names)
    BY <1>2, <1>3, <1>4, BeginsRead DEF IInv, VarsInv
  <2> QED
    BY <1>2, <2>1, NothingCopied DEF IInv, VarsInv
<1>6. Followed # Root /\ nest # <<>>
  <2>1. Root \in visited
    BY <1>3, Sound DEF ExpansionSound, ExpandTypeOK, Walking
  <2> QED
    BY <1>1, <1>3, <2>1 DEF IInv, StackInv, Walking
<1>7. Waits(nest[Len(nest)], Expansion(Followed))
  <2> DEFINE fr == nest[Len(nest)]
  <2>1. /\ Innermost = fr /\ fr.form \in Entered(fr.path) /\ fr.at \in DOMAIN ItemsOf(fr.path, fr.form)
        /\ Child = ItemsOf(fr.path, fr.form)[fr.at]
    BY <1>3, AtTop DEF InItems
  <2>2. fr.dir = Dir(fr.path)
    BY <1>3, AtTop, FrameIs DEF IsFrame
  <2>3. Expansion(Followed).path = Followed
    BY DEF Expansion
  <2> QED
    BY <1>3, <2>1, <2>2, <2>3 DEF Waits
<1>8. IInv'
  BY <1>4, <1>5, <1>6, <1>7, BeginsSound
<1> QED
  BY <1>4, <1>6, <1>8

\* A step that changes the status at most.
LEMMA OnlyStatus ==
    ASSUME IInv, source' = source, nest' = nest, visited' = visited, out' = out,
           stage' \in {stage, "failed"} \/ (stage' = "done" /\ nest # <<>>)
    PROVE  IInv'
<1>1. File' = File /\ Read' = Read
  BY FileKept, ReadKept
<1>2. VarsInv'
  BY <1>1, NothingCopied DEF IInv, VarsInv
<1>3. \A p : Entered(p)' = Entered(p) /\ \A i : ItemsOf(p, i)' = ItemsOf(p, i)
  BY FileKept
<1>4. StackInv'
  <2>1. \A k \in DOMAIN nest' : IsFrame(nest[k])'
    <3>1. \A q : FormsOf(q)' = FormsOf(q)
      BY FileKept
    <3> QED
      BY <1>1, <3>1 DEF IInv, StackInv, IsFrame
  <2>2. \A k \in DOMAIN nest' : nest'[k].path = Root <=> k = 1
    BY DEF IInv, StackInv
  <2>3. ASSUME NEW k \in 1..Len(nest') - 1 PROVE Waits(nest[k], nest[k + 1])'
    <3>1. Waits(nest[k], nest[k + 1])
      BY DEF IInv, StackInv
    <3> QED
      BY <1>3, <3>1 DEF Waits
  <2>4. /\ nest' \in Seq(Frames)
        /\ stage' = "starting" => nest' = <<>> /\ visited' = {} /\ out' = <<>>
        /\ stage' \in {"walking", "done"} => nest' # <<>>
    BY DEF IInv, StackInv
  <2> QED
    BY <2>1, <2>2, <2>3, <2>4 DEF StackInv
<1>5. NoPathTwice'
  BY DEF IInv, NoPathTwice
<1>6. BehindInv'
  BY <1>3 DEF IInv, BehindInv
<1>7. WalkedInv'
  <2>1. \A p : OnStack(p)' = OnStack(p)
    BY DEF OnStack
  <2> QED
    BY <1>1, <1>3, <2>1 DEF IInv, WalkedInv
<1> QED
  BY <1>2, <1>4, <1>5, <1>6, <1>7 DEF IInv

LEMMA BeginSound == ASSUME IInv, Begin PROVE IInv'
<1>1. /\ stage = "starting" /\ source' = source /\ out' = out
      /\ nest = <<>> /\ visited = {}
  BY DEF Begin, IInv, StackInv
<1>2. CASE File[Root] = Missing
  <2>1. stage' = "failed" /\ nest' = nest /\ visited' = visited
    BY <1>2 DEF Begin
  <2> QED
    BY <1>1, <2>1, OnlyStatus
<1>3. CASE File[Root] # Missing
  <2>1. stage' = "walking" /\ nest' = <<Expansion(Root)>> /\ visited' = {Root}
    BY <1>3 DEF Begin
  <2>2. nest' = Append(nest, Expansion(Root)) /\ visited' = visited \cup {Root} /\ Root \notin visited
    BY <1>1, <2>1
  <2>3. Begins(Root, nest)
    BY <1>1, <1>3, <2>1, <2>2, ExpandAssumption DEF Begins
  <2>4. VarsInv'
    <3>1. Read \subseteq Read' /\ visited' \subseteq Seq(Names)
      BY <2>1, <2>3, BeginsRead, ExpandAssumption
    <3> QED
      BY <1>1, <2>1, <3>1, NothingCopied
  <2> QED
    BY <1>1, <2>3, <2>4, BeginsSound
<1> QED
  BY <1>2, <1>3

LEMMA InitSound == ASSUME ExpandInit PROVE IInv
<1>1. /\ source \in SourceTexts /\ nest = <<>> /\ visited = {} /\ out = <<>> /\ stage = "starting"
      /\ DOMAIN nest = {} /\ Len(nest) = 0 /\ DOMAIN out = {} /\ Read = {}
  BY DEF ExpandInit, Read
<1>2. VarsInv
  BY <1>1 DEF VarsInv
<1>3. StackInv
  <2>1. 1..Len(nest) - 1 = {}
    BY <1>1
  <2> QED
    BY <1>1, <2>1 DEF StackInv
<1>4. NoPathTwice
  BY <1>1 DEF NoPathTwice
<1>5. BehindInv
  BY <1>1 DEF BehindInv
<1>6. WalkedInv
  BY <1>1 DEF WalkedInv
<1> QED
  BY <1>2, <1>3, <1>4, <1>5, <1>6 DEF IInv

LEMMA IncludeErrorEnds ==
    ASSUME IInv, IncludeError
    PROVE  IInv'
<1>1. UNCHANGED <<source, nest, visited, out>> /\ stage' = "failed"
  BY DEF IncludeError
<1> QED
  BY <1>1, OnlyStatus

LEMMA LastEnds ==
    ASSUME IInv, EndForms, Len(nest) = 1
    PROVE  IInv'
<1>1. UNCHANGED <<source, nest, visited, out>> /\ stage' = "done" /\ Walking
  BY DEF EndForms
<1>2. nest # <<>>
  BY <1>1 DEF IInv, StackInv, Walking
<1> QED
  BY <1>1, <1>2, OnlyStatus

LEMMA StepSound == ASSUME IInv, [ExpandNext]_expandVars PROVE IInv'
<1>1. CASE Begin
  BY <1>1, BeginSound
<1>2. CASE CopyItem
  BY <1>2, CopyItemSound
<1>3. CASE SkipEmpty
  BY <1>3, SkipEmptySound
<1>4. CASE IncludeError
  BY <1>4, IncludeErrorEnds
<1>5. CASE IncludeAgain
  BY <1>5, IncludeAgainSound
<1>6. CASE IncludeLost
  BY <1>6, IncludeMissingSound
<1>7. CASE IncludeFollowed
  BY <1>7, IncludeNewSound
<1>8. CASE EndForm
  BY <1>8, EndModuleSound
<1>9. CASE CopyForm
  BY <1>9, CopyFormSound
<1>10. CASE EndForms
  BY <1>10, EndFileSound, LastEnds
<1>11. CASE UNCHANGED expandVars
  BY <1>11, OnlyStatus DEF expandVars
<1> QED
  BY <1>1, <1>2, <1>3, <1>4, <1>5, <1>6, <1>7, <1>8, <1>9, <1>10, <1>11 DEF ExpandNext

LEMMA Inductive == ExpandSpec => []IInv
<1>1. ExpandInit => IInv
  BY InitSound
<1>2. IInv /\ [ExpandNext]_expandVars => IInv'
  BY StepSound
<1> QED
  BY <1>1, <1>2, PTL DEF ExpandSpec

\* Whatever the files contain and however they include each other, the walk stays at the
\* forms its files have, waits at the include of the file it is in, and expands no file
\* inside itself under one path (include_expand.weave:329-374).
THEOREM Expands == ExpandSpec => []ExpansionSound
<1>1. IInv => ExpansionSound
  BY Sound
<1> QED
  BY <1>1, Inductive, PTL

-----------------------------------------------------------------------------
(* The walk implements the closure.                                        *)

\* What an item of a file asks for.
AsksOf(p, y, x) ==
    \/ Leads(y) /\ x = ResolvePath(y.path, Dir(p)) /\ File[x] # Missing /\ x # Root
    \/ y.kind = "error" /\ x = NotAPath

LEMMA AskedIs ==
    ASSUME VarsInv, NEW p \in Seq(Names), File[p] # Missing
    PROVE  /\ PathsAsked(p) \in SUBSET ((Seq(Names) \ {NotAPath}) \cup {NotAPath})
           /\ \A x : x \in PathsAsked(p) <=>
                  \E i \in Entered(p) : \E j \in DOMAIN ItemsOf(p, i) : AsksOf(p, ItemsOf(p, i)[j], x)
<1> DEFINE items == UNION {Range(FormsOf(p)[i].items) : i \in {j \in DOMAIN FormsOf(p) : FormsOf(p)[j].module \/ p = Root}}
           paths == {ResolvePath(x.path, Dir(p)) : x \in {y \in items : y.kind = "include" /\ Printable(y.path)}}
<1>1. PathsAsked(p) = ({q \in paths : File[q] # Missing} \ {Root}) \cup {NotAPath : x \in {y \in items : y.kind = "error"}}
  BY DEF PathsAsked
<1>2. \A y : y \in items <=> \E i \in Entered(p) : \E j \in DOMAIN ItemsOf(p, i) : y = ItemsOf(p, i)[j]
  <2>1. items = UNION {Range(ItemsOf(p, i)) : i \in Entered(p)}
    BY DEF ItemsOf, Entered
  <2>2. \A s : Range(s) = {s[j] : j \in DOMAIN s}
    BY DEF Range
  <2> HIDE DEF items
  <2> QED
    BY <2>1, <2>2
<1> HIDE DEF items
<1>3. \A x : x \in paths <=> \E y \in items : Leads(y) /\ x = ResolvePath(y.path, Dir(p))
  BY DEF Leads
<1>4. paths \subseteq Seq(Names) \ {NotAPath}
  <2> SUFFICES ASSUME NEW y \in items, Leads(y)
               PROVE  ResolvePath(y.path, Dir(p)) \in Seq(Names) \ {NotAPath}
    BY <1>3
  <2>1. PICK i \in Entered(p) : \E j \in DOMAIN ItemsOf(p, i) : y = ItemsOf(p, i)[j]
    BY <1>2
  <2>2. ItemsOf(p, i) \in Seq(Items)
    BY TextOf DEF Entered
  <2>3. y \in Items
    BY <2>1, <2>2
  <2>4. y.path \in Seq(Names) /\ Printable(y.path) /\ Dir(p) \in Seq(Names)
    BY <2>3, DirIs DEF Items, Leads
  <2> QED
    BY <2>4, ResolveIs
<1> HIDE DEF paths
<1>5. \A x : x \in PathsAsked(p) <=> \E y \in items : AsksOf(p, y, x)
  BY <1>1, <1>3 DEF AsksOf
<1>6. PathsAsked(p) \in SUBSET ((Seq(Names) \ {NotAPath}) \cup {NotAPath})
  BY <1>1, <1>4
<1> QED
  BY <1>2, <1>5, <1>6

\* What the files of the program ask for, while there is one.
LEMMA WantedIs ==
    ASSUME IInv, Walking
    PROVE  /\ Read \cup {Root} = Read
           /\ \A x : x \in PathClosure!Wanted <=> \E p \in Read : x \in PathsAsked(p)
<1>1. Root \in Read
  <2>1. 1 \in DOMAIN nest
    BY AtTop DEF IInv, StackInv
  <2>2. nest[1].path = Root
    BY <2>1 DEF IInv, StackInv
  <2> QED
    BY <2>1, <2>2, FrameIs
<1> DEFINE A == [p \in Read \cup {Root} |-> PathsAsked(p)]
<1>2. PathClosure!Wanted = UNION {A[p] : p \in DOMAIN A}
  BY DEF PathClosure!Wanted
<1>3. DOMAIN A = Read /\ \A p \in Read : A[p] = PathsAsked(p)
  BY <1>1
<1> HIDE DEF A
<1> QED
  BY <1>1, <1>2, <1>3

LEMMA AskedKept ==
    ASSUME source' = source
    PROVE  \A p : PathsAsked(p)' = PathsAsked(p)
<1> DEFINE items(p, t, walked) == UNION {Range(t[i].items) : i \in {j \in walked : t[j].module \/ p = Root}}
           paths(p, t, walked) ==
               {ResolvePath(x.path, Dir(p)) : x \in {y \in items(p, t, walked) : y.kind = "include" /\ Printable(y.path)}}
           asked(p, t, walked, file) ==
               IF file[p] = Missing THEN {NotAPath}
               ELSE ({q \in paths(p, t, walked) : file[q] # Missing} \ {Root})
                        \cup {NotAPath : x \in {y \in items(p, t, walked) : y.kind = "error"}}
<1> SUFFICES ASSUME NEW p PROVE PathsAsked(p)' = PathsAsked(p)
  OBVIOUS
<1>1. PathsAsked(p) = asked(p, FormsOf(p), DOMAIN FormsOf(p), File)
  BY DEF PathsAsked
<1>2. PathsAsked(p)' = asked(p, FormsOf(p)', (DOMAIN FormsOf(p))', File')
  BY DEF PathsAsked
<1>3. File' = File /\ FormsOf(p)' = FormsOf(p) /\ (DOMAIN FormsOf(p))' = DOMAIN FormsOf(p)
  BY FileKept
<1> HIDE DEF asked
<1> QED
  BY <1>1, <1>2, <1>3

\* The item the walk is at.
LEMMA TopAsks ==
    ASSUME IInv, Walking, InItems, NEW x, AsksOf(Innermost.path, Child, x)
    PROVE  x \in PathClosure!Wanted
<1>1. /\ Innermost.path \in Read /\ Innermost.form \in Entered(Innermost.path) /\ Innermost.at \in DOMAIN ItemsOf(Innermost.path, Innermost.form)
      /\ Child = ItemsOf(Innermost.path, Innermost.form)[Innermost.at]
  BY AtTop, FrameIs DEF InItems
<1>2. Innermost.path \in Seq(Names) /\ File[Innermost.path] # Missing /\ VarsInv
  BY <1>1, TextIs DEF IInv, Read
<1>3. x \in PathsAsked(Innermost.path)
  BY <1>1, <1>2, AskedIs
<1> QED
  BY <1>1, <1>3, WantedIs

Outcome == CASE stage \in {"starting", "walking"} -> "open"
             [] stage = "done"    -> "merged"
             [] stage = "failed"  -> "failed"

LEMMA OutcomeIs ==
    /\ stage \in {"starting", "walking"} => Outcome = "open"
    /\ stage = "done" => Outcome = "merged"
    /\ stage = "failed" => Outcome = "failed"
  BY DEF Outcome

LEMMA OutcomeNext ==
    /\ stage' \in {"starting", "walking"} => Outcome' = "open"
    /\ stage' = "done" => Outcome' = "merged"
    /\ stage' = "failed" => Outcome' = "failed"
  BY DEF Outcome

LEMMA MergeStep ==
    ASSUME IInv, IInv', IncludeFollowed
    PROVE  PathClosure!Next
<1> DEFINE q == Followed
           A == [p \in Read \cup {Root} |-> PathsAsked(p)]
           B == [p \in Read' \cup {Root} |-> PathsAsked(p)']
           U == (Seq(Names) \ {NotAPath}) \cup {NotAPath}
<1>1. /\ Walking /\ InItems /\ Leads(Child) /\ q = ResolvePath(Child.path, Dir(Innermost.path))
      /\ q \in Seq(Names) \ {NotAPath} /\ File[q] # Missing /\ q \notin visited
      /\ source' = source /\ stage' = stage
  BY FollowedIs DEF IncludeFollowed
<1>2. Begins(q, nest) /\ q # Root
  BY IncludeNewSound
<1>3. Read' = Read \cup {q} /\ q \notin Read /\ visited' = visited \cup {q}
  BY <1>2, BeginsRead DEF Begins
<1>4. q \in PathClosure!Wanted
  BY <1>1, <1>2, TopAsks DEF AsksOf
<1> HIDE DEF q
<1>5. Read \cup {Root} = Read
  BY <1>1, WantedIs
<1>6. \A p : PathsAsked(p)' = PathsAsked(p)
  BY <1>1, AskedKept
<1>7. \A p \in Read' : PathsAsked(p) \in SUBSET U
  <2> SUFFICES ASSUME NEW p \in Read' PROVE PathsAsked(p) \in SUBSET U
    OBVIOUS
  <2>1. p \in Seq(Names) /\ File[p] # Missing
    BY <1>1, <1>3, TextIs DEF IInv, Read
  <2> QED
    BY <2>1, AskedIs DEF IInv
<1>8. DOMAIN A = Read /\ \A p \in Read : A[p] = PathsAsked(p)
  BY <1>5
<1>9. B \in [Read \cup {q} -> SUBSET U] /\ \A p \in Read : B[p] = PathsAsked(p)
  <2>1. Read' \cup {Root} = Read \cup {q} /\ Read' \cup {Root} = Read'
    BY <1>3, <1>5
  <2> QED
    BY <1>3, <1>6, <1>7, <2>1
<1> HIDE DEF A, B
<1>10. B \in [DOMAIN A \cup {q} -> SUBSET U] /\ \A p \in DOMAIN A : B[p] = A[p]
  BY <1>8, <1>9
<1>11. Read' \ {Root} = (Read \ {Root}) \cup {q}
  BY <1>2, <1>3
<1>12. q \in (PathClosure!Wanted \cap (Seq(Names) \ {NotAPath})) \ (Read \ {Root})
  BY <1>1, <1>3, <1>4
<1>13. Outcome = "open" /\ Outcome' = Outcome
  BY <1>1, OutcomeIs, OutcomeNext DEF Walking
<1>14. PathClosure!Merge(q)
  BY <1>10, <1>11, <1>12, <1>13 DEF PathClosure!Merge, A, B, Outcome
<1> QED
  BY <1>4, <1>14 DEF PathClosure!Next

\* A step that leaves what was read.
LEMMA Stutters ==
    ASSUME source' = source, Read' = Read, Outcome' = Outcome
    PROVE  UNCHANGED PathClosure!vars
<1>1. \A p : PathsAsked(p)' = PathsAsked(p)
  BY AskedKept
<1> QED
  BY <1>1 DEF PathClosure!vars, Outcome

LEMMA CompleteStep ==
    ASSUME IInv, EndForms, Len(nest) = 1
    PROVE  PathClosure!Next
<1>1. /\ Walking /\ ~ InFile /\ source' = source /\ visited' = visited /\ stage' = "done"
  BY DEF EndForms
<1>2. \A p \in Read : Through(visited, p)
  <2>1. DOMAIN nest = {1} /\ Innermost = nest[1]
    BY <1>1, AtTop, FrameIs
  <2>2. Through(visited, nest[1].path)
    BY <1>1, <2>1, WalkedWhole
  <2> QED
    BY <2>1, <2>2 DEF IInv, WalkedInv, OnStack, Through
<1>3. PathClosure!Wanted \subseteq Read \ {Root}
  <2> SUFFICES ASSUME NEW x \in PathClosure!Wanted PROVE x \in Read \ {Root}
    OBVIOUS
  <2>1. PICK p \in Read : x \in PathsAsked(p)
    BY <1>1, WantedIs
  <2>2. p \in Seq(Names) /\ File[p] # Missing
    BY <2>1, TextIs DEF IInv, Read
  <2>3. PICK i \in Entered(p) : \E j \in DOMAIN ItemsOf(p, i) : AsksOf(p, ItemsOf(p, i)[j], x)
    BY <2>1, <2>2, AskedIs DEF IInv
  <2>4. PICK j \in DOMAIN ItemsOf(p, i) : AsksOf(p, ItemsOf(p, i)[j], x)
    BY <2>3
  <2>5. Dealt(visited, ItemsOf(p, i)[j], p)
    BY <1>2, <2>1, <2>4 DEF Through
  <2> QED
    BY <2>4, <2>5 DEF AsksOf, Dealt, Read
<1>4. Read' = Read
  BY <1>1, ReadKept
<1>5. \A p : PathsAsked(p)' = PathsAsked(p)
  BY <1>1, AskedKept
<1>6. Outcome = "open" /\ Outcome' = "merged"
  BY <1>1, OutcomeIs, OutcomeNext DEF Walking
<1>7. PathClosure!Complete
  BY <1>3, <1>4, <1>5, <1>6 DEF PathClosure!Complete, Outcome
<1> QED
  BY <1>7 DEF PathClosure!Next

\* An include that is malformed ends the walk, and so does a root that cannot be read.
LEMMA FailStep ==
    ASSUME IInv, NotAPath \in PathClosure!Wanted, stage \in {"starting", "walking"}, stage' = "failed",
           source' = source, visited' = visited
    PROVE  PathClosure!Next
<1>1. Read' = Read
  BY ReadKept
<1>2. \A p : PathsAsked(p)' = PathsAsked(p)
  BY AskedKept
<1>3. Outcome = "open" /\ Outcome' = "failed"
  BY OutcomeIs, OutcomeNext
<1>4. PathClosure!Fail
  BY <1>1, <1>2, <1>3 DEF PathClosure!Fail, Outcome
<1> QED
  BY <1>4 DEF PathClosure!Next

LEMMA BeginStep ==
    ASSUME IInv, Begin
    PROVE  PathClosure!Next \/ UNCHANGED PathClosure!vars
<1>1. stage = "starting" /\ source' = source /\ visited = {} /\ Read = {}
  BY DEF Begin, IInv, StackInv, Read
<1>2. CASE File[Root] = Missing
  <2>1. stage' = "failed" /\ visited' = visited
    BY <1>2 DEF Begin
  <2>2. NotAPath \in PathClosure!Wanted
    <3> DEFINE A == [p \in Read \cup {Root} |-> PathsAsked(p)]
    <3>1. PathClosure!Wanted = UNION {A[p] : p \in DOMAIN A}
      BY DEF PathClosure!Wanted
    <3>2. Root \in DOMAIN A /\ A[Root] = PathsAsked(Root) /\ NotAPath \in PathsAsked(Root)
      BY <1>2 DEF PathsAsked
    <3> HIDE DEF A
    <3> QED
      BY <3>1, <3>2
  <2> QED
    BY <1>1, <2>1, <2>2, FailStep
<1>3. CASE File[Root] # Missing
  <2>1. stage' = "walking" /\ visited' = {Root}
    BY <1>3 DEF Begin
  <2>2. File' = File /\ \A p : PathsAsked(p)' = PathsAsked(p)
    BY <1>1, FileKept, AskedKept
  <2>3. Read' = {Root}
    BY <1>3, <2>1, <2>2 DEF Read
  <2>4. Read' \ {Root} = Read \ {Root} /\ Read' \cup {Root} = Read \cup {Root}
    BY <1>1, <2>3
  <2>5. Outcome' = Outcome
    BY <1>1, <2>1, OutcomeIs, OutcomeNext
  <2> QED
    BY <2>2, <2>4, <2>5 DEF PathClosure!vars, Outcome
<1> QED
  BY <1>2, <1>3

LEMMA ClosureInit ==
    ASSUME ExpandInit
    PROVE  PathClosure!Init
<1>1. IInv /\ Read = {} /\ stage = "starting"
  BY InitSound DEF ExpandInit, Read
<1>2. PathsAsked(Root) \in SUBSET ((Seq(Names) \ {NotAPath}) \cup {NotAPath})
  <2>1. CASE File[Root] = Missing
    BY <2>1 DEF PathsAsked
  <2>2. CASE File[Root] # Missing
    BY <1>1, <2>2, AskedIs, ExpandAssumption DEF IInv
  <2> QED
    BY <2>1, <2>2
<1>3. Read \cup {Root} = {Root} /\ Read \ {Root} = {}
  BY <1>1
<1>4. [p \in Read \cup {Root} |-> PathsAsked(p)] \in [{Root} -> SUBSET ((Seq(Names) \ {NotAPath}) \cup {NotAPath})]
  BY <1>2, <1>3
<1>5. Outcome = "open"
  BY <1>1, OutcomeIs
<1> QED
  BY <1>3, <1>4, <1>5 DEF PathClosure!Init, Outcome

LEMMA ClosureStep ==
    ASSUME IInv, IInv', [ExpandNext]_expandVars
    PROVE  [PathClosure!Next]_PathClosure!vars
<1>1. CASE Begin
  BY <1>1, BeginStep
<1>2. CASE IncludeFollowed
  BY <1>2, MergeStep
<1>3. CASE IncludeError
  <2>1. /\ Walking /\ InItems /\ Child.kind = "error" /\ stage = "walking" /\ stage' = "failed"
        /\ source' = source /\ visited' = visited
    BY <1>3 DEF IncludeError, Walking
  <2>2. NotAPath \in PathClosure!Wanted
    BY <2>1, TopAsks DEF AsksOf
  <2> QED
    BY <2>1, <2>2, FailStep
<1>4. CASE IncludeLost
  <2>1. source' = source /\ stage' = stage /\ Read' = Read
    BY <1>4, IncludeMissingSound DEF IncludeLost
  <2> QED
    BY <2>1, Stutters DEF Outcome
<1>5. CASE EndForms /\ Len(nest) = 1
  BY <1>5, CompleteStep
<1>6. CASE \/ CopyItem \/ SkipEmpty \/ IncludeAgain \/ EndForm \/ CopyForm
           \/ (EndForms /\ Len(nest) # 1) \/ UNCHANGED expandVars
  <2>1. source' = source /\ visited' = visited /\ stage' = stage
    BY <1>6 DEF CopyItem, SkipEmpty, IncludeAgain, EndForm, CopyForm, EndForms, expandVars
  <2>2. Read' = Read
    BY <2>1, ReadKept
  <2> QED
    BY <2>1, <2>2, Stutters DEF Outcome
<1> QED
  BY <1>1, <1>2, <1>3, <1>4, <1>5, <1>6 DEF ExpandNext

\* The walk copies the files of a program one by one, each because a copied file asks for
\* it under a path that is new, and none twice; it ends when no path that leads to a file
\* is left out, and fails over the root or a malformed include only
\* (expand-children, include_expand.weave:257-395).
THEOREM Implements == ExpandSpec => ExpandsClosure
<1>1. ExpandInit => PathClosure!Init
  BY ClosureInit
<1>2. IInv /\ IInv' /\ [ExpandNext]_expandVars => [PathClosure!Next]_PathClosure!vars
  BY ClosureStep
<1> QED
  BY <1>1, <1>2, Inductive, PTL DEF ExpandSpec, ExpandsClosure, PathClosure!Spec

-----------------------------------------------------------------------------
(* What is in the new program, counted.                                    *)

\* What of a file an activation has copied.
KeptTo(fr) == {x \in Kept(fr.path) : x[1] < fr.form \/ (x[1] = fr.form /\ x[2] \in 1..fr.at - 1)}

Tally(p, S) == IsFiniteSet(S) /\ Cardinality(CopiedOf(p)) = Cardinality(S)
SpliceInv ==
    /\ \A k \in DOMAIN nest : Tally(nest[k].path, KeptTo(nest[k]))
    /\ \A p \in Read : OnStack(p) \/ Tally(p, Kept(p))

\* An include that led nowhere, and where it should have led.
Lost(c)   == "kind" \in DOMAIN c.what /\ c.what.kind = "include" /\ Printable(c.what.path)
LostAt(c) == ResolvePath(c.what.path, Dir(c.path))
LostOf(p) == {i \in DOMAIN out : Lost(out[i]) /\ LostAt(out[i]) = p}
LostInv ==
    /\ \A p \in visited \ Read : Cardinality(LostOf(p)) = 1
    /\ \A i \in DOMAIN out : Lost(out[i]) => LostAt(out[i]) \in visited \ Read

CountInv == SpliceInv /\ LostInv /\ SplicedOnce

LEMMA KeptIs ==
    ASSUME IInv, NEW p \in Read
    PROVE  /\ \A x \in Kept(p) : x[1] \in DOMAIN FormsOf(p) /\ x[1] \in Nat \ {0} /\ x[2] \in Nat /\ x = <<x[1], x[2]>>
           /\ \A i, k : <<i, k>> \in Kept(p) <=>
                 \/ i \in Entered(p) /\ k \in DOMAIN ItemsOf(p, i) /\ ItemsOf(p, i)[k].kind = "other"
                 \/ i \in DOMAIN FormsOf(p) /\ i \notin Entered(p) /\ k = 0
<1>1. \A i \in DOMAIN FormsOf(p) : i \in Nat \ {0} /\ ItemsOf(p, i) \in Seq(Items)
  BY TextIs DEF IInv
<1>2. \A i \in DOMAIN FormsOf(p) : \A k :
         k \in KeptIn(p, i) <=> IF i \in Entered(p) THEN k \in DOMAIN ItemsOf(p, i) /\ ItemsOf(p, i)[k].kind = "other"
                               ELSE k = 0
  BY DEF KeptIn, Entered, ItemsOf
<1>3. \A i \in DOMAIN FormsOf(p) : \A k \in KeptIn(p, i) : k \in Nat
  BY <1>1, <1>2
<1>4. \A x : x \in Kept(p) <=> \E i \in DOMAIN FormsOf(p) : x \in {i} \X KeptIn(p, i)
  BY DEF Kept
<1>5. \A i, x : x \in {i} \X KeptIn(p, i) <=> \E k \in KeptIn(p, i) : x = <<i, k>>
  OBVIOUS
<1>6. \A x : x \in Kept(p) <=> \E i \in DOMAIN FormsOf(p) : \E k \in KeptIn(p, i) : x = <<i, k>>
  BY <1>4, <1>5
<1>7. \A x \in Kept(p) : x[1] \in DOMAIN FormsOf(p) /\ x[1] \in Nat \ {0} /\ x[2] \in Nat /\ x = <<x[1], x[2]>>
  BY <1>1, <1>3, <1>6
<1>8. \A i, k : <<i, k>> \in Kept(p) <=> i \in DOMAIN FormsOf(p) /\ k \in KeptIn(p, i)
  <2>1. \A a, b, c, d : <<a, b>> = <<c, d>> <=> a = c /\ b = d
    OBVIOUS
  <2> QED BY <1>6, <2>1
<1>9. \A i \in Entered(p) : i \in DOMAIN FormsOf(p)
  BY DEF Entered
<1> QED BY <1>2, <1>7, <1>8, <1>9

\* What a file has to give does not change.
LEMMA KeptStays == ASSUME source' = source PROVE \A p : Kept(p)' = Kept(p)
<1>1. File' = File /\ \A p : (DOMAIN FormsOf(p))' = DOMAIN FormsOf(p)
  BY FileKept
<1>2. \A p, i : KeptIn(p, i)' = KeptIn(p, i)
  <2>1. \A p : FormsOf(p)' = FormsOf(p)
    BY FileKept
  <2> QED
    BY <2>1 DEF KeptIn
<1> QED BY <1>1, <1>2 DEF Kept

\* The new program grows at its end.
Counted(c, p) == c.path = p /\ ("module" \in DOMAIN c.what \/ c.what.kind = "other")

LEMMA OutGrows ==
    ASSUME NEW c \in Copies, out \in Seq(Copies), out' = Append(out, c), NEW p
    PROVE  /\ IsFiniteSet(CopiedOf(p)) /\ IsFiniteSet(LostOf(p))
           /\ Counted(c, p) => Cardinality(CopiedOf(p))' = Cardinality(CopiedOf(p)) + 1
           /\ ~Counted(c, p) => CopiedOf(p)' = CopiedOf(p)
           /\ Lost(c) /\ LostAt(c) = p => LostOf(p)' = LostOf(p) \cup {Len(out) + 1}
           /\ ~(Lost(c) /\ LostAt(c) = p) => LostOf(p)' = LostOf(p)
           /\ DOMAIN out' = DOMAIN out \cup {Len(out) + 1} /\ out'[Len(out) + 1] = c
           /\ \A i \in DOMAIN out : out'[i] = out[i] /\ i # Len(out) + 1
<1> DEFINE n == Len(out)
<1>1. /\ n \in Nat /\ DOMAIN out = 1..n /\ DOMAIN out' = 1..n \cup {n + 1} /\ out'[n + 1] = c /\ n + 1 \notin 1..n
      /\ \A i \in 1..n : out'[i] = out[i]
  OBVIOUS
<1>2. IsFiniteSet(1..n)
  <2>1. 1 \in Int /\ n \in Int
    BY <1>1
  <2> HIDE DEF n
  <2> QED BY <2>1, FS_Interval
<1>3. CopiedOf(p) = {i \in DOMAIN out : Counted(out[i], p)} /\ CopiedOf(p)' = {i \in DOMAIN out' : Counted(out'[i], p)}
  BY DEF CopiedOf, Counted
<1>4. LostOf(p) = {i \in DOMAIN out : Lost(out[i]) /\ LostAt(out[i]) = p}
      /\ LostOf(p)' = {i \in DOMAIN out' : Lost(out'[i]) /\ LostAt(out'[i]) = p}
  BY DEF LostOf, Lost, LostAt
<1> HIDE DEF n
<1>5. IsFiniteSet(CopiedOf(p)) /\ IsFiniteSet(LostOf(p))
  <2>1. CopiedOf(p) \subseteq 1..n /\ LostOf(p) \subseteq 1..n
    BY <1>1, <1>3, <1>4
  <2> QED BY <1>2, <2>1, FS_Subset
<1>6. ASSUME Counted(c, p) PROVE Cardinality(CopiedOf(p))' = Cardinality(CopiedOf(p)) + 1
  <2>1. CopiedOf(p)' = CopiedOf(p) \cup {n + 1} /\ n + 1 \notin CopiedOf(p)
    BY <1>1, <1>3, <1>6
  <2> QED BY <1>5, <2>1, FS_AddElement
<1>7. ~Counted(c, p) => CopiedOf(p)' = CopiedOf(p)
  BY <1>1, <1>3
<1>8. Lost(c) /\ LostAt(c) = p => LostOf(p)' = LostOf(p) \cup {n + 1}
  BY <1>1, <1>4
<1>9. ~(Lost(c) /\ LostAt(c) = p) => LostOf(p)' = LostOf(p)
  BY <1>1, <1>4
<1> QED BY <1>1, <1>5, <1>6, <1>7, <1>8, <1>9 DEF n

\* What an activation has copied when it goes past an item, a form, the last form.
LEMMA KeptToIs ==
    ASSUME IInv, NEW k \in DOMAIN nest, NEW p, p = nest[k].path, NEW fr \in Frames, fr.path = p
    PROVE  /\ p \in Read
           /\ \A i, j : <<i, j>> \in KeptTo(fr) <=> <<i, j>> \in Kept(p) /\ (i < fr.form \/ (i = fr.form /\ j \in 1..fr.at - 1))
           /\ \A x \in KeptTo(fr) : x = <<x[1], x[2]>> /\ x \in Kept(p)
<1>1. p \in Read
  BY FrameIs
<1>2. \A x \in Kept(p) : x = <<x[1], x[2]>>
  BY <1>1, KeptIs
<1>3. KeptTo(fr) = {x \in Kept(p) : x[1] < fr.form \/ (x[1] = fr.form /\ x[2] \in 1..fr.at - 1)}
  BY DEF KeptTo
<1>4. \A i, j : <<i, j>>[1] = i /\ <<i, j>>[2] = j
  OBVIOUS
<1> QED BY <1>1, <1>2, <1>3, <1>4

\* One item further.
LEMMA PastItem ==
    ASSUME IInv, NEW k \in DOMAIN nest, NEW fr \in Frames,
           fr.path = nest[k].path, fr.form = nest[k].form, fr.at = nest[k].at + 1,
           nest[k].form \in Entered(nest[k].path), nest[k].at \in DOMAIN ItemsOf(nest[k].path, nest[k].form),
           NEW x, x = ItemsOf(nest[k].path, nest[k].form)[nest[k].at]
    PROVE  /\ x.kind = "other" => /\ KeptTo(fr) = KeptTo(nest[k]) \cup {<<nest[k].form, nest[k].at>>}
                                  /\ <<nest[k].form, nest[k].at>> \notin KeptTo(nest[k])
           /\ x.kind # "other" => KeptTo(fr) = KeptTo(nest[k])
<1> DEFINE p == nest[k].path
           f == nest[k].form
           a == nest[k].at
           new == <<f, a>>
           Old(i, j) == i < f \/ (i = f /\ j \in 1..a - 1)
           Now(i, j) == i < f \/ (i = f /\ j \in 1..a)
<1>1. p \in Read /\ nest[k] \in Frames /\ f \in Nat \ {0} /\ a \in Nat \ {0}
  BY FrameIs
<1>2. /\ \A i, j : <<i, j>> \in KeptTo(fr) <=> <<i, j>> \in Kept(p) /\ Now(i, j)
      /\ \A y \in KeptTo(fr) : y = <<y[1], y[2]>>
  <2>1. (a + 1) - 1 = a
    BY <1>1
  <2> QED BY <2>1, KeptToIs
<1>3. /\ \A i, j : <<i, j>> \in KeptTo(nest[k]) <=> <<i, j>> \in Kept(p) /\ Old(i, j)
      /\ \A y \in KeptTo(nest[k]) : y = <<y[1], y[2]>>
  BY <1>1, KeptToIs
<1>4. \A i, j : <<i, j>> \in Kept(p) => i \in Nat \ {0} /\ j \in Nat
  <2>1. \A y \in Kept(p) : y[1] \in Nat \ {0} /\ y[2] \in Nat
    BY <1>1, KeptIs
  <2>2. \A i, j : <<i, j>>[1] = i /\ <<i, j>>[2] = j
    OBVIOUS
  <2> QED BY <2>1, <2>2
<1>5. new \in Kept(p) <=> x.kind = "other"
  <2>1. \A i, j : <<i, j>> \in Kept(p) <=>
            \/ i \in Entered(p) /\ j \in DOMAIN ItemsOf(p, i) /\ ItemsOf(p, i)[j].kind = "other"
            \/ i \in DOMAIN FormsOf(p) /\ i \notin Entered(p) /\ j = 0
    BY <1>1, KeptIs
  <2> HIDE DEF p
  <2> QED BY <2>1 DEF p
<1>6. \A i, j : j \in Nat => (Now(i, j) <=> Old(i, j) \/ (i = f /\ j = a))
  <2>1. \A j \in Nat : j \in 1..a <=> j \in 1..a - 1 \/ j = a
    BY <1>1
  <2> HIDE DEF a
  <2> QED BY <2>1
<1>7. \A i, j : <<i, j>> = new <=> i = f /\ j = a
  OBVIOUS
<1>8. ~Old(f, a)
  BY <1>1
<1> HIDE DEF Old, Now, new, p, f, a
<1>9. \A i, j : <<i, j>> \in KeptTo(fr) <=> <<i, j>> \in KeptTo(nest[k]) \/ (<<i, j>> = new /\ x.kind = "other")
  <2>1. \A i, j : <<i, j>> \in KeptTo(fr) <=> <<i, j>> \in Kept(p) /\ (Old(i, j) \/ (i = f /\ j = a))
    <3> SUFFICES ASSUME NEW i, NEW j
                 PROVE  <<i, j>> \in KeptTo(fr) <=> <<i, j>> \in Kept(p) /\ (Old(i, j) \/ (i = f /\ j = a))
      OBVIOUS
    <3>1. <<i, j>> \in KeptTo(fr) <=> <<i, j>> \in Kept(p) /\ Now(i, j)
      BY <1>2
    <3>2. <<i, j>> \in Kept(p) => (Now(i, j) <=> Old(i, j) \/ (i = f /\ j = a))
      BY <1>4, <1>6
    <3> QED BY <3>1, <3>2
  <2>2. \A i, j : <<i, j>> \in Kept(p) /\ i = f /\ j = a <=> <<i, j>> = new /\ x.kind = "other"
    BY <1>5, <1>7
  <2> SUFFICES ASSUME NEW i, NEW j
               PROVE  <<i, j>> \in KeptTo(fr) <=> <<i, j>> \in KeptTo(nest[k]) \/ (<<i, j>> = new /\ x.kind = "other")
    OBVIOUS
  <2>3. <<i, j>> \in KeptTo(nest[k]) <=> <<i, j>> \in Kept(p) /\ Old(i, j)
    BY <1>3
  <2> QED BY <2>1, <2>2, <2>3
<1>10. new \notin KeptTo(nest[k]) /\ new = <<f, a>>
  BY <1>3, <1>8 DEF new
<1>11. \A y : y \in KeptTo(fr) <=> y \in KeptTo(nest[k]) \/ (y = new /\ x.kind = "other")
  BY <1>2, <1>3, <1>9, <1>10
<1>12. CASE x.kind = "other"
  <2>1. KeptTo(fr) = KeptTo(nest[k]) \cup {new}
    BY <1>11, <1>12
  <2> QED BY <1>10, <1>12, <2>1 DEF new, f, a
<1>13. CASE x.kind # "other"
  BY <1>11, <1>13
<1> QED BY <1>12, <1>13

\* One form further.
LEMMA PastForm ==
    ASSUME IInv, NEW k \in DOMAIN nest, NEW fr \in Frames,
           fr.path = nest[k].path, fr.form = nest[k].form + 1, fr.at = 1,
           nest[k].form \in DOMAIN FormsOf(nest[k].path),
           nest[k].form \in Entered(nest[k].path) =>
               nest[k].at \notin DOMAIN ItemsOf(nest[k].path, nest[k].form)
    PROVE  /\ nest[k].form \notin Entered(nest[k].path) =>
                  /\ KeptTo(fr) = KeptTo(nest[k]) \cup {<<nest[k].form, 0>>}
                  /\ <<nest[k].form, 0>> \notin KeptTo(nest[k])
           /\ nest[k].form \in Entered(nest[k].path) => KeptTo(fr) = KeptTo(nest[k])
<1> DEFINE p == nest[k].path
           f == nest[k].form
           a == nest[k].at
           new == <<f, 0>>
           Old(i, j) == i < f \/ (i = f /\ j \in 1..a - 1)
<1>1. p \in Read /\ nest[k] \in Frames /\ f \in Nat \ {0} /\ a \in Nat \ {0}
  BY FrameIs
<1>2. /\ \A i, j : <<i, j>> \in KeptTo(fr) <=> <<i, j>> \in Kept(p) /\ (i < f + 1 \/ (i = f + 1 /\ j \in 1..0))
      /\ \A y \in KeptTo(fr) : y = <<y[1], y[2]>>
  <2>1. 1 - 1 = 0
    OBVIOUS
  <2> QED BY <2>1, KeptToIs
<1>3. /\ \A i, j : <<i, j>> \in KeptTo(nest[k]) <=> <<i, j>> \in Kept(p) /\ Old(i, j)
      /\ \A y \in KeptTo(nest[k]) : y = <<y[1], y[2]>>
  BY <1>1, KeptToIs
<1>4. \A i, j : <<i, j>> \in Kept(p) => i \in Nat \ {0} /\ j \in Nat
  <2>1. \A y \in Kept(p) : y[1] \in Nat \ {0} /\ y[2] \in Nat
    BY <1>1, KeptIs
  <2>2. \A i, j : <<i, j>>[1] = i /\ <<i, j>>[2] = j
    OBVIOUS
  <2> QED BY <2>1, <2>2
<1>5. \A j : <<f, j>> \in Kept(p) <=>
            \/ f \in Entered(p) /\ j \in DOMAIN ItemsOf(p, f) /\ ItemsOf(p, f)[j].kind = "other"
            \/ f \notin Entered(p) /\ j = 0
  <2>1. \A i, j : <<i, j>> \in Kept(p) <=>
            \/ i \in Entered(p) /\ j \in DOMAIN ItemsOf(p, i) /\ ItemsOf(p, i)[j].kind = "other"
            \/ i \in DOMAIN FormsOf(p) /\ i \notin Entered(p) /\ j = 0
    BY <1>1, KeptIs
  <2> QED BY <2>1
<1>6. ASSUME f \in Entered(p), NEW j \in DOMAIN ItemsOf(p, f) PROVE j \in 1..a - 1
  <2> DEFINE s == ItemsOf(p, f)
  <2>1. s \in Seq(Items)
    BY <1>1, TextIs DEF IInv
  <2>2. j \in DOMAIN s /\ a \notin DOMAIN s
    BY <1>6
  <2> HIDE DEF s
  <2>3. DOMAIN s = 1..Len(s) /\ Len(s) \in Nat
    BY <2>1
  <2> HIDE DEF a
  <2> QED BY <1>1, <2>2, <2>3
<1>7. ~Old(f, 0) /\ \A j : Old(f, j) <=> j \in 1..a - 1
  BY <1>1
<1>8. \A i, j : i \in Nat \ {0} => ((i < f + 1 \/ (i = f + 1 /\ j \in 1..0)) <=> i < f \/ i = f)
  <2>1. \A j : j \notin 1..0
    OBVIOUS
  <2> HIDE DEF f
  <2> QED BY <1>1, <2>1
<1>9. \A i, j : <<i, j>> = new <=> i = f /\ j = 0
  OBVIOUS
<1>10. \A i, j : (i < f => Old(i, j)) /\ (Old(i, j) => i < f \/ i = f)
  OBVIOUS
<1> HIDE DEF Old, new, p, f, a
<1>11. \A i, j : <<i, j>> \in KeptTo(fr) <=> <<i, j>> \in KeptTo(nest[k]) \/ (<<i, j>> = new /\ f \notin Entered(p))
  <2>1. \A i, j : <<i, j>> \in KeptTo(fr) <=> <<i, j>> \in Kept(p) /\ (i < f \/ i = f)
    BY <1>2, <1>4, <1>8
  <2>2. \A j : <<f, j>> \in Kept(p) <=> (<<f, j>> \in Kept(p) /\ Old(f, j)) \/ (j = 0 /\ f \notin Entered(p))
    BY <1>5, <1>6, <1>7
  <2> QED BY <1>3, <1>9, <1>10, <2>1, <2>2
<1>12. new \notin KeptTo(nest[k]) /\ new = <<f, 0>>
  BY <1>3, <1>7 DEF new
<1>13. \A y : y \in KeptTo(fr) <=> y \in KeptTo(nest[k]) \/ (y = new /\ f \notin Entered(p))
  BY <1>2, <1>3, <1>11, <1>12
<1>14. CASE f \notin Entered(p)
  <2>1. KeptTo(fr) = KeptTo(nest[k]) \cup {new}
    BY <1>13, <1>14
  <2> QED BY <1>12, <1>14, <2>1 DEF new, f, p
<1>15. CASE f \in Entered(p)
  BY <1>13, <1>15 DEF f, p
<1> QED BY <1>14, <1>15 DEF f, p

\* At the end of a file.
LEMMA PastFile ==
    ASSUME IInv, Walking, ~InFile
    PROVE  KeptTo(Innermost) = Kept(Innermost.path)
<1> DEFINE m == Len(nest)
           p == Innermost.path
<1>1. m \in DOMAIN nest /\ Innermost = nest[m] /\ Innermost \in Frames /\ IsFrame(Innermost) /\ p \in Read /\ Innermost.form \in Nat \ {0}
  BY AtTop, FrameIs
<1>2. Innermost.form \notin DOMAIN FormsOf(p)
  BY <1>1, AtTop
<1>3. /\ Innermost.form \in 1..Len(FormsOf(p)) + 1
      /\ Len(FormsOf(p)) \in Nat /\ DOMAIN FormsOf(p) = 1..Len(FormsOf(p))
  BY <1>1, TextIs DEF IInv, IsFrame
<1>4. \A i \in DOMAIN FormsOf(p) : i < Innermost.form
  <2>1. CASE p = Root
    BY <1>1, <1>2, <2>1
  <2>2. CASE p # Root
    BY <1>2, <1>3, <2>2
  <2> QED BY <2>1, <2>2
<1>5. \A x \in Kept(p) : x[1] < Innermost.form
  BY <1>1, <1>4, KeptIs
<1> QED BY <1>5 DEF KeptTo

\* A step that goes on with an activation, counted.
LEMMA GoesCounted ==
    ASSUME IInv, SpliceInv, NEW m \in 1..Len(nest), Goes(m), NEW p, p = nest[m].path,
           IsFiniteSet(KeptTo(nest'[m])), Cardinality(CopiedOf(p))' = Cardinality(KeptTo(nest'[m])),
           \A q : q # p => CopiedOf(q)' = CopiedOf(q),
           \A k \in m + 1..Len(nest) : Tally(nest[k].path, Kept(nest[k].path))
    PROVE  SpliceInv'
<1> DEFINE n == Len(nest)
<1>1. /\ Len(nest') = m /\ DOMAIN nest' = 1..m /\ n \in Nat /\ DOMAIN nest = 1..n /\ m \in Nat /\ m \in 1..n
      /\ \A k \in 1..m : k \in 1..n /\ (k \in 1..m - 1 \/ k = m)
      /\ \A k \in 1..n : k \in 1..m \/ k \in m + 1..n
  BY DEF Goes, IInv, StackInv
<1>2. /\ source' = source /\ Read' = Read /\ nest'[m].path = p /\ \A k \in 1..m - 1 : nest'[k] = nest[k]
  BY DEF Goes
<1>3. \A q : Kept(q)' = Kept(q)
  BY <1>2, KeptStays
<1>4. \A k \in 1..m : KeptTo(nest[k])' = KeptTo(nest'[k])
  BY <1>3 DEF KeptTo
<1>5. \A k \in 1..n : k # m => nest[k].path # p
  BY <1>1 DEF IInv, NoPathTwice
<1>6. \A q : Cardinality(CopiedOf(q))' = Cardinality(CopiedOf(q)')
  OBVIOUS
<1> HIDE DEF n
<1>7. ASSUME NEW k \in 1..m PROVE Tally(nest[k].path, KeptTo(nest[k]))'
  <2>1. CASE k = m
    BY <1>2, <1>4, <2>1 DEF Tally
  <2>2. CASE k \in 1..m - 1
    <3>1. nest'[k] = nest[k] /\ nest[k].path # p /\ Tally(nest[k].path, KeptTo(nest[k]))
      BY <1>1, <1>2, <1>5, <2>2 DEF SpliceInv
    <3>2. CopiedOf(nest[k].path)' = CopiedOf(nest[k].path)
      <4>1. \A q : q = nest[k].path => CopiedOf(q)' = CopiedOf(q)
        BY <3>1
      <4> QED BY <3>1, <4>1 DEF CopiedOf
    <3> QED BY <1>4, <3>1, <3>2 DEF Tally
  <2> QED BY <1>1, <2>1, <2>2
<1>8. ASSUME NEW q \in Read PROVE OnStack(q)' \/ Tally(q, Kept(q))'
  <2>1. ASSUME NEW k \in 1..m, nest[k].path = q PROVE OnStack(q)'
    BY <1>1, <1>2, <2>1 DEF OnStack
  <2>2. ASSUME q # p, Tally(q, Kept(q)) PROVE Tally(q, Kept(q))'
    BY <1>3, <2>2 DEF Tally
  <2>3. CASE \E k \in 1..m : nest[k].path = q
    BY <2>1, <2>3
  <2>4. CASE \A k \in 1..m : nest[k].path # q
    <3>1. q # p
      BY <1>1, <2>4
    <3>2. Tally(q, Kept(q))
      <4>1. OnStack(q) => \E k \in m + 1..n : nest[k].path = q
        BY <1>1, <2>4 DEF OnStack
      <4> QED BY <4>1 DEF SpliceInv, n
    <3> QED BY <2>2, <3>1, <3>2
  <2> QED BY <2>3, <2>4
<1> QED BY <1>1, <1>2, <1>7, <1>8 DEF SpliceInv

\* What is copied.
LEMMA WhatIs ==
    /\ \A w \in Items : "module" \notin DOMAIN w /\ "kind" \in DOMAIN w
    /\ \A w \in Forms : "module" \in DOMAIN w /\ "kind" \notin DOMAIN w
BY DEF Items, Forms

Copy(w) == [what |-> w, path |-> Innermost.path, file |-> Innermost.file]

LEMMA CopyGrows ==
    ASSUME IInv, Walking, NEW w \in Items \cup Forms, Copied(w)
    PROVE  /\ out \in Seq(Copies) /\ Copy(w) \in Copies /\ out' = Append(out, Copy(w))
           /\ Copy(w).what = w /\ Copy(w).path = Innermost.path
           /\ \A q : Counted(Copy(w), q) <=> q = Innermost.path /\ (w \in Forms \/ w.kind = "other")
           /\ Lost(Copy(w)) <=> w \in Items /\ w.kind = "include" /\ Printable(w.path)
           /\ LostAt(Copy(w)) = ResolvePath(w.path, Dir(Innermost.path))
<1>1. Innermost.path \in Seq(Names) /\ Innermost.file \in Sources
  <2>1. Innermost.path \in Read /\ Innermost.file = File[Innermost.path]
    BY AtTop, FrameIs
  <2> QED BY <2>1, TextIs DEF IInv
<1>2. Copy(w) \in Copies /\ Copy(w).what = w /\ Copy(w).path = Innermost.path
  BY <1>1 DEF Copy, Copies
<1>3. out \in Seq(Copies) /\ out' = Append(out, Copy(w))
  BY DEF IInv, VarsInv, Copied, Copy
<1>4. \A q : Counted(Copy(w), q) <=> q = Innermost.path /\ (w \in Forms \/ w.kind = "other")
  BY <1>2, WhatIs DEF Counted
<1>5. Lost(Copy(w)) <=> w \in Items /\ w.kind = "include" /\ Printable(w.path)
  BY <1>2, WhatIs DEF Lost
<1>6. LostAt(Copy(w)) = ResolvePath(w.path, Dir(Innermost.path))
  BY <1>2 DEF LostAt
<1> QED BY <1>2, <1>3, <1>4, <1>5, <1>6

\* One more of it.
LEMMA OneMore ==
    ASSUME IInv, SpliceInv, Walking, Goes(Len(nest)), NEW new,
           KeptTo(nest'[Len(nest)]) = KeptTo(Innermost) \cup {new}, new \notin KeptTo(Innermost),
           NEW w \in Items \cup Forms, Copied(w), w \in Forms \/ w.kind = "other"
    PROVE  SpliceInv'
<1> DEFINE m == Len(nest)
           p == nest[m].path
           c == Copy(w)
<1>1. m \in DOMAIN nest /\ m \in 1..m /\ Innermost = nest[m] /\ m \in Nat /\ \A k : k \notin m + 1..m
  BY AtTop, FrameIs
<1>2. /\ out \in Seq(Copies) /\ c \in Copies /\ out' = Append(out, c)
      /\ \A q : Counted(c, q) <=> q = p
  BY <1>1, CopyGrows
<1>3. IsFiniteSet(KeptTo(Innermost)) /\ Cardinality(CopiedOf(p)) = Cardinality(KeptTo(Innermost))
  BY <1>1 DEF SpliceInv, Tally
<1> HIDE DEF c, m
<1>4. IsFiniteSet(KeptTo(nest'[m])) /\ Cardinality(KeptTo(nest'[m])) = Cardinality(KeptTo(Innermost)) + 1
  BY <1>3, FS_AddElement DEF m
<1>5. \A q : q = p => Cardinality(CopiedOf(q))' = Cardinality(CopiedOf(q)) + 1
  BY <1>2, OutGrows
<1>6. \A q : q # p => CopiedOf(q)' = CopiedOf(q)
  BY <1>2, OutGrows
<1>7. \A q : q = p => Cardinality(CopiedOf(q))' = Cardinality(KeptTo(nest'[m]))
  BY <1>3, <1>4, <1>5
<1> HIDE DEF p
<1>8. PICK q : q = p
  OBVIOUS
<1>9. SpliceInv'
  <2>1. m \in 1..Len(nest) /\ Goes(m) /\ q = nest[m].path /\ \A k \in m + 1..Len(nest) : FALSE
    BY <1>1, <1>8 DEF m, p
  <2>2. IsFiniteSet(KeptTo(nest'[m])) /\ Cardinality(CopiedOf(q))' = Cardinality(KeptTo(nest'[m]))
    BY <1>4, <1>7, <1>8
  <2>3. \A r : r # q => CopiedOf(r)' = CopiedOf(r)
    BY <1>6, <1>8
  <2> QED BY <2>1, <2>2, <2>3, GoesCounted
<1> QED BY <1>9

\* None more of it.
LEMMA NoneMore ==
    ASSUME IInv, SpliceInv, NEW m \in 1..Len(nest), Goes(m), KeptTo(nest'[m]) = KeptTo(nest[m]),
           \A q : CopiedOf(q)' = CopiedOf(q),
           \A k \in m + 1..Len(nest) : Tally(nest[k].path, Kept(nest[k].path))
    PROVE  SpliceInv'
<1>1. m \in DOMAIN nest
  BY DEF IInv, StackInv
<1>2. IsFiniteSet(KeptTo(nest[m])) /\ Cardinality(CopiedOf(nest[m].path)) = Cardinality(KeptTo(nest[m]))
  BY <1>1 DEF SpliceInv, Tally
<1>3. PICK q : q = nest[m].path
  OBVIOUS
<1>4. Cardinality(CopiedOf(q))' = Cardinality(KeptTo(nest'[m]))
  <2>1. CopiedOf(q)' = CopiedOf(q)
    OBVIOUS
  <2> QED BY <1>2, <1>3, <2>1
<1> QED BY <1>2, <1>3, <1>4, GoesCounted

LEMMA LostSame ==
    ASSUME LostInv, source' = source, visited' \ Read' = visited \ Read,
           \/ out' = out
           \/ \E c \in Copies : out \in Seq(Copies) /\ out' = Append(out, c) /\ ~Lost(c)
    PROVE  LostInv'
<1>1. \A p : LostOf(p)' = LostOf(p)
  <2>1. CASE out' = out
    BY <2>1 DEF LostOf, Lost, LostAt
  <2>2. CASE \E c \in Copies : out \in Seq(Copies) /\ out' = Append(out, c) /\ ~Lost(c)
    BY <2>2, OutGrows
  <2> QED BY <2>1, <2>2
<1>2. \A i \in DOMAIN out' : Lost(out'[i]) => LostAt(out'[i]) \in visited \ Read
  <2>1. CASE out' = out
    BY <2>1 DEF LostInv
  <2>2. CASE \E c \in Copies : out \in Seq(Copies) /\ out' = Append(out, c) /\ ~Lost(c)
    <3>1. PICK c \in Copies : out \in Seq(Copies) /\ out' = Append(out, c) /\ ~Lost(c)
      BY <2>2
    <3>2. /\ DOMAIN out' = DOMAIN out \cup {Len(out) + 1} /\ out'[Len(out) + 1] = c
          /\ \A i \in DOMAIN out : out'[i] = out[i]
      BY <3>1, OutGrows
    <3> QED BY <3>1, <3>2 DEF LostInv
  <2> QED BY <2>1, <2>2
<1>3. \A p \in visited \ Read : Cardinality(LostOf(p))' = 1
  <2>1. \A p : Cardinality(LostOf(p))' = Cardinality(LostOf(p))
    BY <1>1
  <2> QED BY <2>1 DEF LostInv
<1>4. \A i : Lost(out[i])' = Lost(out'[i]) /\ LostAt(out[i])' = LostAt(out'[i])
  BY DEF Lost, LostAt
<1>5. (visited \ Read)' = visited \ Read
  OBVIOUS
<1> QED BY <1>2, <1>3, <1>4, <1>5 DEF LostInv

\* The step past an item, at the top of the stack and below it.
LEMMA AheadIs ==
    ASSUME IInv, NEW s \in Seq(Frames), s # <<>>, Len(s) \in DOMAIN nest, s[Len(s)] = nest[Len(s)],
           NEW fr, fr = Stepped(s)[Len(s)],
           nest[Len(s)].form \in Entered(nest[Len(s)].path),
           nest[Len(s)].at \in DOMAIN ItemsOf(nest[Len(s)].path, nest[Len(s)].form),
           NEW x, x = ItemsOf(nest[Len(s)].path, nest[Len(s)].form)[nest[Len(s)].at]
    PROVE  /\ x.kind = "other" =>
                  /\ KeptTo(fr) = KeptTo(nest[Len(s)]) \cup {<<nest[Len(s)].form, nest[Len(s)].at>>}
                  /\ <<nest[Len(s)].form, nest[Len(s)].at>> \notin KeptTo(nest[Len(s)])
           /\ x.kind # "other" => KeptTo(fr) = KeptTo(nest[Len(s)])
<1> DEFINE m == Len(s)
<1>1. Stepped(s) \in Seq(Frames) /\ Len(Stepped(s)) = m /\ m \in 1..m /\ fr = [s[m] EXCEPT !.at = @ + 1]
  BY AdvancedIs
<1>2. fr \in Frames
  <2>1. PICK t : t = Stepped(s)
    OBVIOUS
  <2>2. t \in Seq(Frames) /\ Len(t) = m /\ fr = t[m]
    BY <1>1, <2>1
  <2>3. m \in DOMAIN t
    BY <1>1, <2>2
  <2> QED BY <2>2, <2>3
<1>3. s[m] = nest[m] /\ nest[m] \in Frames
  BY FrameIs
<1> HIDE DEF m
<1>4. fr.path = nest[m].path /\ fr.form = nest[m].form /\ fr.at = nest[m].at + 1
  BY <1>1, <1>3 DEF Frames
<1> QED BY <1>2, <1>4, PastItem DEF m

LEMMA TopAhead ==
    ASSUME IInv, Walking, InItems, nest' = Stepped(nest)
    PROVE  /\ Child.kind = "other" =>
                  /\ KeptTo(nest'[Len(nest)]) = KeptTo(Innermost) \cup {<<Innermost.form, Innermost.at>>}
                  /\ <<Innermost.form, Innermost.at>> \notin KeptTo(Innermost)
           /\ Child.kind # "other" => KeptTo(nest'[Len(nest)]) = KeptTo(Innermost)
<1>1. /\ nest \in Seq(Frames) /\ nest # <<>> /\ Len(nest) \in DOMAIN nest /\ Innermost = nest[Len(nest)]
      /\ Innermost.form \in Entered(Innermost.path) /\ Innermost.at \in DOMAIN ItemsOf(Innermost.path, Innermost.form)
      /\ Child = ItemsOf(Innermost.path, Innermost.form)[Innermost.at]
  BY AtTop, FrameIs
<1>2. PICK fr : fr = Stepped(nest)[Len(nest)]
  OBVIOUS
<1>3. PICK x : x = Child
  OBVIOUS
<1> QED BY <1>1, <1>2, <1>3, AheadIs

LEMMA TopPast ==
    ASSUME IInv, Walking, InFile, ~InItems, nest' = NextForm
    PROVE  /\ ~InForm => /\ KeptTo(nest'[Len(nest)]) = KeptTo(Innermost) \cup {<<Innermost.form, 0>>}
                         /\ <<Innermost.form, 0>> \notin KeptTo(Innermost)
           /\ InForm => KeptTo(nest'[Len(nest)]) = KeptTo(Innermost)
<1> DEFINE m == Len(nest)
<1>1. /\ m \in DOMAIN nest /\ Innermost = nest[m] /\ m \in 1..m /\ nest[m] \in Frames
      /\ InForm <=> Innermost.form \in Entered(Innermost.path)
      /\ Innermost.form \in DOMAIN FormsOf(Innermost.path)
      /\ InForm => Innermost.at \notin DOMAIN ItemsOf(Innermost.path, Innermost.form)
  BY AtTop, FrameIs
<1>2. NextForm \in Seq(Frames) /\ Len(NextForm) = m /\ NextForm[m] = [nest[m] EXCEPT !.form = @ + 1, !.at = 1]
  BY NextFormIs
<1>3. PICK fr : fr = NextForm[m]
  OBVIOUS
<1>4. fr \in Frames
  BY <1>1, <1>2, <1>3
<1> HIDE DEF m
<1>5. fr.path = nest[m].path /\ fr.form = nest[m].form + 1 /\ fr.at = 1
  BY <1>1, <1>2, <1>3 DEF Frames
<1>6. /\ nest[m].form \in DOMAIN FormsOf(nest[m].path)
      /\ nest[m].form \in Entered(nest[m].path) => nest[m].at \notin DOMAIN ItemsOf(nest[m].path, nest[m].form)
  BY <1>1
<1>7. /\ nest[m].form \notin Entered(nest[m].path) =>
             /\ KeptTo(fr) = KeptTo(nest[m]) \cup {<<nest[m].form, 0>>}
             /\ <<nest[m].form, 0>> \notin KeptTo(nest[m])
      /\ nest[m].form \in Entered(nest[m].path) => KeptTo(fr) = KeptTo(nest[m])
  BY <1>1, <1>4, <1>5, <1>6, PastForm
<1> QED BY <1>1, <1>3, <1>7 DEF m

LEMMA NothingNew == ASSUME out' = out PROVE \A q : CopiedOf(q)' = CopiedOf(q)
BY DEF CopiedOf

\* Of a step that goes on at the top of the stack, with nothing of the file copied.
LEMMA TopNoMore ==
    ASSUME IInv, SpliceInv, Walking, Goes(Len(nest)), KeptTo(nest'[Len(nest)]) = KeptTo(Innermost),
           \A q : CopiedOf(q)' = CopiedOf(q)
    PROVE  SpliceInv'
<1>1. Len(nest) \in DOMAIN nest /\ Len(nest) \in 1..Len(nest) /\ Innermost = nest[Len(nest)] /\ Len(nest) \in Nat
  BY AtTop, FrameIs
<1>2. \A k : k \notin Len(nest) + 1..Len(nest)
  BY <1>1
<1> QED BY <1>1, <1>2, NoneMore

\* A copied item that does not count.
LEMMA CopiedAside ==
    ASSUME IInv, Walking, NEW w \in Items, Copied(w), w.kind # "other"
    PROVE  \A q : CopiedOf(q)' = CopiedOf(q)
<1>1. out \in Seq(Copies) /\ Copy(w) \in Copies /\ out' = Append(out, Copy(w))
  BY CopyGrows
<1>2. w \notin Forms
  BY WhatIs
<1>3. \A q : ~Counted(Copy(w), q)
  BY <1>2, CopyGrows
<1>4. PICK c \in Copies : c = Copy(w)
  BY <1>1
<1> QED BY <1>1, <1>3, <1>4, OutGrows

\* The items of the walk.
LEMMA CopyItemCounted == ASSUME IInv, SpliceInv, LostInv, CopyItem PROVE SpliceInv' /\ LostInv'
<1>1. /\ Walking /\ InItems /\ Copied(Child) /\ nest' = Stepped(nest) /\ Child \in Items
      /\ source' = source /\ visited' = visited /\ stage' = stage
      /\ Child.kind \in {"other", "malformed"} \/ (Child.kind = "include" /\ ~Printable(Child.path))
  BY AtTop DEF CopyItem, Moves
<1>2. Read' = Read
  BY <1>1, ReadKept
<1>3. Goes(Len(nest))
  <2>1. Dealt(visited', Child, Innermost.path)
    BY <1>1 DEF Dealt, Leads
  <2> QED BY <1>1, <1>2, <2>1, ItemGoes
<1>4. PICK w \in Items : w = Child
  BY <1>1
<1>5. SpliceInv'
  <2>1. CASE w.kind = "other"
    BY <1>1, <1>3, <1>4, <2>1, TopAhead, OneMore
  <2>2. CASE w.kind # "other"
    <3>1. \A q : CopiedOf(q)' = CopiedOf(q)
      BY <1>1, <1>4, <2>2, CopiedAside
    <3> QED BY <1>1, <1>3, <1>4, <2>2, <3>1, TopAhead, TopNoMore
  <2> QED BY <2>1, <2>2
<1>6. LostInv'
  <2>1. out \in Seq(Copies) /\ Copy(w) \in Copies /\ out' = Append(out, Copy(w)) /\ ~Lost(Copy(w))
    BY <1>1, <1>4, CopyGrows
  <2> QED BY <1>1, <1>2, <2>1, LostSame
<1> QED BY <1>5, <1>6

LEMMA SkipEmptyCounted == ASSUME IInv, SpliceInv, LostInv, SkipEmpty PROVE SpliceInv' /\ LostInv'
<1>1. /\ Walking /\ InItems /\ nest' = Stepped(nest) /\ Child.kind = "empty"
      /\ source' = source /\ visited' = visited /\ stage' = stage /\ out' = out
  BY DEF SkipEmpty, Moves
<1>2. Read' = Read
  BY <1>1, ReadKept
<1>3. Goes(Len(nest))
  <2>1. Dealt(visited', Child, Innermost.path)
    BY <1>1 DEF Dealt, Leads
  <2> QED BY <1>1, <1>2, <2>1, ItemGoes
<1> QED BY <1>1, <1>2, <1>3, NothingNew, TopAhead, TopNoMore, LostSame

LEMMA IncludeAgainCounted == ASSUME IInv, SpliceInv, LostInv, IncludeAgain PROVE SpliceInv' /\ LostInv'
<1>1. /\ Walking /\ InItems /\ nest' = Stepped(nest) /\ Child.kind = "include"
      /\ source' = source /\ visited' = visited /\ stage' = stage /\ out' = out
  BY DEF IncludeAgain, Moves, Follows
<1>2. Read' = Read
  BY <1>1, ReadKept
<1>3. Goes(Len(nest))
  <2>1. Dealt(visited', Child, Innermost.path)
    BY <1>1, FollowedIs DEF IncludeAgain, Dealt
  <2> QED BY <1>1, <1>2, <2>1, ItemGoes
<1> QED BY <1>1, <1>2, <1>3, NothingNew, TopAhead, TopNoMore, LostSame

LEMMA IncludeMissingCounted == ASSUME IInv, SpliceInv, LostInv, IncludeLost PROVE SpliceInv' /\ LostInv'
<1>1. /\ Walking /\ InItems /\ nest' = Stepped(nest) /\ Copied(Child) /\ Child \in Items
      /\ Child.kind = "include" /\ Printable(Child.path) /\ Followed = ResolvePath(Child.path, Dir(Innermost.path))
      /\ source' = source /\ visited' = visited \cup {Followed} /\ stage' = stage
      /\ Followed \notin visited /\ File[Followed] = Missing
  BY FollowedIs DEF IncludeLost, Moves, Follows, Visited
<1>2. Read' = Read
  BY <1>1, ReadKept
<1>3. Goes(Len(nest))
  <2>1. Dealt(visited', Child, Innermost.path)
    BY <1>1, FollowedIs DEF IncludeLost, Dealt
  <2> QED BY <1>1, <1>2, <2>1, ItemGoes
<1>4. PICK w \in Items : w = Child
  BY <1>1
<1>5. SpliceInv'
  <2>1. \A q : CopiedOf(q)' = CopiedOf(q)
    BY <1>1, <1>4, CopiedAside
  <2> QED BY <1>1, <1>3, <1>4, <2>1, TopAhead, TopNoMore
<1>6. PICK c \in Copies : c = Copy(w)
  BY <1>1, <1>4, CopyGrows
<1>7. PICK g : g = Followed
  OBVIOUS
<1>8. out \in Seq(Copies) /\ out' = Append(out, c) /\ Lost(c) /\ LostAt(c) = g
  BY <1>1, <1>4, <1>6, <1>7, CopyGrows
<1>9. visited' \ Read' = (visited \ Read) \cup {g} /\ g \notin visited
  BY <1>1, <1>2, <1>7 DEF Read
<1>10. /\ DOMAIN out' = DOMAIN out \cup {Len(out) + 1} /\ out'[Len(out) + 1] = c
       /\ \A i \in DOMAIN out : out'[i] = out[i]
  BY <1>8, OutGrows
<1>11. \A i \in DOMAIN out' : Lost(out'[i]) => LostAt(out'[i]) \in visited' \ Read'
  BY <1>8, <1>9, <1>10 DEF LostInv
<1>12. \A p : p = g => Cardinality(LostOf(p))' = 1
  <2>1. LostOf(g) = {}
    BY <1>9 DEF LostInv, LostOf
  <2>2. \A p : p = g => LostOf(p)' = LostOf(p) \cup {Len(out) + 1}
    BY <1>8, OutGrows
  <2>3. \A p : p = g => LostOf(p)' = {Len(out) + 1}
    BY <2>1, <2>2
  <2>4. \A x : Cardinality({x}) = 1
    BY FS_Singleton
  <2>5. \A p : p = g => Cardinality(LostOf(p)') = 1
    BY <2>3, <2>4
  <2> QED BY <2>5
<1>13. \A p : p # g => LostOf(p)' = LostOf(p)
  BY <1>8, OutGrows
<1>14. \A p \in visited \ Read : Cardinality(LostOf(p))' = 1
  <2>1. \A p : p # g => Cardinality(LostOf(p))' = Cardinality(LostOf(p))
    BY <1>13
  <2> QED BY <1>12, <2>1 DEF LostInv
<1>15. LostInv'
  <2>1. \A i : Lost(out[i])' = Lost(out'[i]) /\ LostAt(out[i])' = LostAt(out'[i])
    BY DEF Lost, LostAt
  <2>2. (visited \ Read)' = (visited \ Read) \cup {g}
    BY <1>9
  <2>3. \A p \in (visited \ Read)' : Cardinality(LostOf(p))' = 1
    BY <1>12, <1>14, <2>2
  <2> QED BY <1>9, <1>11, <2>1, <2>2, <2>3 DEF LostInv
<1> QED BY <1>5, <1>15

\* The forms of a file.
LEMMA EndModuleCounted == ASSUME IInv, SpliceInv, LostInv, EndForm PROVE SpliceInv' /\ LostInv'
<1>1. /\ Walking /\ InFile /\ InForm /\ ~InItems /\ nest' = NextForm
      /\ source' = source /\ visited' = visited /\ stage' = stage /\ out' = out
  BY DEF EndForm, Moves, InForm
<1>2. Read' = Read /\ Goes(Len(nest))
  BY <1>1, ReadKept, FormGoes
<1> QED BY <1>1, <1>2, NothingNew, TopPast, TopNoMore, LostSame

LEMMA CopyFormCounted == ASSUME IInv, SpliceInv, LostInv, CopyForm PROVE SpliceInv' /\ LostInv'
<1>1. /\ Walking /\ InFile /\ ~InForm /\ ~InItems /\ nest' = NextForm /\ Copied(Form) /\ Form \in Forms
      /\ source' = source /\ visited' = visited /\ stage' = stage
  BY AtTop DEF CopyForm, Moves, InItems
<1>2. Read' = Read /\ Goes(Len(nest))
  BY <1>1, ReadKept, FormGoes
<1>3. PICK w \in Forms : w = Form
  BY <1>1
<1>4. SpliceInv'
  BY <1>1, <1>2, <1>3, TopPast, OneMore
<1>5. LostInv'
  <2>1. out \in Seq(Copies) /\ Copy(w) \in Copies /\ out' = Append(out, Copy(w)) /\ w \notin Items /\ ~Lost(Copy(w))
    BY <1>1, <1>3, CopyGrows, WhatIs
  <2> QED BY <1>1, <1>2, <2>1, LostSame
<1> QED BY <1>4, <1>5

\* The end of a file: that of another goes on, or the walk is over.
LEMMA EndFileCounted ==
    ASSUME IInv, SpliceInv, LostInv, EndForms, Len(nest) # 1
    PROVE  SpliceInv' /\ LostInv'
<1> DEFINE n == Len(nest)
           s == Front(nest)
           m == Len(s)
<1>1. /\ Walking /\ ~InFile /\ nest' = Stepped(s)
      /\ source' = source /\ visited' = visited /\ stage' = stage /\ out' = out
  BY DEF EndForms, Moves
<1>2. /\ n \in DOMAIN nest /\ n \in Nat \ {0} /\ n # 1 /\ nest \in Seq(Frames) /\ nest # <<>>
      /\ DOMAIN nest = 1..n /\ Innermost = nest[n]
  BY <1>1, AtTop, FrameIs
<1>3. s \in Seq(Frames) /\ m = n - 1 /\ \A k \in 1..n - 1 : s[k] = nest[k]
  BY <1>2, FrontIs
<1>4. m \in Nat \ {0} /\ m \in 1..n - 1 /\ m \in DOMAIN nest /\ s[m] = nest[m] /\ n = m + 1 /\ s # <<>>
  BY <1>2, <1>3
<1>5. Waits(nest[m], nest[m + 1])
  <2>1. \A k \in 1..n - 1 : Waits(nest[k], nest[k + 1])
    BY DEF IInv, StackInv
  <2> HIDE DEF m
  <2> QED BY <1>4, <2>1
<1>6. m \in 1..Len(nest) /\ Goes(m)
  BY <1>2, <1>3, EndFileGoes
<1> HIDE DEF n, m, s
<1>7. PICK x : x = ItemsOf(nest[m].path, nest[m].form)[nest[m].at]
  OBVIOUS
<1>8. /\ nest[m].form \in Entered(nest[m].path) /\ nest[m].at \in DOMAIN ItemsOf(nest[m].path, nest[m].form)
      /\ x.kind # "other"
  BY <1>5, <1>7 DEF Waits, Leads
<1>9. PICK fr : fr = Stepped(s)[m]
  OBVIOUS
<1>10. KeptTo(nest'[m]) = KeptTo(nest[m])
  <2>1. KeptTo(fr) = KeptTo(nest[m])
    BY <1>3, <1>4, <1>7, <1>8, <1>9, AheadIs DEF m
  <2> QED BY <1>1, <1>9, <2>1
<1>11. \A k \in m + 1..Len(nest) : Tally(nest[k].path, Kept(nest[k].path))
  <2>1. \A k \in m + 1..Len(nest) : k = n
    BY <1>2, <1>4 DEF n
  <2>2. Tally(nest[n].path, KeptTo(nest[n])) /\ KeptTo(nest[n]) = Kept(nest[n].path)
    BY <1>1, <1>2, PastFile DEF SpliceInv
  <2> QED BY <2>1, <2>2
<1>12. SpliceInv'
  BY <1>1, <1>6, <1>10, <1>11, NothingNew, NoneMore
<1>13. LostInv'
  BY <1>1, ReadKept, LostSame
<1> QED BY <1>12, <1>13

LEMMA CountsStay ==
    ASSUME SpliceInv, LostInv, UNCHANGED <<source, nest, visited, out>>
    PROVE  SpliceInv' /\ LostInv'
<1>1. Read' = Read /\ File' = File
  BY ReadKept, FileKept
<1>2. \A p : Kept(p)' = Kept(p)
  BY KeptStays
<1>3. \A p : CopiedOf(p)' = CopiedOf(p)
  BY NothingNew
<1>4. \A k : KeptTo(nest[k])' = KeptTo(nest[k])
  BY <1>2 DEF KeptTo
<1>5. \A k : Tally(nest[k].path, KeptTo(nest[k]))' = Tally(nest[k].path, KeptTo(nest[k]))
  <2>1. \A k : CopiedOf(nest[k].path)' = CopiedOf(nest[k].path)
    BY DEF CopiedOf
  <2> QED BY <1>4, <2>1 DEF Tally
<1>6. \A p : Tally(p, Kept(p))' = Tally(p, Kept(p)) /\ OnStack(p)' = OnStack(p)
  BY <1>2, <1>3 DEF Tally, OnStack
<1>7. SpliceInv'
  BY <1>1, <1>5, <1>6 DEF SpliceInv
<1> QED BY <1>1, <1>7, LostSame

LEMMA AllCounted ==
    ASSUME IInv, SpliceInv, EndForms, Len(nest) = 1
    PROVE  \A p \in Read : Cardinality(CopiedOf(p)) = Cardinality(Kept(p))
<1>1. Walking /\ ~InFile
  BY DEF EndForms
<1>2. Len(nest) \in DOMAIN nest /\ Innermost = nest[1] /\ DOMAIN nest = 1..1 /\ KeptTo(Innermost) = Kept(Innermost.path)
  BY <1>1, AtTop, FrameIs, PastFile
<1>3. Tally(Innermost.path, Kept(Innermost.path))
  BY <1>2 DEF SpliceInv
<1>4. ASSUME NEW p \in Read PROVE Tally(p, Kept(p))
  <2>1. OnStack(p) => p = Innermost.path
    BY <1>2 DEF OnStack
  <2> QED BY <1>3, <2>1 DEF SpliceInv
<1> QED BY <1>4 DEF Tally

\* The first of a file.
LEMMA BeginsCounted ==
    ASSUME IInv, SpliceInv, LostInv, NEW p, Begins(p, nest), out' = out
    PROVE  SpliceInv' /\ LostInv'
<1> DEFINE n == Len(nest)
           fr == Expansion(p)
<1>1. /\ File' = File /\ Read' = Read \cup {p} /\ p \notin Read /\ source' = source
      /\ visited' = visited \cup {p} /\ p \in Seq(Names) /\ File[p] # Missing /\ nest' = Append(nest, fr)
  BY FileKept, BeginsRead DEF Begins
<1>2. nest \in Seq(Frames) /\ n \in Nat /\ DOMAIN nest = 1..n
  BY DEF IInv, StackInv
<1>3. DOMAIN nest' = 1..n + 1 /\ nest'[n + 1] = fr /\ \A k \in 1..n : nest'[k] = nest[k]
  <2> HIDE DEF fr
  <2> QED BY <1>1, <1>2
<1>4. fr.path = p /\ fr.form = 1 /\ fr.at = 1
  BY DEF Expansion
<1> HIDE DEF fr, n
<1>5. \A q : Kept(q)' = Kept(q) /\ CopiedOf(q)' = CopiedOf(q)
  BY <1>1, NothingNew, KeptStays
<1>6. CopiedOf(p) = {}
  <2>1. \A i \in DOMAIN out : out[i].path # p
    BY <1>1 DEF IInv, VarsInv
  <2> QED BY <2>1 DEF CopiedOf
<1>7. KeptTo(fr) = {}
  <2>1. \A x \in Kept(p) : x[1] \in Nat \ {0}
    <3>1. \A i \in DOMAIN FormsOf(p) : i \in Nat \ {0}
      BY <1>1, TextOf DEF IInv
    <3>2. \A i : \A x \in {i} \X KeptIn(p, i) : x[1] = i
      OBVIOUS
    <3> QED BY <3>1, <3>2 DEF Kept
  <2>2. \A j : j \notin 1..1 - 1
    OBVIOUS
  <2>3. \A i \in Nat \ {0} : ~(i < 1)
    OBVIOUS
  <2> QED BY <1>4, <2>1, <2>2, <2>3 DEF KeptTo
<1>8. \A k \in 1..n + 1 : KeptTo(nest[k])' = KeptTo(nest'[k])
  BY <1>5 DEF KeptTo
<1>9. ASSUME NEW k \in 1..n + 1 PROVE Tally(nest[k].path, KeptTo(nest[k]))'
  <2>1. CASE k = n + 1
    <3>1. KeptTo(nest[k])' = {} /\ nest'[k].path = p
      BY <1>3, <1>4, <1>7, <1>8, <2>1
    <3>2. CopiedOf(nest[k].path)' = {}
      <4>1. \A q : q = p => CopiedOf(q)' = {}
        BY <1>5, <1>6
      <4> QED BY <3>1, <4>1 DEF CopiedOf
    <3>3. IsFiniteSet({})
      BY FS_EmptySet
    <3> QED BY <3>1, <3>2, <3>3 DEF Tally
  <2>2. CASE k \in 1..n
    <3>1. nest'[k] = nest[k] /\ Tally(nest[k].path, KeptTo(nest[k]))
      BY <1>2, <1>3, <2>2 DEF SpliceInv
    <3>2. CopiedOf(nest[k].path)' = CopiedOf(nest[k].path)
      <4>1. \A q : q = nest[k].path => CopiedOf(q)' = CopiedOf(q)
        BY <1>5
      <4> QED BY <3>1, <4>1 DEF CopiedOf
    <3> QED BY <1>8, <3>1, <3>2 DEF Tally
  <2>3. k \in 1..n \/ k = n + 1
    BY <1>2
  <2> QED BY <2>1, <2>2, <2>3
<1>10. ASSUME NEW q \in Read \cup {p} PROVE OnStack(q)' \/ Tally(q, Kept(q))'
  <2>1. CASE q = p
    <3>1. n + 1 \in 1..n + 1
      BY <1>2
    <3> QED BY <1>3, <1>4, <2>1, <3>1 DEF OnStack
  <2>2. CASE q \in Read /\ OnStack(q)
    <3>1. \A k \in 1..n : k \in 1..n + 1
      BY <1>2
    <3> QED BY <1>2, <1>3, <2>2, <3>1 DEF OnStack
  <2>3. CASE q \in Read /\ Tally(q, Kept(q))
    BY <1>5, <2>3 DEF Tally
  <2> QED BY <2>1, <2>2, <2>3 DEF SpliceInv
<1>11. SpliceInv'
  BY <1>1, <1>3, <1>9, <1>10 DEF SpliceInv
<1>12. visited' \ Read' = visited \ Read
  BY <1>1 DEF Begins
<1> QED BY <1>1, <1>11, <1>12, LostSame

LEMMA CountInit == ASSUME ExpandInit PROVE CountInv
<1>1. nest = <<>> /\ visited = {} /\ out = <<>> /\ stage = "starting" /\ DOMAIN nest = {} /\ DOMAIN out = {} /\ Read = {}
  BY DEF ExpandInit, Read
<1> QED BY <1>1 DEF CountInv, SpliceInv, LostInv, SplicedOnce

LEMMA StepCounted == ASSUME IInv, CountInv, [ExpandNext]_expandVars PROVE SpliceInv' /\ LostInv'
<1> USE DEF CountInv
<1>1. CASE Begin
  <2>1. CASE File[Root] = Missing
    <3>1. UNCHANGED <<source, nest, visited, out>>
      BY <1>1, <2>1 DEF Begin
    <3> QED BY <3>1, CountsStay
  <2>2. CASE File[Root] # Missing
    <3>1. /\ stage = "starting" /\ source' = source /\ out' = out /\ nest = <<>> /\ visited = {}
          /\ stage' = "walking" /\ nest' = <<Expansion(Root)>> /\ visited' = {Root}
      BY <1>1, <2>2 DEF Begin, IInv, StackInv
    <3>2. nest' = Append(nest, Expansion(Root)) /\ visited' = visited \cup {Root} /\ Root \notin visited
      BY <3>1
    <3>3. Begins(Root, nest)
      BY <2>2, <3>1, <3>2, ExpandAssumption DEF Begins
    <3> QED BY <3>1, <3>3, BeginsCounted
  <2> QED BY <2>1, <2>2
<1>2. CASE CopyItem
  BY <1>2, CopyItemCounted
<1>3. CASE SkipEmpty
  BY <1>3, SkipEmptyCounted
<1>4. CASE IncludeError
  BY <1>4, CountsStay DEF IncludeError
<1>5. CASE IncludeAgain
  BY <1>5, IncludeAgainCounted
<1>6. CASE IncludeLost
  BY <1>6, IncludeMissingCounted
<1>7. CASE IncludeFollowed
  <2>1. out' = out
    BY <1>7 DEF IncludeFollowed
  <2> QED BY <1>7, <2>1, IncludeNewSound, BeginsCounted
<1>8. CASE EndForm
  BY <1>8, EndModuleCounted
<1>9. CASE CopyForm
  BY <1>9, CopyFormCounted
<1>10. CASE EndForms
  <2>1. CASE Len(nest) = 1
    BY <1>10, <2>1, CountsStay DEF EndForms
  <2>2. CASE Len(nest) # 1
    BY <1>10, <2>2, EndFileCounted
  <2> QED BY <2>1, <2>2
<1>11. CASE UNCHANGED expandVars
  BY <1>11, CountsStay DEF expandVars
<1> QED
  BY <1>1, <1>2, <1>3, <1>4, <1>5, <1>6, <1>7, <1>8, <1>9, <1>10, <1>11 DEF ExpandNext

AllSpliced == \A p \in Read : OnePath(p) => Cardinality(CopiedOf(p)) = Cardinality(Kept(p))
LEMMA SplicedIs == SplicedOnce <=> (stage = "done" => AllSpliced)
BY DEF SplicedOnce, AllSpliced
LEMMA SplicedIsNext == (SplicedOnce <=> (stage = "done" => AllSpliced))'
BY SplicedIs, PTL

LEMMA SplicedStays ==
    ASSUME UNCHANGED <<source, visited, out>>, AllSpliced
    PROVE  AllSpliced'
<1>1. Read' = Read /\ File' = File
  BY ReadKept, FileKept
<1>2. \A p : Kept(p)' = Kept(p) /\ CopiedOf(p)' = CopiedOf(p)
  BY <1>1, NothingNew, KeptStays
<1>3. \A p : OnePath(p)' = OnePath(p)
  BY <1>1 DEF OnePath
<1> QED BY <1>1, <1>2, <1>3 DEF AllSpliced

LEMMA CountStep == ASSUME IInv, CountInv, [ExpandNext]_expandVars PROVE CountInv'
<1>1. SpliceInv' /\ LostInv'
  BY StepCounted
<1>2. AllSpliced' \/ stage' # "done" => SplicedOnce'
  BY SplicedIsNext
<1>3. CASE EndForms /\ Len(nest) = 1
  <2>1. AllSpliced
    BY <1>3, AllCounted DEF CountInv, AllSpliced
  <2>2. UNCHANGED <<source, visited, out>>
    BY <1>3 DEF EndForms
  <2> QED BY <1>1, <1>2, <2>1, <2>2, SplicedStays DEF CountInv
<1>4. CASE UNCHANGED expandVars
  <2>1. UNCHANGED <<source, visited, out>> /\ stage' = stage
    BY <1>4 DEF expandVars
  <2>2. stage = "done" => AllSpliced
    BY SplicedIs DEF CountInv
  <2> QED BY <1>1, <1>2, <2>1, <2>2, SplicedStays DEF CountInv
<1>5. CASE ExpandNext /\ ~(EndForms /\ Len(nest) = 1)
  <2>1. stage' # "done"
    <3>1. CASE Begin
      BY <3>1 DEF Begin
    <3>2. CASE EndForms
      BY <1>5, <3>2 DEF EndForms, Walking
    <3>3. CASE IncludeError
      BY <3>3 DEF IncludeError
    <3>4. CASE stage = "walking" /\ stage' = stage
      BY <3>4
    <3> QED
      BY <1>5, <3>1, <3>2, <3>3, <3>4 DEF ExpandNext, CopyItem, SkipEmpty, IncludeAgain, IncludeLost, IncludeFollowed,
                EndForm, CopyForm, Walking, Follows
  <2> QED BY <1>1, <1>2, <2>1 DEF CountInv
<1> QED BY <1>3, <1>4, <1>5

\* Whatever the files contain, however they include each other and by whatever spellings:
\* when the walk is over a file that was followed under one path has given the new program
\* as many nodes as it has to give, counted one by one as the walk goes past them, and
\* each include that leads nowhere is left in it exactly once
\* (include_expand.weave:329-374).
THEOREM Expanded == ExpandSpec => []ExpandedOnce
<1>1. ExpandInit => CountInv
  BY CountInit
<1>2. IInv /\ CountInv /\ [ExpandNext]_expandVars => CountInv'
  BY CountStep
<1>3. CountInv => ExpandedOnce
  <2>1. \A p : LostOf(p) = {i \in DOMAIN out :
                /\ "kind" \in DOMAIN out[i].what /\ out[i].what.kind = "include" /\ Printable(out[i].what.path)
                /\ ResolvePath(out[i].what.path, Dir(out[i].path)) = p}
    BY DEF LostOf, Lost, LostAt
  <2> QED BY <2>1 DEF CountInv, LostInv, ExpandedOnce, MissingKept
<1> QED BY <1>1, <1>2, <1>3, Inductive, PTL DEF ExpandSpec

=============================================================================
