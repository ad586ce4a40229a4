----------------------------- MODULE GoodsProofs -----------------------------
(***************************************************************************)
(* What is proved of what characters have, for any schemas, calls and      *)
(* writers.                                                                *)
(*                                                                         *)
(* Of the gear: the types; that no two stacks are in one slot (SlotInv);   *)
(* that stats follow what is worn; and that copies are conserved.  The     *)
(* last two are about whole calls, and a call is known by what it still    *)
(* executes: each Phase says which statements those are and by which       *)
(* deltas the stats are off (StatInv), and ItemInv which copy is worn and  *)
(* carried at once, or neither.  One lemma per statement says where it     *)
(* leads (Lands...) and what it leaves of the copies (Settles...).  That   *)
(* the deltas of what is worn add up is an induction over the slots, by a  *)
(* smallest set that would not.                                            *)
(*                                                                         *)
(* Of the tables: no stack or balance is negative, what a transaction      *)
(* checked is still there when it consumes it, and a commit changes every  *)
(* row by exactly what the call says.  The argument is one process at a    *)
(* time: what a process knows of the rows (Knows) is about its own view    *)
(* and the rows it has locked, and no other's step can disturb either      *)
(* (StepOf).                                                               *)
(***************************************************************************)
EXTENDS Goods, FiniteSetTheorems, SequenceTheorems, TLAPS

\* What wearing this item, or nothing, adds to a stat.
Worth(x, k) == IF x # None /\ k \in DOMAIN Deltas(x) THEN Deltas(x)[k] ELSE 0

\* A set of numbers that is not empty has a least one: what an induction over data
\* needs, in first-order terms.
LEMMA Least ==
    ASSUME NEW B, B \subseteq Nat, B # {}
    PROVE  \E m \in B : \A n \in B : m <= n
<1>1. \E m \in B : \A n \in B : <<n, m>> \notin OpToRel(<, Nat)
  BY NatLessThanWellFounded, WFMin
<1>2. \A n, m \in Nat : n < m => <<n, m>> \in OpToRel(<, Nat)
  BY DEF OpToRel
<1>3. \A n, m \in Nat : ~ (n < m) => m <= n
  OBVIOUS
<1> QED
  BY <1>1, <1>2, <1>3

\* Among subsets of a finite set there is one with no smaller one beside it.
LEMMA SmallestSet ==
    ASSUME NEW S, IsFiniteSet(S), NEW B, B \subseteq SUBSET S, B # {}
    PROVE  \E s \in B : \A t \in B : t \subseteq s => t = s
<1>1. B \subseteq FiniteSubsetsOf(S)
  BY FS_Subset DEF FiniteSubsetsOf
<1>2. \E s \in B : \A t \in B : <<t, s>> \notin StrictSubsetOrdering(S)
  BY <1>1, FS_StrictSubsetOrderingWellFounded, WFMin
<1> QED
  BY <1>2 DEF StrictSubsetOrdering

\* The equation of a sum over subsets of S, at one of them.
One(s) == CHOOSE x \in s : TRUE
Sums(f, v, s) == IF s = {} THEN 0 ELSE v[One(s)] + f[s \ {One(s)}]

AddsUp(f, v, S) == \A s \in SUBSET S : f[s] = Sums(f, v, s)

\* It has a solution.
LEMMA SumExists ==
    ASSUME NEW S, IsFiniteSet(S), NEW v
    PROVE  \E f : f = [s \in SUBSET S |-> Sums(f, v, s)]
<1> DEFINE UpTo(f, n) == \A s \in SUBSET S : Cardinality(s) <= n => f[s] = Sums(f, v, s)
           Bad == {n \in Nat : ~ \E f : UpTo(f, n)}
<1>1. \A s \in SUBSET S : IsFiniteSet(s) /\ Cardinality(s) \in Nat
  BY FS_Subset, FS_CardinalityType
<1>2. \A s \in SUBSET S : s # {} =>
         /\ One(s) \in s /\ s \ {One(s)} \in SUBSET S
         /\ Cardinality(s) = Cardinality(s \ {One(s)}) + 1
  <2>1. \A s \in SUBSET S : s # {} => One(s) \in s
    BY DEF One
  <2> QED
    BY <1>1, <2>1, FS_RemoveElement
<1>3. 0 \notin Bad
  <2> DEFINE f == [s \in SUBSET S |-> 0]
  <2>1. \A s \in SUBSET S : Cardinality(s) <= 0 => s = {}
    BY <1>1, FS_EmptySet
  <2>2. UpTo(f, 0)
    BY <2>1 DEF Sums
  <2> QED
    BY <2>2
<1>4. ASSUME NEW n \in Nat, NEW f, UpTo(f, n)
      PROVE  UpTo([s \in SUBSET S |-> Sums(f, v, s)], n + 1)
  <2> DEFINE g == [s \in SUBSET S |-> Sums(f, v, s)]
  <2> SUFFICES ASSUME NEW s \in SUBSET S, Cardinality(s) <= n + 1
               PROVE  g[s] = Sums(g, v, s)
    OBVIOUS
  <2>1. CASE s = {}
    BY <2>1 DEF Sums
  <2>2. CASE s # {}
    <3>1. s \ {One(s)} \in SUBSET S /\ Cardinality(s \ {One(s)}) <= n
      BY <1>1, <1>2, <2>2
    <3>2. g[s \ {One(s)}] = f[s \ {One(s)}]
      BY <1>4, <3>1
    <3> QED
      BY <3>2 DEF Sums
  <2> QED
    BY <2>1, <2>2
<1>5. Bad = {}
  <2> SUFFICES ASSUME Bad # {} PROVE FALSE
    OBVIOUS
  <2>1. PICK m \in Bad : \A n \in Bad : m <= n
    BY Least
  <2>2. PICK n \in Nat : m = n + 1 /\ n \notin Bad
    <3>1. m - 1 \in Nat /\ m = (m - 1) + 1 /\ ~ (m <= m - 1)
      BY <1>3, <2>1
    <3> QED
      BY <2>1, <3>1
  <2>3. PICK f : UpTo(f, n)
    BY <2>2
  <2>4. UpTo([s \in SUBSET S |-> Sums(f, v, s)], n + 1)
    BY <1>4, <2>3
  <2> HIDE DEF UpTo
  <2> QED
    BY <2>1, <2>2, <2>4
<1>6. PICK f : UpTo(f, Cardinality(S))
  BY <1>1, <1>5
<1>7. \A s \in SUBSET S : Cardinality(s) <= Cardinality(S)
  BY FS_Subset
<1>8. \A s \in SUBSET S : f[s] = Sums(f, v, s)
  BY <1>6, <1>7
<1> DEFINE g == [s \in SUBSET S |-> Sums(f, v, s)]
<1>9. \A s \in SUBSET S : Sums(g, v, s) = Sums(f, v, s)
  BY <1>2, <1>8 DEF Sums
<1> QED
  BY <1>9

AgreeBut(v, w, S, y) == \A x \in S \ {y} : v[x] = w[x]

\* Two sums that differ in one term differ by it.
LEMMA SumChange ==
    ASSUME NEW S, IsFiniteSet(S), NEW v \in [S -> Int], NEW w \in [S -> Int],
           NEW f, AddsUp(f, v, S),
           NEW g, AddsUp(g, w, S),
           NEW y, AgreeBut(v, w, S, y)
    PROVE  /\ f[S] \in Int /\ g[S] \in Int
           /\ f[S] = g[S] + (IF y \in S THEN v[y] - w[y] ELSE 0)
<1> DEFINE Fine(s) == /\ f[s] \in Int /\ g[s] \in Int
                      /\ f[s] = g[s] + (IF y \in s THEN v[y] - w[y] ELSE 0)
           Bad == {s \in SUBSET S : ~ Fine(s)}
<1>1. \A s \in SUBSET S : f[s] = Sums(f, v, s) /\ g[s] = Sums(g, w, s)
  BY DEF AddsUp
<1>2. Bad = {}
  <2> SUFFICES ASSUME Bad # {} PROVE FALSE
    OBVIOUS
  <2>1. PICK s \in Bad : \A t \in Bad : t \subseteq s => t = s
    <3>1. Bad \subseteq SUBSET S
      OBVIOUS
    <3> HIDE DEF Bad
    <3> QED
      BY <3>1, SmallestSet
  <2>2. s # {}
    <3>1. f[{}] = 0 /\ g[{}] = 0
      BY <1>1 DEF Sums
    <3>2. Fine({})
      BY <3>1
    <3> HIDE DEF Fine
    <3> QED
      BY <2>1, <3>2
  <2> DEFINE x == One(s)
             t == s \ {x}
  <2>3. x \in s /\ x \in S
    BY <2>1, <2>2 DEF One
  <2>4. Fine(t)
    BY <2>1, <2>3
  <2>5. f[s] = v[x] + f[t] /\ g[s] = w[x] + g[t]
    BY <1>1, <2>1, <2>2 DEF Sums
  <2>6. v[x] \in Int /\ w[x] \in Int
    BY <2>3
  <2>7. CASE x = y
    BY <2>1, <2>3, <2>4, <2>5, <2>6, <2>7
  <2>8. CASE x # y
    BY <2>1, <2>3, <2>4, <2>5, <2>6, <2>8 DEF AgreeBut
  <2> QED
    BY <2>7, <2>8
<1> QED
  BY <1>2

Values(w, k) == [s \in EquipSlot |-> Worth(w[s], k)]

\* WornDelta is such a sum, of what is worn in each slot.
Summed(k) == \E f : /\ f = [s \in SUBSET EquipSlot |-> Sums(f, Values(worn, k), s)]
                    /\ WornDelta(k) = f[EquipSlot]

\* The fold of the model is such a sum.
LEMMA WornDeltaSums ==
    ASSUME IsFiniteSet(EquipSlot), NEW k
    PROVE  Summed(k)
<1> DEFINE v == Values(worn, k)
           Def(f) == [s \in SUBSET EquipSlot |->
                        IF s = {} THEN 0
                        ELSE LET x == CHOOSE x \in s : TRUE IN
                             (IF worn[x] # None /\ k \in DOMAIN Deltas(worn[x])
                              THEN Deltas(worn[x])[k] ELSE 0) + f[s \ {x}]]
           f0 == CHOOSE f : f = Def(f)
<1>1. WornDelta(k) = f0[EquipSlot]
  BY DEF WornDelta, MapThenSumSet, MapThenFoldSet
<1>2. ASSUME NEW f
      PROVE  Def(f) = [s \in SUBSET EquipSlot |-> Sums(f, v, s)]
  BY DEF Sums, Values, One, Worth
<1>3. PICK f : f = [s \in SUBSET EquipSlot |-> Sums(f, v, s)]
  <2>1. \A w : \E f : f = [s \in SUBSET EquipSlot |-> Sums(f, w, s)]
    BY SumExists, Zenon
  <2> HIDE DEF v
  <2> QED
    BY <2>1, Zenon
<1>4. f = Def(f)
  BY <1>2, <1>3, Zenon
<1>5. f0 = Def(f0)
  <2> HIDE DEF Def
  <2> QED
    BY <1>4
<1>6. f0 = [s \in SUBSET EquipSlot |-> Sums(f0, v, s)]
  <2> HIDE DEF v, f0
  <2> QED
    BY <1>2, <1>5, Zenon
<1> HIDE DEF f0
<1> QED
  BY <1>1, <1>6 DEF Summed

\* What is worn in one slot changes the deltas by the difference of the two items.
LEMMA WornChange ==
    ASSUME IsFiniteSet(EquipSlot),
           \A i \in DOMAIN Declared : Declared[i].deltas \in [DOMAIN Declared[i].deltas -> Int],
           NEW s, NEW x, NEW k,
           worn \in [EquipSlot -> ItemType \cup {None}], worn' = [worn EXCEPT ![s] = x]
    PROVE  /\ WornDelta(k) \in Int /\ WornDelta(k)' \in Int
           /\ s \in EquipSlot => WornDelta(k)' = WornDelta(k) + Worth(x, k) - Worth(worn[s], k)
<1>1. Summed(k) /\ Summed(k)'
  <2>1. \A kk : Summed(kk)
    BY WornDeltaSums
  <2>2. Summed(k)'
    BY WornDeltaSums, PTL
  <2> QED
    BY <2>1, <2>2
<1>2. PICK g : /\ g = [t \in SUBSET EquipSlot |-> Sums(g, Values(worn, k), t)]
               /\ WornDelta(k) = g[EquipSlot]
  BY <1>1 DEF Summed
<1>3. PICK f : /\ f = [t \in SUBSET EquipSlot |-> Sums(f, Values(worn', k), t)]
               /\ WornDelta(k)' = f[EquipSlot]
  BY <1>1 DEF Summed
<1>v. PICK v : v = Values(worn', k)
  OBVIOUS
<1>w. PICK w : w = Values(worn, k)
  OBVIOUS
<1>4. \A y : Worth(y, k) \in Int
  BY DEF Worth, Deltas
<1>5. v \in [EquipSlot -> Int] /\ w \in [EquipSlot -> Int]
  BY <1>4, <1>v, <1>w DEF Values
<1>6. /\ AgreeBut(v, w, EquipSlot, s)
      /\ s \in EquipSlot => v[s] = Worth(x, k) /\ w[s] = Worth(worn[s], k)
  BY <1>v, <1>w DEF Values, AgreeBut
<1>7. AddsUp(f, v, EquipSlot) /\ AddsUp(g, w, EquipSlot)
  BY <1>2, <1>3, <1>v, <1>w DEF AddsUp
<1>8. /\ f[EquipSlot] \in Int /\ g[EquipSlot] \in Int
      /\ f[EquipSlot] = g[EquipSlot] + (IF s \in EquipSlot THEN v[s] - w[s] ELSE 0)
  BY ONLY IsFiniteSet(EquipSlot), <1>5, <1>6, <1>7, SumChange
<1>9. s \in EquipSlot => Worth(x, k) \in Int /\ Worth(worn[s], k) \in Int
  BY <1>4
<1> QED
  BY <1>2, <1>3, <1>6, <1>8, <1>9
----------------------------------------------------------------------------
(* Types.                                                                  *)

Statements ==
         [op : {"own"}, item : ItemType]
    \cup [op : {"occupant"}, slot : EquipSlot, must : BOOLEAN]
    \cup {d \in [op : {"deltas"}, item : ItemType, sign : {1, -1}, left : SUBSET Stat] :
             d.left \subseteq DOMAIN Deltas(d.item)}
    \cup [op : {"stat"}, stat : Stat, by : Int]
    \cup [op : {"set"}, stat : Stat, by : Int, value : Int]
    \cup [op : {"grant", "remove"}, item : ItemType, n : Int]
    \cup [op : {"insert"}, item : ItemType, n : Nat \ {0}]
    \cup [op : {"put"}, item : ItemType, value : Nat]
    \cup [op : {"wear"}, slot : EquipSlot, item : ItemType]
    \cup [op : {"clear"}, slot : EquipSlot]
    \cup [op : {"mover", "target"}, item : ItemType, to : Position]
    \cup [op : {"undeclared"}]

TypeOK ==
    /\ items \in [ItemType -> Nat]
    /\ position \in [ItemType -> Position \cup {None}]
    /\ worn \in [EquipSlot -> ItemType \cup {None}]
    /\ stats \in [Stat -> Int]
    /\ todo \in [Actor -> Seq(Statements)]

\* A statement and those that follow it.
Then(h, r) == <<h>> \o r

\* Lists of statements are taken apart at their head.
LEMMA Thens ==
    ASSUME NEW S, NEW h \in S, NEW r \in Seq(S)
    PROVE  /\ Then(h, r) \in Seq(S) /\ Then(h, r) # <<>>
           /\ Head(Then(h, r)) = h /\ Tail(Then(h, r)) = r
           /\ <<>> \o r = r
BY DEF Then

LEMMA HeadTail ==
    ASSUME NEW S, NEW q \in Seq(S), q # <<>>
    PROVE  Head(q) \in S /\ Tail(q) \in Seq(S) /\ q = Then(Head(q), Tail(q))
BY DEF Then

\* The lists that Program and unequip_inner write out, one statement after the other.
LEMMA ThenTwo ==
    ASSUME NEW S, NEW r \in Seq(S), NEW a \in S, NEW b \in S
    PROVE  <<a, b>> \o r = Then(a, Then(b, r))
<1>1. \A y \in S : <<a, y>> \o r = <<a>> \o (<<y>> \o r)
  OBVIOUS
<1> QED
  BY <1>1 DEF Then

LEMMA ThenPair ==
    ASSUME NEW S, NEW a \in S, NEW b \in S
    PROVE  Then(a, <<b>>) = <<a, b>>
<1>1. /\ <<a, b>> \in Seq(S) /\ <<a, b>> # <<>>
      /\ Head(<<a, b>>) = a /\ Tail(<<a, b>>) = <<b>>
  OBVIOUS
<1> QED
  BY <1>1, HeadTail

LEMMA ThenThree ==
    ASSUME NEW S, NEW r \in Seq(S), NEW a \in S, NEW b \in S, NEW c \in S
    PROVE  <<a, b, c>> \o r = Then(a, Then(b, Then(c, r)))
<1>1. <<a, b, c>> = <<a, b>> \o <<c>> /\ <<a, b>> \in Seq(S) /\ <<c>> \in Seq(S)
  OBVIOUS
<1>2. (<<a, b>> \o <<c>>) \o r = <<a, b>> \o (<<c>> \o r)
  BY <1>1, ConcatAssociative
<1>3. <<c>> \o r \in Seq(S)
  OBVIOUS
<1>4. <<a, b>> \o (<<c>> \o r) = Then(a, Then(b, <<c>> \o r))
  BY <1>3, ThenTwo
<1> QED
  BY <1>1, <1>2, <1>4 DEF Then

LEMMA ThenFive ==
    ASSUME NEW S, NEW a \in S, NEW b \in S, NEW c \in S, NEW d \in S, NEW e \in S
    PROVE  <<a, b, c, d, e>> = Then(a, Then(b, Then(c, Then(d, <<e>>))))
<1>1. <<a, b, c, d, e>> = <<a, b, c>> \o <<d, e>> /\ <<d, e>> \in Seq(S)
  OBVIOUS
<1>2. <<a, b, c>> \o <<d, e>> = Then(a, Then(b, Then(c, <<d, e>>)))
  <2>1. \A r \in Seq(S) : <<a, b, c>> \o r = Then(a, Then(b, Then(c, r)))
    BY ThenThree
  <2> QED
    BY <1>1, <2>1
<1>3. <<d, e>> = Then(d, <<e>>)
  BY ThenPair
<1> QED
  BY <1>1, <1>2, <1>3

LEMMA ThenInjective ==
    ASSUME NEW S, NEW a, NEW b, NEW q \in Seq(S), NEW r \in Seq(S),
           a \in S, b \in S, Then(a, q) = Then(b, r)
    PROVE  a = b /\ q = r
<1>1. /\ Head(Then(a, q)) = a /\ Tail(Then(a, q)) = q
      /\ Head(Then(b, r)) = b /\ Tail(Then(b, r)) = r
  BY Thens
<1> QED
  BY <1>1

\* NextDelta leaves the other deltas for later.
LEMMA Shrunk ==
    ASSUME NEW o \in [op : {"deltas"}, item : ItemType, sign : {1, -1}, left : SUBSET Stat], NEW k
    PROVE  [o EXCEPT !.left = @ \ {k}] =
              [op |-> "deltas", item |-> o.item, sign |-> o.sign, left |-> o.left \ {k}]
OBVIOUS

\* An item's deltas are numbers, by stat.
LEMMA DeltasType ==
    ASSUME GearAssumption, NEW i
    PROVE  /\ DOMAIN Deltas(i) \subseteq Stat
           /\ Deltas(i) \in [DOMAIN Deltas(i) -> Int]
BY DEF GearAssumption, Deltas

\* What is put before a list's rest is executed first.
LEMMA HeadTailOfConcat ==
    ASSUME NEW S, NEW q \in Seq(S), q # <<>>, NEW r \in Seq(S)
    PROVE  Head(q \o r) = Head(q) /\ Tail(q \o r) = Tail(q) \o r
OBVIOUS

\* What the next statement is about.
LEMMA StatementType ==
    ASSUME NEW o \in Statements
    PROVE  /\ o.op \in {"own", "grant", "insert", "remove", "put", "wear", "mover", "target",
                        "deltas"} => o.item \in ItemType
           /\ o.op \in {"occupant", "wear", "clear"} => o.slot \in EquipSlot
           /\ o.op \in {"grant", "insert", "remove"} => o.n \in Int
           /\ o.op = "insert" => o.n >= 1
           /\ o.op \in {"stat", "set"} => o.stat \in Stat
           /\ o.op \in {"stat", "set"} => o.by \in Int
           /\ o.op = "set" => o.value \in Int
           /\ o.op = "put" => o.value \in Nat
           /\ o.op \in {"mover", "target"} => o.to \in Position
           /\ o.op = "deltas" => /\ o.sign \in {1, -1} /\ o.left \subseteq DOMAIN Deltas(o.item)
                                 /\ o.left \subseteq Stat
                                 /\ o = [op |-> "deltas", item |-> o.item, sign |-> o.sign,
                                         left |-> o.left]
BY DEF Statements

\* The next statement and those after it, of a call that is not over.
LEMMA NowType ==
    ASSUME TypeOK, NEW p \in Actor, todo[p] # <<>>
    PROVE  /\ Now(p) \in Statements /\ Tail(todo[p]) \in Seq(Statements)
           /\ todo[p] = Then(Now(p), Tail(todo[p]))
BY HeadTail DEF TypeOK, Now

\* A call that goes on puts these statements in the place of one.
Advances(p, ss) == todo' = [todo EXCEPT ![p] = ss \o Tail(todo[p])]

LEMMA Advance ==
    ASSUME NEW p, NEW ss
    PROVE  /\ Continue(p, ss) => Advances(p, ss)
           /\ \A known : GoOn(p, ss, known) => Advances(p, ss)
BY DEF Continue, GoOn, Advances

LEMMA ContinueType ==
    ASSUME TypeOK, NEW p \in Actor, todo[p] # <<>>,
           NEW ss \in Seq(Statements), Advances(p, ss)
    PROVE  /\ todo' \in [Actor -> Seq(Statements)]
           /\ todo'[p] = ss \o Tail(todo[p])
           /\ \A q \in Actor \ {p} : todo'[q] = todo[q]
<1>1. ss \o Tail(todo[p]) \in Seq(Statements)
  BY NowType
<1>2. todo' = [todo EXCEPT ![p] = ss \o Tail(todo[p])]
  BY DEF Advances
<1> QED
  BY <1>1, <1>2 DEF TypeOK

\* A call consists of statements, and so it does after each step.
LEMMA ProgramType ==
    ASSUME GearAssumption, NEW c \in PlayerCall \cup Effect
    PROVE  Program(c) \in Seq(Statements)
<1>1. CASE c.op = "equip" /\ c.item \in DOMAIN Declared
  <2> DEFINE s == Declared[c.item].slot
             a == [op |-> "own", item |-> c.item]
             b == [op |-> "occupant", slot |-> s, must |-> FALSE]
             d == [op |-> "deltas", item |-> c.item, sign |-> 1, left |-> DOMAIN Deltas(c.item)]
             e == [op |-> "remove", item |-> c.item, n |-> 1]
             f == [op |-> "wear", slot |-> s, item |-> c.item]
  <2>1. c.item \in ItemType /\ s \in EquipSlot
    BY <1>1 DEF GearAssumption
  <2>2. a \in Statements /\ b \in Statements /\ e \in Statements /\ f \in Statements
    BY <2>1 DEF Statements
  <2>3. d \in Statements
    BY <2>1, DeltasType DEF Statements
  <2>4. Program(c) = <<a, b, d, e, f>>
    BY <1>1 DEF Program
  <2> HIDE DEF a, b, d, e, f
  <2> QED
    BY <2>2, <2>3, <2>4
<1>2. CASE c.op = "equip" /\ c.item \notin DOMAIN Declared
  BY <1>2 DEF Program, Statements
<1>3. CASE c.op = "unequip"
  <2>1. c.slot \in EquipSlot
    BY <1>3 DEF GearAssumption
  <2> QED
    BY <1>3, <2>1 DEF Program, Statements
<1>4. CASE c.op = "move"
  <2>1. c.item \in ItemType
    BY <1>4 DEF GearAssumption
  <2>2. c.to \in Position =>
           [op |-> "mover", item |-> c.item, to |-> c.to] \in Statements
    BY <2>1 DEF Statements
  <2>3. [op |-> "undeclared"] \in Statements
    BY DEF Statements
  <2>4. Program(c) = IF c.to \in Position THEN << [op |-> "mover", item |-> c.item, to |-> c.to] >>
                     ELSE << [op |-> "undeclared"] >>
    BY <1>4 DEF Program
  <2> QED
    BY <2>2, <2>3, <2>4
<1>5. CASE c.op \in {"remove", "grant"}
  <2>1. c \in [op : {"grant", "remove"}, item : ItemType, n : Int]
    BY <1>5 DEF GearAssumption
  <2>2. c \in Statements
    BY <2>1 DEF Statements
  <2>3. Program(c) = <<c>>
    BY <1>5 DEF Program
  <2> QED
    BY <2>2, <2>3
<1>6. CASE c.op = "stat"
  <2>1. c \in [op : {"stat"}, stat : Stat, by : Int]
    BY <1>6 DEF GearAssumption
  <2>2. c \in Statements
    BY <2>1 DEF Statements
  <2>3. Program(c) = <<c>>
    BY <1>6 DEF Program
  <2> QED
    BY <2>2, <2>3
<1> QED
  BY <1>1, <1>2, <1>3, <1>4, <1>5, <1>6 DEF GearAssumption

\* All but the statement of a slot move that holds a lock.
Waiting == {o \in Statements : o.op # "target"}
\* What a statement puts in its place, or a request begins with.
Orderly(ss) == /\ ss \in Seq(Statements) /\ ss # <<>> /\ Tail(ss) \in Seq(Waiting)

Follows(ss, op) == Orderly(ss) /\ Head(ss).op = op

\* The lists the model writes hold no second statement of a slot move.
LEMMA OrderlyStatements ==
    /\ \A a \in Statements : Orderly(<<a>>) /\ Head(<<a>>) = a
    /\ \A a \in Statements, b \in Waiting : Orderly(<<a, b>>) /\ Head(<<a, b>>) = a
    /\ \A a \in Statements, b, c \in Waiting : Orderly(<<a, b, c>>) /\ Head(<<a, b, c>>) = a
    /\ \A a \in Statements, b, c, d, e \in Waiting :
          Orderly(<<a, b, c, d, e>>) /\ Head(<<a, b, c, d, e>>) = a
<1>1. Waiting \subseteq Statements
  BY DEF Waiting
<1>2. \A a : Tail(<<a>>) = <<>> /\ Head(<<a>>) = a
  OBVIOUS
<1>3. \A a, b : Tail(<<a, b>>) = <<b>> /\ Head(<<a, b>>) = a
  OBVIOUS
<1>4. \A a, b, c : Tail(<<a, b, c>>) = <<b, c>> /\ Head(<<a, b, c>>) = a
  OBVIOUS
<1>5. \A a, b, c, d, e : Tail(<<a, b, c, d, e>>) = <<b, c, d, e>> /\ Head(<<a, b, c, d, e>>) = a
  OBVIOUS
<1>6. <<>> \in Seq(Waiting)
  OBVIOUS
<1> HIDE DEF Waiting
<1> QED
  BY <1>1, <1>2, <1>3, <1>4, <1>5, <1>6 DEF Orderly

\* What a statement puts in its place.
LEMMA NextStatements ==
    ASSUME GearAssumption, TypeOK, NEW p \in Actor, todo[p] # <<>>, NEW o, o = Now(p)
    PROVE  /\ o.op = "occupant" /\ worn[o.slot] # None =>
                 Follows(unequip_inner(o.slot, worn[o.slot]), "deltas")
           /\ o.op = "deltas" => \A k \in o.left :
                 Follows(<< [op |-> "stat", stat |-> k, by |-> o.sign * Deltas(o.item)[k]],
                            [o EXCEPT !.left = @ \ {k}] >>, "stat")
           /\ o.op = "stat" =>
                 Follows(<< [op |-> "set", stat |-> o.stat, by |-> o.by, value |-> stats[o.stat] + o.by] >>,
                         "set")
           /\ o.op = "grant" /\ o.n >= 1 => Follows(<< [o EXCEPT !.op = "insert"] >>, "insert")
           /\ o.op = "remove" /\ o.n >= 1 /\ items[o.item] >= o.n =>
                 Follows(<< [op |-> "put", item |-> o.item, value |-> items[o.item] - o.n] >>,
                         "put")
           /\ o.op = "mover" => Follows(<< [op |-> "target", item |-> o.item, to |-> o.to] >>, "target")
<1>0. o \in Statements
  BY NowType
<1>1. ASSUME o.op = "occupant", worn[o.slot] # None
      PROVE  Follows(unequip_inner(o.slot, worn[o.slot]), "deltas")
  <2> DEFINE s == o.slot
             j == worn[s]
  <2>1. s \in EquipSlot /\ j \in ItemType
    BY <1>0, <1>1, StatementType DEF TypeOK
  <2> HIDE DEF s, j
  <2>2. [op |-> "grant", item |-> j, n |-> 1] \in Statements
        /\ [op |-> "clear", slot |-> s] \in Statements
    BY <2>1 DEF Statements
  <2>3. [op |-> "deltas", item |-> j, sign |-> -1, left |-> DOMAIN Deltas(j)] \in Statements
    BY <2>1, DeltasType DEF Statements
  <2>4. Follows(unequip_inner(s, j), "deltas")
    BY <2>2, <2>3, OrderlyStatements DEF unequip_inner, Waiting, Follows
  <2> QED
    BY <2>4 DEF s, j
<1>2. ASSUME o.op = "deltas", NEW k \in o.left
      PROVE  Follows(<< [op |-> "stat", stat |-> k, by |-> o.sign * Deltas(o.item)[k]],
                        [o EXCEPT !.left = @ \ {k}] >>, "stat")
  <2>1. /\ o.item \in ItemType /\ o.sign \in {1, -1} /\ o.left \subseteq DOMAIN Deltas(o.item)
        /\ o.left \subseteq Stat
        /\ o = [op |-> "deltas", item |-> o.item, sign |-> o.sign, left |-> o.left]
    BY <1>0, <1>2, StatementType
  <2>2. Deltas(o.item)[k] \in Int
    BY <1>2, <2>1, DeltasType
  <2>3. [op |-> "stat", stat |-> k, by |-> o.sign * Deltas(o.item)[k]] \in Statements
    BY <1>2, <2>1, <2>2 DEF Statements
  <2>4. [o EXCEPT !.left = @ \ {k}] =
           [op |-> "deltas", item |-> o.item, sign |-> o.sign, left |-> o.left \ {k}]
    <3>1. o \in [op : {"deltas"}, item : ItemType, sign : {1, -1}, left : SUBSET Stat]
      BY <2>1
    <3> QED
      BY ONLY <3>1
  <2>5. [op |-> "deltas", item |-> o.item, sign |-> o.sign, left |-> o.left \ {k}] \in Statements
    BY <2>1 DEF Statements
  <2>6. [o EXCEPT !.left = @ \ {k}] \in Waiting
    BY <2>4, <2>5 DEF Waiting
  <2> DEFINE a == [op |-> "stat", stat |-> k, by |-> o.sign * Deltas(o.item)[k]]
             b == [o EXCEPT !.left = @ \ {k}]
  <2>7. a \in Statements /\ b \in Waiting /\ a.op = "stat"
    BY <2>3, <2>6
  <2> HIDE DEF a, b
  <2>8. Follows(<<a, b>>, "stat")
    BY <2>7, OrderlyStatements DEF Follows
  <2> QED
    BY <2>8 DEF a, b
<1>3. ASSUME o.op = "stat"
      PROVE  Follows(<< [op |-> "set", stat |-> o.stat, by |-> o.by, value |-> stats[o.stat] + o.by] >>,
                         "set")
  <2>1. o.stat \in Stat /\ stats[o.stat] + o.by \in Int /\ o.by \in Int
    BY <1>0, <1>3, StatementType DEF TypeOK
  <2>2. [op |-> "set", stat |-> o.stat, by |-> o.by, value |-> stats[o.stat] + o.by] \in Statements
    BY <2>1 DEF Statements
  <2> QED
    BY <2>2, OrderlyStatements DEF Follows
<1>4. ASSUME o.op = "grant", o.n >= 1
      PROVE  Follows(<< [o EXCEPT !.op = "insert"] >>, "insert")
  <2>1. o \in [op : {"grant", "remove"}, item : ItemType, n : Int]
    BY <1>0, <1>4 DEF Statements
  <2>2. [o EXCEPT !.op = "insert"] \in [op : {"insert"}, item : ItemType, n : Nat \ {0}]
    BY <1>4, <2>1
  <2>3. [o EXCEPT !.op = "insert"] \in Statements
    BY <2>2 DEF Statements
  <2> QED
    BY <2>2, <2>3, OrderlyStatements DEF Follows
<1>5. ASSUME o.op = "remove", o.n >= 1, items[o.item] >= o.n
      PROVE  Follows(<< [op |-> "put", item |-> o.item, value |-> items[o.item] - o.n] >>,
                         "put")
  <2>1. o.item \in ItemType /\ items[o.item] - o.n \in Nat
    BY <1>0, <1>5, StatementType DEF TypeOK
  <2>2. [op |-> "put", item |-> o.item, value |-> items[o.item] - o.n] \in Statements
    BY <2>1 DEF Statements
  <2> QED
    BY <2>2, OrderlyStatements DEF Follows
<1>6. ASSUME o.op = "mover"
      PROVE  Follows(<< [op |-> "target", item |-> o.item, to |-> o.to] >>, "target")
  <2>1. o.item \in ItemType /\ o.to \in Position
    BY <1>0, <1>6, StatementType
  <2>2. [op |-> "target", item |-> o.item, to |-> o.to] \in Statements
    BY <2>1 DEF Statements
  <2> QED
    BY <2>2, OrderlyStatements DEF Follows
<1> QED
  BY <1>1, <1>2, <1>3, <1>4, <1>5, <1>6

\* Every step keeps the types.
LEMMA TypeStep ==
    ASSUME GearAssumption, TypeOK, [Next]_vars
    PROVE  TypeOK'
<1>1. CASE UNCHANGED vars
  BY <1>1 DEF vars, TypeOK
<1>2. ASSUME NEW p \in Actor, NEW c \in PlayerCall \cup Effect, Ask(p, c)
      PROVE  TypeOK'
  <2>1. Program(c) \in Seq(Statements)
    BY ProgramType
  <2> QED
    BY <1>2, <2>1 DEF Ask, rows, TypeOK
<1>3. ASSUME NEW p \in Actor, Reject(p) \/ Fail(p)
      PROVE  TypeOK'
  <2>1. <<>> \in Seq(Statements)
    OBVIOUS
  <2>2. todo' \in [Actor -> Seq(Statements)]
    BY <1>3, <2>1 DEF Reject, Fail, TypeOK
  <2>3. UNCHANGED rows
    BY <1>3 DEF Reject, Fail
  <2> QED
    BY <2>2, <2>3 DEF rows, TypeOK
<1>4. ASSUME NEW p \in Actor, Statement(p), ~ Reject(p)
      PROVE  TypeOK'
  <2> DEFINE o == Now(p)
  <2>1. todo[p] # <<>>
    BY <1>4 DEF Statement, Undeclared, Own, Occupant, NextDelta, ReadStat, SetStat, ReadGrant,
                Insert, ReadRemove, Put, Wear, LockMover, Place, At
  <2>2. o \in Statements
    BY <2>1, NowType
  <2>3. <<>> \in Seq(Statements)
    OBVIOUS
  <2>4. ASSUME NEW ss \in Seq(Statements), Continue(p, ss)
        PROVE  todo' \in [Actor -> Seq(Statements)]
    BY <2>1, <2>4, Advance, ContinueType
  <2>5. CASE Undeclared(p)
    BY <1>4, <2>5 DEF Undeclared
  <2>6. CASE Own(p)
    BY <1>4, <2>6, <2>3, <2>4 DEF Own, rows, TypeOK
  <2>7. CASE Occupant(p)
    <3>1. \E ss \in Seq(Statements) : Continue(p, ss) /\ UNCHANGED rows
      BY <1>4, <2>1, <2>3, <2>7, NextStatements DEF Occupant, At, Follows, Orderly
    <3> QED
      BY <2>4, <3>1 DEF rows, TypeOK
  <2>8. CASE NextDelta(p)
    <3>1. \E ss \in Seq(Statements) : Continue(p, ss) /\ UNCHANGED rows
      BY <2>1, <2>3, <2>8, NextStatements DEF NextDelta, At, Follows, Orderly
    <3> QED
      BY <2>4, <3>1 DEF rows, TypeOK
  <2>9. CASE ReadStat(p)
    <3>1. \E ss \in Seq(Statements) : Continue(p, ss) /\ UNCHANGED rows
      BY <2>1, <2>3, <2>9, NextStatements DEF ReadStat, At, Follows, Orderly
    <3> QED
      BY <2>4, <3>1 DEF rows, TypeOK
  <2>10. CASE SetStat(p)
    <3>1. o.stat \in Stat /\ o.value \in Int
      BY <2>2, <2>10, StatementType DEF SetStat, At
    <3>2. Advances(p, <<>>) /\ stats' = [stats EXCEPT ![o.stat] = o.value]
          /\ UNCHANGED <<items, position, worn>>
      BY <1>4, <2>10, Advance DEF SetStat
    <3> QED
      BY <2>1, <2>3, <3>1, <3>2, ContinueType DEF TypeOK
  <2>11. CASE ReadGrant(p)
    <3>1. o.n \in Int
      BY <2>2, <2>11, StatementType DEF ReadGrant, At
    <3>2. /\ o.op = "grant" /\ ~ (o.n < 1)
          /\ Continue(p, << [o EXCEPT !.op = "insert"] >>) /\ UNCHANGED rows
      BY <1>4, <2>11 DEF ReadGrant, At
    <3>3. << [o EXCEPT !.op = "insert"] >> \in Seq(Statements)
      <4>1. o.n >= 1
        BY <3>1, <3>2
      <4> HIDE DEF o
      <4> QED
        BY <2>1, <3>2, <4>1, NextStatements DEF o, Follows, Orderly
    <3> QED
      BY <2>4, <3>2, <3>3 DEF rows, TypeOK
  <2>12. CASE Insert(p)
    <3>1. o.item \in ItemType /\ o.n \in Nat
      BY <2>2, <2>12, StatementType DEF Insert, At
    <3>2. items[o.item] + o.n \in Nat
      BY <3>1 DEF TypeOK
    <3> QED
      BY <2>3, <2>4, <2>12, <3>1, <3>2 DEF Insert, TypeOK
  <2>13. CASE ReadRemove(p)
    <3>1. o.n \in Int /\ o.item \in ItemType
      BY <2>2, <2>13, StatementType DEF ReadRemove, At
    <3>2. items[o.item] \in Nat
      BY <3>1 DEF TypeOK
    <3>3. /\ o.op = "remove" /\ ~ (o.n < 1) /\ ~ (items[o.item] < o.n)
          /\ Continue(p, << [op |-> "put", item |-> o.item, value |-> items[o.item] - o.n] >>)
          /\ UNCHANGED rows
      BY <1>4, <2>13 DEF ReadRemove, At
    <3>4. << [op |-> "put", item |-> o.item, value |-> items[o.item] - o.n] >>
             \in Seq(Statements)
      <4>1. o.n >= 1 /\ items[o.item] >= o.n
        BY <3>1, <3>2, <3>3
      <4> HIDE DEF o
      <4> QED
        BY <2>1, <3>3, <4>1, NextStatements DEF o, Follows, Orderly
    <3> QED
      BY <2>4, <3>3, <3>4 DEF rows, TypeOK
  <2>14. CASE Put(p)
    <3>1. o.item \in ItemType /\ o.value \in Nat
      BY <2>2, <2>14, StatementType DEF Put, At
    <3> QED
      BY <2>3, <2>4, <2>14, <3>1 DEF Put, TypeOK
  <2>15. CASE Wear(p)
    <3>1. o.slot \in EquipSlot /\ (o.op = "wear" => o.item \in ItemType)
      BY <2>2, <2>15, StatementType DEF Wear, At
    <3> QED
      BY <2>3, <2>4, <2>15, <3>1 DEF Wear, At, TypeOK
  <2>16. CASE LockMover(p)
    <3>1. \E ss \in Seq(Statements) : Continue(p, ss) /\ UNCHANGED rows
      BY <1>4, <2>1, <2>3, <2>16, NextStatements DEF LockMover, At, Follows, Orderly
    <3> QED
      BY <2>4, <3>1 DEF rows, TypeOK
  <2>17. CASE Place(p)
    <3>1. o.item \in ItemType /\ o.to \in Position
      BY <2>2, <2>17, StatementType DEF Place, At
    <3>2. position' \in [ItemType -> Position \cup {None}]
      BY <2>17, <3>1 DEF Place, TypeOK
    <3> QED
      BY <2>3, <2>4, <2>17, <3>2 DEF Place, TypeOK
  <2> QED
    BY <1>4, <2>5, <2>6, <2>7, <2>8, <2>9, <2>10, <2>11, <2>12, <2>13, <2>14, <2>15, <2>16,
       <2>17 DEF Statement
<1> QED
  BY <1>1, <1>2, <1>3, <1>4 DEF Next, PlayerAsks, PluginAsks, Actor

\* What characters have stays of its type: no quantity goes below zero, no position is
\* outside the inventory, and every statement of a call is one that equip_item,
\* unequip_item, grant_item, remove_item or move_item_to_slot executes.
THEOREM GearTypes == Spec => []TypeOK
<1> USE GearIsDeclared
<1>1. Init => TypeOK
  <2>1. <<>> \in Seq(Statements)
    OBVIOUS
  <2> QED
    BY <2>1 DEF GearAssumption, Init, TypeOK
<1>2. TypeOK /\ [Next]_vars => TypeOK'
  BY TypeStep
<1> QED
  BY <1>1, <1>2, PTL DEF Spec
----------------------------------------------------------------------------
(* The slots of the inventory.                                             *)

\* Only the statement that is next has locked a row.
OneLock == \A p \in Actor : todo[p] # <<>> => Tail(todo[p]) \in Seq(Waiting)

\* A row that is about to be placed is there, and one that is not has no place.
MoversHeld  == \A p \in Actor : At(p, "target") => items[Now(p).item] > 0
PlacedHeld  == \A i \in ItemType : items[i] = 0 => position[i] = None

SlotInv == TypeOK /\ OneLock /\ MoversHeld /\ PlacedHeld /\ SlotsDistinct

\* A call that goes on with statements in this order keeps the order.
LEMMA LocksAfter ==
    ASSUME SlotInv, NEW p \in Actor, todo[p] # <<>>, NEW ss, Advances(p, ss),
           ss = <<>> \/ Orderly(ss),
           Orderly(ss) /\ Head(ss).op = "target" => items'[Head(ss).item] > 0,
           \A q \in Actor \ {p} : At(q, "target") => items'[Now(q).item] > 0
    PROVE  OneLock' /\ MoversHeld'
<1> DEFINE r == Tail(todo[p])
<1>1. r \in Seq(Waiting) /\ r \in Seq(Statements) /\ TypeOK
  BY NowType DEF SlotInv, OneLock
<1>2. ss \in Seq(Statements)
  <2>1. <<>> \in Seq(Statements)
    OBVIOUS
  <2> QED
    BY <2>1 DEF Orderly
<1>3. /\ todo'[p] = ss \o r
      /\ \A q \in Actor \ {p} : todo'[q] = todo[q]
  BY <1>1, <1>2, ContinueType
<1>4. todo'[p] # <<>> => /\ Tail(todo'[p]) \in Seq(Waiting)
                         /\ Head(todo'[p]).op = "target" => items'[Head(todo'[p]).item] > 0
  <2>1. CASE ss = <<>>
    <3>1. todo'[p] = r
      BY <1>1, <1>3, <2>1
    <3>2. r # <<>> => Tail(r) \in Seq(Waiting) /\ Head(r) \in Waiting
      BY <1>1
    <3> QED
      BY <3>1, <3>2 DEF Waiting
  <2>2. CASE Orderly(ss)
    <3>1. ss # <<>> /\ Tail(ss) \in Seq(Waiting)
      BY <2>2 DEF Orderly
    <3>2. Head(ss \o r) = Head(ss) /\ Tail(ss \o r) = Tail(ss) \o r
      BY <1>1, <1>2, <3>1, HeadTailOfConcat
    <3>3. Tail(ss) \o r \in Seq(Waiting)
      BY <1>1, <3>1
    <3> QED
      BY <1>3, <2>2, <3>2, <3>3
  <2> QED
    BY <2>1, <2>2
<1>5. \A q \in Actor \ {p} : todo'[q] # <<>> =>
          /\ Tail(todo'[q]) \in Seq(Waiting)
          /\ Head(todo'[q]).op = "target" => items'[Head(todo'[q]).item] > 0
  BY <1>3 DEF SlotInv, OneLock, At, Now
<1> QED
  BY <1>4, <1>5 DEF OneLock, MoversHeld, At, Now

GoesOn(p) ==
    \E ss : /\ Advances(p, ss)
            /\ ss = <<>> \/ Orderly(ss)
            /\ Orderly(ss) /\ Head(ss).op = "target" =>
                 items[Head(ss).item] > 0 /\ UNCHANGED rows

\* A statement that does not reject goes on: with its own follow-up, if any.
LEMMA Continues ==
    ASSUME GearAssumption, TypeOK, NEW p \in Actor, Statement(p), ~ Reject(p)
    PROVE  /\ todo[p] # <<>>
           /\ GoesOn(p)
<1> DEFINE o == Now(p)
<1>1. todo[p] # <<>>
  BY DEF Statement, Undeclared, Own, Occupant, NextDelta, ReadStat, SetStat, ReadGrant,
         Insert, ReadRemove, Put, Wear, LockMover, Place, At
<1>2. /\ o \in Statements
      /\ ~ Orderly(<<>>)
      /\ \A ss, op : Follows(ss, op) => Orderly(ss) /\ Head(ss).op = op
  BY <1>1, NowType DEF Orderly, Follows
<1>3. CASE Undeclared(p)
  BY <1>3 DEF Undeclared
<1>4. CASE Own(p) \/ SetStat(p) \/ Insert(p) \/ Put(p) \/ Wear(p) \/ Place(p)
  <2>1. Advances(p, <<>>)
    BY <1>4, Advance DEF Own, SetStat, Insert, Put, Wear, Place
  <2> QED
    BY <1>1, <1>2, <2>1 DEF GoesOn
<1>5. CASE Occupant(p)
  <2> HIDE DEF o
  <2>1. /\ Continue(p, IF worn[o.slot] = None THEN <<>> ELSE unequip_inner(o.slot, worn[o.slot]))
        /\ o.op = "occupant"
    BY <1>5 DEF Occupant, At, o
  <2>2. worn[o.slot] # None => Follows(unequip_inner(o.slot, worn[o.slot]), "deltas")
    BY <1>1, <2>1, NextStatements DEF o
  <2> QED
    BY <1>1, <1>2, <2>1, <2>2, Advance DEF GoesOn
<1>6. CASE NextDelta(p)
  <2> HIDE DEF o
  <2>1. CASE Continue(p, <<>>)
    BY <1>1, <1>2, <2>1, Advance DEF GoesOn
  <2>2. CASE ~ Continue(p, <<>>)
    <3>1. PICK k \in o.left :
             Continue(p, << [op |-> "stat", stat |-> k, by |-> o.sign * Deltas(o.item)[k]],
                            [o EXCEPT !.left = @ \ {k}] >>)
      BY <1>6, <2>2 DEF NextDelta, o
    <3>2. Follows(<< [op |-> "stat", stat |-> k, by |-> o.sign * Deltas(o.item)[k]],
                     [o EXCEPT !.left = @ \ {k}] >>, "stat")
      <4>1. o.op = "deltas"
        BY <1>6 DEF NextDelta, At, o
      <4> QED
        BY <1>1, <4>1, NextStatements DEF o
    <3>3. \A ss : Continue(p, ss) /\ Follows(ss, "stat") => GoesOn(p)
      BY <1>2, Advance DEF GoesOn
    <3>4. GoesOn(p)
      BY <3>1, <3>2, <3>3
    <3> QED
      BY <1>1, <3>4
  <2> QED
    BY <2>1, <2>2
<1>7. CASE ReadStat(p)
  <2> HIDE DEF o
  <2>1. /\ Continue(p, << [op |-> "set", stat |-> o.stat, by |-> o.by, value |-> stats[o.stat] + o.by] >>)
        /\ o.op = "stat"
    BY <1>7 DEF ReadStat, At, o
  <2>2. Follows(<< [op |-> "set", stat |-> o.stat, by |-> o.by, value |-> stats[o.stat] + o.by] >>, "set")
    BY <1>1, <2>1, NextStatements DEF o
  <2> QED
    BY <1>1, <1>2, <2>1, <2>2, Advance DEF GoesOn
<1>8. CASE ReadGrant(p)
  <2>1. o.op = "grant" /\ ~ (o.n < 1) /\ Continue(p, << [o EXCEPT !.op = "insert"] >>)
    BY <1>8 DEF ReadGrant, At
  <2> HIDE DEF o
  <2>2. o.n \in Int
    BY <1>2, <2>1, StatementType
  <2>3. Follows(<< [o EXCEPT !.op = "insert"] >>, "insert")
    <3>1. o.n >= 1 /\ (o.op = "remove" => items[o.item] >= o.n)
      BY <2>1, <2>2
    <3> QED
      BY <1>1, <2>1, <3>1, NextStatements DEF o
  <2> QED
    BY <1>1, <1>2, <2>1, <2>3, Advance DEF GoesOn
<1>9. CASE ReadRemove(p)
  <2>1. /\ o.op = "remove" /\ ~ (o.n < 1) /\ ~ (items[o.item] < o.n)
        /\ Continue(p, << [op |-> "put", item |-> o.item, value |-> items[o.item] - o.n] >>)
    BY <1>9 DEF ReadRemove, At
  <2> HIDE DEF o
  <2>2. o.n \in Int /\ items[o.item] \in Nat
    BY <1>2, <2>1, StatementType DEF TypeOK
  <2>3. Follows(<< [op |-> "put", item |-> o.item, value |-> items[o.item] - o.n] >>, "put")
    <3>1. o.n >= 1 /\ (o.op = "remove" => items[o.item] >= o.n)
      BY <2>1, <2>2
    <3> QED
      BY <1>1, <2>1, <3>1, NextStatements DEF o
  <2> QED
    BY <1>1, <1>2, <2>1, <2>3, Advance DEF GoesOn
<1>10. CASE LockMover(p)
  <2>1. /\ o.op = "mover" /\ items[o.item] # 0 /\ UNCHANGED rows
        /\ Continue(p, << [op |-> "target", item |-> o.item, to |-> o.to] >>)
    BY <1>10 DEF LockMover, At
  <2> HIDE DEF o
  <2>2. items[o.item] > 0
    BY <1>2, <2>1, StatementType DEF TypeOK
  <2>3. Follows(<< [op |-> "target", item |-> o.item, to |-> o.to] >>, "target")
    BY <1>1, <2>1, NextStatements DEF o
  <2>4. Head(<< [op |-> "target", item |-> o.item, to |-> o.to] >>).item = o.item
    OBVIOUS
  <2> QED
    BY <1>1, <1>2, <2>1, <2>2, <2>3, <2>4, Advance DEF GoesOn
<1> QED
  BY <1>3, <1>4, <1>5, <1>6, <1>7, <1>8, <1>9, <1>10 DEF Statement

\* No call begins under a lock.
LEMMA ProgramOrderly ==
    ASSUME GearAssumption, NEW c \in PlayerCall \cup Effect
    PROVE  Orderly(Program(c)) /\ Head(Program(c)).op # "target"
<1>1. CASE c.op = "equip" /\ c.item \in DOMAIN Declared
  <2> DEFINE s == Declared[c.item].slot
             a == [op |-> "own", item |-> c.item]
             b == [op |-> "occupant", slot |-> s, must |-> FALSE]
             d == [op |-> "deltas", item |-> c.item, sign |-> 1, left |-> DOMAIN Deltas(c.item)]
             e == [op |-> "remove", item |-> c.item, n |-> 1]
             f == [op |-> "wear", slot |-> s, item |-> c.item]
  <2>1. c.item \in ItemType /\ s \in EquipSlot
    BY <1>1 DEF GearAssumption
  <2>2. a \in Waiting /\ b \in Waiting /\ e \in Waiting /\ f \in Waiting
    BY <2>1 DEF Statements, Waiting
  <2>3. d \in Waiting
    BY <2>1, DeltasType DEF Statements, Waiting
  <2>4. Program(c) = <<a, b, d, e, f>>
    BY <1>1 DEF Program
  <2> HIDE DEF a, b, d, e, f
  <2> QED
    BY <2>2, <2>3, <2>4, OrderlyStatements DEF Waiting
<1>2. CASE ~ (c.op = "equip" /\ c.item \in DOMAIN Declared)
  <2>1. PICK o : Program(c) = <<o>> /\ o.op # "target"
    BY <1>2 DEF Program, GearAssumption
  <2>2. o \in Statements
    <3>1. <<o>> \in Seq(Statements)
      BY <2>1, ProgramType
    <3> QED
      BY <3>1
  <2> QED
    BY <2>1, <2>2, OrderlyStatements
<1> QED
  BY <1>1, <1>2

\* The three statements that touch what is carried or where it lies.
LEMMA RowsTouched ==
    ASSUME [Next]_vars
    PROVE  \/ UNCHANGED <<items, position>>
           \/ \E p \in Actor : Insert(p) \/ Put(p) \/ Place(p)
BY DEF Next, vars, PlayerAsks, PluginAsks, Ask, Fail, Statement, Undeclared, Own, Occupant,
       NextDelta, ReadStat, SetStat, ReadGrant, ReadRemove, Wear, LockMover, Reject, rows

\* A grant brings a stack without a position: it collides with none.
LEMMA SlotsAfterInsert ==
    ASSUME SlotInv, NEW p \in Actor, Insert(p)
    PROVE  /\ PlacedHeld' /\ SlotsDistinct'
           /\ \A q \in Actor \ {p} : At(q, "target") => items'[Now(q).item] > 0
<1> DEFINE o == Now(p)
<1>1. /\ o \in Statements /\ o.op = "insert" /\ Free(p, o.item)
      /\ items' = [items EXCEPT ![o.item] = @ + o.n] /\ position' = position
  <2>1. todo[p] # <<>> /\ o.op = "insert"
    BY DEF Insert, At
  <2> QED
    BY <2>1, NowType DEF Insert, SlotInv
<1>2. o.item \in ItemType /\ o.n \in Int /\ o.n >= 1
  BY <1>1, StatementType
<1>3. /\ \A i \in ItemType : items[i] \in Nat /\ (i # o.item => items'[i] = items[i])
      /\ items'[o.item] = items[o.item] + o.n
  BY <1>1, <1>2 DEF SlotInv, TypeOK
<1>4. \A i \in ItemType : items'[i] = 0 => items[i] = 0
  BY <1>2, <1>3
<1>5. PlacedHeld'
  BY <1>1, <1>4 DEF SlotInv, PlacedHeld
<1>6. SlotsDistinct'
  <2>1. \A i \in ItemType : i \notin Held => position[i] = None
    BY <1>3 DEF SlotInv, PlacedHeld, Held
  <2>2. \A i, j \in ItemType : i # j /\ position[i] # None => position[i] # position[j]
    BY <2>1 DEF SlotInv, SlotsDistinct
  <2> QED
    BY <1>1, <2>2 DEF SlotsDistinct, Held
<1>7. ASSUME NEW q \in Actor \ {p}, At(q, "target")
      PROVE  items'[Now(q).item] > 0
  <2>1. Now(q).item # o.item
    BY <1>1, <1>7 DEF Free, Locked
  <2>2. Now(q).item \in ItemType /\ items[Now(q).item] > 0
    BY <1>7, NowType, StatementType DEF At, SlotInv, MoversHeld
  <2> QED
    BY <1>3, <2>1, <2>2
<1> QED
  BY <1>5, <1>6, <1>7

\* A stack that is removed gives up its position with its row.
LEMMA SlotsAfterPut ==
    ASSUME SlotInv, NEW p \in Actor, Put(p)
    PROVE  /\ PlacedHeld' /\ SlotsDistinct'
           /\ \A q \in Actor \ {p} : At(q, "target") => items'[Now(q).item] > 0
<1> DEFINE o == Now(p)
<1>1. /\ o \in Statements /\ o.op = "put" /\ Free(p, o.item)
      /\ items' = [items EXCEPT ![o.item] = IF @ = 0 THEN 0 ELSE o.value]
      /\ position' = [position EXCEPT ![o.item] = IF items'[o.item] = 0 THEN None ELSE @]
  <2>1. todo[p] # <<>> /\ o.op = "put"
    BY DEF Put, At
  <2> QED
    BY <2>1, NowType DEF Put, SlotInv
<1>2. o.item \in ItemType /\ o.value \in Nat
  BY <1>1, StatementType
<1>3. \A i \in ItemType : i # o.item => items'[i] = items[i] /\ position'[i] = position[i]
  BY <1>1 DEF SlotInv, TypeOK
<1>4. /\ items'[o.item] = 0 => position'[o.item] = None
      /\ items'[o.item] # 0 => items[o.item] # 0 /\ position'[o.item] = position[o.item]
  BY <1>1, <1>2 DEF SlotInv, TypeOK
<1>5. PlacedHeld'
  BY <1>3, <1>4 DEF SlotInv, PlacedHeld
<1>6. SlotsDistinct'
  <2>1. \A i \in ItemType : items[i] \in Nat /\ items'[i] \in Nat
    BY <1>1, <1>2 DEF SlotInv, TypeOK
  <2>2. \A i \in ItemType : items'[i] > 0 => items[i] > 0 /\ position'[i] = position[i]
    BY <1>3, <1>4, <2>1
  <2> QED
    BY <2>2 DEF SlotInv, SlotsDistinct, Held
<1>7. ASSUME NEW q \in Actor \ {p}, At(q, "target")
      PROVE  items'[Now(q).item] > 0
  <2>1. Now(q).item # o.item
    BY <1>1, <1>7 DEF Free, Locked
  <2>2. Now(q).item \in ItemType /\ items[Now(q).item] > 0
    BY <1>7, NowType, StatementType DEF At, SlotInv, MoversHeld
  <2> QED
    BY <1>3, <2>1, <2>2
<1> QED
  BY <1>5, <1>6, <1>7

\* The swap: the row that was there takes the mover's place.
LEMMA SlotsAfterPlace ==
    ASSUME GearAssumption, SlotInv, NEW p \in Actor, Place(p)
    PROVE  PlacedHeld' /\ SlotsDistinct'
<1> DEFINE o == Now(p)
           there == {i \in Held \ {o.item} : position[i] = o.to}
<1>1. /\ At(p, "target") /\ items' = items
      /\ position' = [i \in ItemType |-> CASE i = o.item -> o.to
                                           [] i \in there -> position[o.item]
                                           [] OTHER -> position[i]]
  BY DEF Place
<1>2. o.item \in Held /\ o.to # None
  <2>1. o \in Statements /\ o.op = "target"
    BY <1>1, NowType DEF SlotInv, At
  <2>2. o.item \in ItemType /\ o.to \in Position
    BY <2>1, StatementType
  <2> QED
    BY <1>1, <2>2 DEF Held, SlotInv, MoversHeld, GearAssumption
<1>3. /\ position'[o.item] = o.to
      /\ \A i \in there : position'[i] = position[o.item]
      /\ \A i \in ItemType \ (there \cup {o.item}) : position'[i] = position[i]
  BY <1>1, <1>2 DEF Held
<1>4. \A i, j \in Held : i # j /\ position[i] # None => position[i] # position[j]
  BY DEF SlotInv, SlotsDistinct
<1>5. SlotsDistinct'
  <2> SUFFICES ASSUME NEW i \in Held, NEW j \in Held, i # j, position'[i] # None
               PROVE  position'[i] # position'[j]
    BY <1>1 DEF SlotsDistinct, Held
  <2>1. \A k \in Held : \/ k = o.item
                        \/ k # o.item /\ k \in there /\ position[k] = o.to
                                        /\ position'[k] = position[o.item]
                        \/ k # o.item /\ k \notin there /\ position[k] # o.to
                                        /\ position'[k] = position[k]
    BY <1>3 DEF Held
  <2> QED
    BY <1>2, <1>3, <1>4, <2>1
<1>6. PlacedHeld'
  <2>1. \A i \in ItemType : items[i] = 0 => i \notin Held
    BY DEF Held
  <2> QED
    BY <1>1, <1>2, <1>3, <2>1 DEF SlotInv, PlacedHeld
<1> QED
  BY <1>5, <1>6

\* Every step keeps what the slots need.
LEMMA SlotStep ==
    ASSUME GearAssumption, SlotInv, [Next]_vars
    PROVE  SlotInv'
<1>1. TypeOK /\ TypeOK'
  BY TypeStep DEF SlotInv
<1>2. PlacedHeld' /\ SlotsDistinct'
  <2>1. CASE UNCHANGED <<items, position>>
    BY <2>1 DEF SlotInv, PlacedHeld, SlotsDistinct, Held
  <2>2. CASE \E p \in Actor : Insert(p) \/ Put(p) \/ Place(p)
    BY <2>2, SlotsAfterInsert, SlotsAfterPut, SlotsAfterPlace
  <2> QED
    BY <2>1, <2>2, RowsTouched
<1>3. ASSUME UNCHANGED vars
      PROVE  OneLock' /\ MoversHeld'
  <2>1. todo' = todo /\ items' = items
    BY <1>3 DEF vars
  <2>2. OneLock'
    BY <2>1 DEF SlotInv, OneLock
  <2>3. MoversHeld'
    BY <2>1, Zenon DEF SlotInv, MoversHeld, At, Now
  <2> QED
    BY <2>2, <2>3
<1>4. ASSUME NEW p \in Actor, NEW c \in PlayerCall \cup Effect, Ask(p, c)
      PROVE  OneLock' /\ MoversHeld'
  <2>1. Orderly(Program(c)) /\ Head(Program(c)).op # "target"
    BY ProgramOrderly
  <2>2. /\ todo'[p] = Program(c) /\ items' = items
        /\ \A q \in Actor \ {p} : todo'[q] = todo[q]
    BY <1>1, <1>4 DEF Ask, rows, TypeOK
  <2> QED
    BY <2>1, <2>2 DEF SlotInv, OneLock, MoversHeld, At, Now, Orderly
<1>5. ASSUME NEW p \in Actor, Reject(p) \/ Fail(p)
      PROVE  OneLock' /\ MoversHeld'
  <2>1. /\ todo'[p] = <<>> /\ items' = items
        /\ \A q \in Actor \ {p} : todo'[q] = todo[q]
    BY <1>1, <1>5 DEF Reject, Fail, rows, TypeOK
  <2> QED
    BY <2>1 DEF SlotInv, OneLock, MoversHeld, At, Now
<1>6. ASSUME NEW p \in Actor, Statement(p), ~ Reject(p)
      PROVE  OneLock' /\ MoversHeld'
  <2>1. \A q \in Actor \ {p} : At(q, "target") => items'[Now(q).item] > 0
    <3>1. CASE items' = items
      BY <3>1 DEF SlotInv, MoversHeld
    <3>2. CASE items' # items
      <4>1. Insert(p) \/ Put(p)
        BY <1>6, <3>2 DEF Statement, Undeclared, Own, Occupant, NextDelta, ReadStat, SetStat,
             ReadGrant, ReadRemove, Wear, LockMover, Place, rows, Reject
      <4> QED
        BY <4>1, SlotsAfterInsert, SlotsAfterPut
    <3> QED
      BY <3>1, <3>2
  <2>2. PICK ss : /\ Advances(p, ss)
                  /\ ss = <<>> \/ Orderly(ss)
                  /\ Orderly(ss) /\ Head(ss).op = "target" =>
                       items[Head(ss).item] > 0 /\ UNCHANGED rows
    BY <1>1, <1>6, Continues DEF GoesOn
  <2>3. Orderly(ss) /\ Head(ss).op = "target" => items'[Head(ss).item] > 0
    BY <2>2 DEF rows
  <2>4. todo[p] # <<>>
    BY <1>1, <1>6, Continues
  <2> QED
    BY <2>1, <2>2, <2>3, <2>4, LocksAfter
<1>7. OneLock' /\ MoversHeld'
  <2> DEFINE Fine == OneLock' /\ MoversHeld'
  <2>1. /\ UNCHANGED vars => Fine
        /\ \A p \in Actor : /\ \A c \in PlayerCall \cup Effect : Ask(p, c) => Fine
                            /\ Statement(p) \/ Fail(p) => Fine
    <3>1. UNCHANGED vars => Fine
      BY <1>3
    <3>2. \A p \in Actor, c \in PlayerCall \cup Effect : Ask(p, c) => Fine
      BY <1>4
    <3>3. \A p \in Actor : Statement(p) /\ ~ Reject(p) => Fine
      BY <1>6
    <3>4. \A p \in Actor : Reject(p) \/ Fail(p) => Fine
      BY <1>5
    <3> HIDE DEF Fine
    <3> QED
      BY <3>1, <3>2, <3>3, <3>4
  <2> HIDE DEF Fine
  <2>2. Fine
    BY <2>1 DEF Next, PlayerAsks, PluginAsks, Actor
  <2> QED
    BY <2>2 DEF Fine
<1> QED
  BY <1>1, <1>2, <1>7 DEF SlotInv

\* No two stacks are ever in one inventory slot, although no constraint of the table
\* says so: the swap of move_item_to_slot runs under the mover's row lock, and grant_item
\* and remove_item beside it add no position and take one with its row.
THEOREM SlotsStayDistinct == Spec => []SlotsDistinct
<1> USE GearIsDeclared
<1>1. Init => SlotInv
  <2>1. <<>> \in Seq(Statements)
    OBVIOUS
  <2> QED
    BY <2>1 DEF GearAssumption, Init, TypeOK, SlotInv, OneLock, MoversHeld, PlacedHeld,
                SlotsDistinct, At, Actor, Held
<1>2. SlotInv /\ [Next]_vars => SlotInv'
  BY SlotStep
<1>3. SlotInv => SlotsDistinct
  BY DEF SlotInv
<1> QED
  BY <1>1, <1>2, <1>3, PTL DEF Spec
----------------------------------------------------------------------------
(* The stats.  A call of the player is known by what it still executes.    *)

\* What equip_item and unequip_item do last, last things last.
Slot(c)     == IF c.op = "equip" THEN Declared[c.item].slot ELSE c.slot
Wearing(i)  == << [op |-> "wear", slot |-> Declared[i].slot, item |-> i] >>
Taking(i)   == Then([op |-> "remove", item |-> i, n |-> 1], Wearing(i))
Dressing(x, g, L, r) == Then([op |-> "deltas", item |-> x, sign |-> g, left |-> L], r)
Rest(c)     == IF c.op = "equip" THEN Dressing(c.item, 1, DOMAIN Deltas(c.item), Taking(c.item))
               ELSE <<>>
Clearing(c) == Then([op |-> "clear", slot |-> Slot(c)], Rest(c))
Giving(x, c) == Then([op |-> "grant", item |-> x, n |-> 1], Clearing(c))

\* A call that exchanges gear.
Dresses(c) == (c.op = "equip" /\ c.item \in DOMAIN Declared) \/ c.op = "unequip"

\* Whose deltas it applies, how, and before what: first those of what is worn,
\* and once nothing is worn those of what is going to be.
Applies(x, g, r) ==
    \/ /\ g = -1 /\ Dresses(asked.call)
       /\ x = worn[Slot(asked.call)] /\ x \in ItemType /\ r = Giving(x, asked.call)
    \/ /\ g = 1 /\ Dresses(asked.call) /\ asked.call.op = "equip" /\ x = asked.call.item
       /\ worn[Slot(asked.call)] = None /\ r = Taking(x)

\* The stats the call is to leave as it should, and the bare ones among them off by
\* the deltas of x already applied.
Due == GearStat \cap DOMAIN asked.bare
Off(x, g, A) ==
    \A k \in Due : Bare(k) = asked.bare[k] + (IF k \in A THEN g * Worth(x, k) ELSE 0)
Level == \A k \in Due : Bare(k) = asked.bare[k]

AtOwn == /\ Dresses(asked.call) /\ asked.call.op = "equip"
         /\ todo[Player] = Program(asked.call) /\ Level
AtOccupant ==
    /\ Dresses(asked.call) /\ Level
    /\ todo[Player] = Then([op |-> "occupant", slot |-> Slot(asked.call),
                            must |-> asked.call.op = "unequip"], Rest(asked.call))
AtDeltas ==
    \E x \in ItemType, g \in {1, -1}, L \in SUBSET Stat, r \in Seq(Statements) :
        /\ Applies(x, g, r) /\ L \subseteq DOMAIN Deltas(x) /\ Off(x, g, DOMAIN Deltas(x) \ L)
        /\ todo[Player] = Dressing(x, g, L, r)
AtStat ==
    \E x \in ItemType, g \in {1, -1}, L \in SUBSET Stat, r \in Seq(Statements) :
    \E k \in DOMAIN Deltas(x) \ L :
        /\ Applies(x, g, r) /\ L \subseteq DOMAIN Deltas(x)
        /\ Off(x, g, DOMAIN Deltas(x) \ (L \cup {k}))
        /\ todo[Player] = Then([op |-> "stat", stat |-> k, by |-> g * Deltas(x)[k]],
                               Dressing(x, g, L, r))
AtSet ==
    \E x \in ItemType, g \in {1, -1}, L \in SUBSET Stat, r \in Seq(Statements), v \in Int :
    \E k \in DOMAIN Deltas(x) \ L :
        /\ Applies(x, g, r) /\ L \subseteq DOMAIN Deltas(x)
        /\ Off(x, g, DOMAIN Deltas(x) \ (L \cup {k}))
        /\ todo[Player] = Then([op |-> "set", stat |-> k, by |-> g * Deltas(x)[k],
                                value |-> v], Dressing(x, g, L, r))
AtGrant ==
    \E x \in ItemType : /\ Applies(x, -1, Giving(x, asked.call)) /\ Off(x, -1, DOMAIN Deltas(x))
                        /\ todo[Player] = Giving(x, asked.call)
AtInsert ==
    \E x \in ItemType : /\ Applies(x, -1, Giving(x, asked.call)) /\ Off(x, -1, DOMAIN Deltas(x))
                        /\ todo[Player] = Then([op |-> "insert", item |-> x, n |-> 1],
                                               Clearing(asked.call))
AtClear ==
    \E x \in ItemType : /\ Applies(x, -1, Giving(x, asked.call)) /\ Off(x, -1, DOMAIN Deltas(x))
                        /\ todo[Player] = Clearing(asked.call)
AtRemove ==
    \/ \E x \in DOMAIN Declared : /\ Applies(x, 1, Taking(x)) /\ Off(x, 1, DOMAIN Deltas(x))
                                   /\ todo[Player] = Taking(x)
    \/ asked.call.op = "remove" /\ todo[Player] = <<asked.call>> /\ Level
AtPut ==
    \/ \E x \in DOMAIN Declared, v \in Nat :
           /\ Applies(x, 1, Taking(x)) /\ Off(x, 1, DOMAIN Deltas(x))
           /\ todo[Player] = Then([op |-> "put", item |-> x, value |-> v], Wearing(x))
    \/ /\ asked.call.op = "remove" /\ Level
       /\ \E v \in Nat :
             todo[Player] = << [op |-> "put", item |-> asked.call.item, value |-> v] >>
AtWear ==
    \E x \in DOMAIN Declared : /\ Applies(x, 1, Taking(x)) /\ Off(x, 1, DOMAIN Deltas(x))
                               /\ todo[Player] = Wearing(x)
AtOther ==
    \E o \in Statements : /\ o.op \in {"mover", "target", "undeclared"} /\ Level
                          /\ asked.call.op # "remove" /\ todo[Player] = <<o>>

Phase ==
    \/ todo[Player] = <<>>
    \/ AtOwn \/ AtOccupant \/ AtDeltas \/ AtStat \/ AtSet \/ AtGrant \/ AtInsert \/ AtClear
    \/ AtRemove \/ AtPut \/ AtWear \/ AtOther

AskedOK ==
    todo[Player] # <<>> =>
       /\ asked.call \in PlayerCall
       /\ DOMAIN asked.bare \subseteq GearStat /\ asked.bare \in [DOMAIN asked.bare -> Int]
       /\ asked.copies \in [DOMAIN Declared -> Int]

\* A plugin's call is one statement.
PluginPhase ==
    todo[Plugin] # <<>> => /\ todo[Plugin] = <<Now(Plugin)>>
                           /\ Now(Plugin).op \in {"grant", "insert", "remove", "put", "stat", "set"}
                           /\ Now(Plugin).op \notin {"stat", "set"} =>
                                 \E e \in Effect : e.op # "stat" /\ Now(Plugin).item = e.item

StatInv == TypeOK /\ AskedOK /\ PluginPhase /\ Phase
----------------------------------------------------------------------------
(* The copies.                                                             *)

\* The item that is worn and carried at once, or neither.
Owed(i) == CASE At(Player, "clear") /\ worn[Now(Player).slot] = i -> 1
             [] At(Player, "wear") /\ Now(Player).item = i -> -1
             [] OTHER -> 0

Taken(c) == IF c.op = "remove" THEN c.n ELSE 1

ItemInv ==
    todo[Player] # <<>> =>
        /\ \A i \in DOMAIN Declared : Copies(i) = asked.copies[i] + Owed(i)
        /\ At(Player, "put") /\ Now(Player).item \in DOMAIN Declared =>
              /\ Taken(asked.call) >= 1
              /\ items[Now(Player).item] = Now(Player).value + Taken(asked.call)
----------------------------------------------------------------------------
\* The bare stats are numbers, and only set_stat and what is worn move them.
LEMMA BareType ==
    ASSUME GearAssumption, TypeOK, NEW k \in GearStat
    PROVE  stats[k] \in Int /\ WornDelta(k) \in Int /\ Bare(k) \in Int
<1>1. k \in Stat
  BY DEF GearStat, GearAssumption
<1>2. PICK f : /\ f = [t \in SUBSET EquipSlot |-> Sums(f, Values(worn, k), t)]
               /\ WornDelta(k) = f[EquipSlot]
  BY WornDeltaSums DEF GearAssumption, Summed
<1>3. PICK v : v = Values(worn, k)
  OBVIOUS
<1>4. \A y : Worth(y, k) \in Int
  BY DEF Worth, Deltas, GearAssumption
<1>5. v \in [EquipSlot -> Int]
  BY <1>3, <1>4 DEF Values
<1>6. AddsUp(f, v, EquipSlot) /\ AgreeBut(v, v, EquipSlot, k)
  BY <1>2, <1>3 DEF AddsUp, AgreeBut
<1>7. IsFiniteSet(EquipSlot)
  BY DEF GearAssumption
<1>8. f[EquipSlot] \in Int
  BY ONLY <1>5, <1>6, <1>7, SumChange
<1> QED
  BY <1>1, <1>2, <1>8 DEF TypeOK, Bare

\* The sum's two equations, and what they say of two states.
LEMMA GearSums ==
    ASSUME GearAssumption, NEW k
    PROVE  Summed(k)
BY WornDeltaSums DEF GearAssumption

LEMMA WornSame ==
    ASSUME GearAssumption, TypeOK, UNCHANGED worn, NEW k \in GearStat
    PROVE  WornDelta(k)' = WornDelta(k)
<1>1. Summed(k) /\ Summed(k)'
  <2>1. IsFiniteSet(EquipSlot)
    BY DEF GearAssumption
  <2>2. Summed(k)
    BY <2>1, WornDeltaSums
  <2>3. Summed(k)'
    BY GearSums, PTL
  <2> QED
    BY <2>2, <2>3
<1>2. PICK v : v = Values(worn, k)
  OBVIOUS
<1>3. PICK g : g = [t \in SUBSET EquipSlot |-> Sums(g, v, t)] /\ WornDelta(k) = g[EquipSlot]
  BY <1>1, <1>2 DEF Summed
<1>4. PICK f : f = [t \in SUBSET EquipSlot |-> Sums(f, v, t)] /\ WornDelta(k)' = f[EquipSlot]
  BY <1>1, <1>2 DEF Summed, Values
<1>5. \A y : Worth(y, k) \in Int
  BY DEF Worth, Deltas, GearAssumption
<1>6. v \in [EquipSlot -> Int]
  BY <1>2, <1>5 DEF Values
<1>7. AddsUp(f, v, EquipSlot) /\ AddsUp(g, v, EquipSlot) /\ AgreeBut(v, v, EquipSlot, k)
  BY <1>3, <1>4 DEF AddsUp, AgreeBut
<1>8. IsFiniteSet(EquipSlot)
  BY DEF GearAssumption
<1>9. /\ f[EquipSlot] \in Int /\ g[EquipSlot] \in Int
      /\ f[EquipSlot] = g[EquipSlot] + (IF k \in EquipSlot THEN v[k] - v[k] ELSE 0)
  BY ONLY <1>6, <1>7, <1>8, SumChange
<1>10. k \in EquipSlot => v[k] \in Int
  BY ONLY <1>6
<1> QED
  BY <1>3, <1>4, <1>9, <1>10

LEMMA BareSame ==
    ASSUME GearAssumption, TypeOK, UNCHANGED <<worn, stats>>, NEW k \in GearStat
    PROVE  Bare(k)' = Bare(k)
<1>1. WornDelta(k)' = WornDelta(k)
  BY WornSame
<1> QED
  BY <1>1 DEF Bare

\* set_stat moves the bare stat by what was added to it.
LEMMA BareSet ==
    ASSUME GearAssumption, TypeOK, UNCHANGED worn, NEW j, NEW n \in Int,
           stats' = [stats EXCEPT ![j] = stats[j] + n], NEW k \in GearStat
    PROVE  Bare(k)' = Bare(k) + (IF k = j THEN n ELSE 0)
<1>1. WornDelta(k)' = WornDelta(k)
  BY WornSame
<1>2. k \in Stat
  BY DEF GearStat, GearAssumption
<1>3. stats[k]' = stats[k] + (IF k = j THEN n ELSE 0)
  BY <1>2, BareType DEF TypeOK
<1> QED
  BY <1>1, <1>3, BareType DEF Bare

LEMMA BareWorn ==
    ASSUME GearAssumption, TypeOK, UNCHANGED stats, NEW s \in EquipSlot, NEW x,
           worn' = [worn EXCEPT ![s] = x], NEW k \in GearStat
    PROVE  Bare(k)' = Bare(k) + Worth(worn[s], k) - Worth(x, k)
<1>1. WornDelta(k)' = WornDelta(k) + Worth(x, k) - Worth(worn[s], k)
  BY WornChange DEF GearAssumption, TypeOK
<1>2. \A y : Worth(y, k) \in Int
  BY DEF Worth, Deltas, GearAssumption
<1> QED
  BY <1>1, <1>2, BareType DEF Bare

\* What the parts of a call are.
LEMMA NowOf ==
    ASSUME NEW p, NEW h, NEW r \in Seq(Statements), todo[p] = Then(h, r)
    PROVE  todo[p] # <<>> /\ Now(p) = h /\ Tail(todo[p]) = r
<1>1. r \in Seq(Statements \cup {h})
  OBVIOUS
<1> QED
  BY <1>1, Thens DEF Now

\* The same of a call's last statement.
LEMMA NowOfOne ==
    ASSUME NEW p, NEW h, todo[p] = <<h>>
    PROVE  todo[p] # <<>> /\ Now(p) = h /\ Tail(todo[p]) = <<>>
BY DEF Now

\* The parts of an exchange are lists of statements.
LEMMA Parts ==
    ASSUME GearAssumption, NEW c \in PlayerCall, Dresses(c)
    PROVE  /\ Slot(c) \in EquipSlot
           /\ c.op = "equip" => c.item \in DOMAIN Declared /\ Slot(c) = Declared[c.item].slot
           /\ Rest(c) \in Seq(Statements) /\ Clearing(c) \in Seq(Statements)
           /\ \A x \in ItemType : Giving(x, c) \in Seq(Statements)
           /\ \A x \in DOMAIN Declared : Wearing(x) \in Seq(Statements) /\ Taking(x) \in Seq(Statements)
<1>1. Slot(c) \in EquipSlot
  BY DEF GearAssumption, Dresses, Slot
<1>2. c.op = "equip" => c.item \in DOMAIN Declared /\ Slot(c) = Declared[c.item].slot
  BY DEF Dresses, Slot
<1>3. ASSUME NEW x \in DOMAIN Declared
      PROVE  Wearing(x) \in Seq(Statements) /\ Taking(x) \in Seq(Statements)
  <2>1. x \in ItemType /\ Declared[x].slot \in EquipSlot
    BY DEF GearAssumption
  <2>2. /\ [op |-> "wear", slot |-> Declared[x].slot, item |-> x] \in Statements
        /\ [op |-> "remove", item |-> x, n |-> 1] \in Statements
    BY <2>1 DEF Statements
  <2>3. Wearing(x) \in Seq(Statements)
    BY <2>2 DEF Wearing
  <2> QED
    BY <2>2, <2>3, Thens DEF Taking
<1>4. Rest(c) \in Seq(Statements)
  <2>1. CASE c.op = "equip"
    <3>1. c.item \in ItemType
      BY <1>2, <2>1 DEF GearAssumption
    <3>2. [op |-> "deltas", item |-> c.item, sign |-> 1, left |-> DOMAIN Deltas(c.item)]
            \in Statements
      BY <3>1, DeltasType DEF Statements
    <3> QED
      BY <1>2, <1>3, <2>1, <3>2, Thens DEF Rest, Dressing
  <2>2. CASE c.op # "equip"
    BY <2>2 DEF Rest
  <2> QED
    BY <2>1, <2>2
<1>5. Clearing(c) \in Seq(Statements)
  <2>1. [op |-> "clear", slot |-> Slot(c)] \in Statements
    BY <1>1 DEF Statements
  <2> QED
    BY <1>4, <2>1, Thens DEF Clearing
<1>6. ASSUME NEW x \in ItemType PROVE Giving(x, c) \in Seq(Statements)
  <2>1. [op |-> "grant", item |-> x, n |-> 1] \in Statements
    BY DEF Statements
  <2> QED
    BY <1>5, <2>1, Thens DEF Giving
<1> QED
  BY <1>1, <1>2, <1>3, <1>4, <1>5, <1>6

\* equip_item and unequip_item are made of these parts, and so is unequip_inner.
LEMMA ProgramParts ==
    ASSUME GearAssumption, NEW c \in PlayerCall, Dresses(c)
    PROVE  Program(c) = IF c.op = "equip"
                        THEN Then([op |-> "own", item |-> c.item],
                                  Then([op |-> "occupant", slot |-> Slot(c), must |-> FALSE], Rest(c)))
                        ELSE Then([op |-> "occupant", slot |-> Slot(c), must |-> TRUE], Rest(c))
<1>1. CASE c.op = "equip"
  <2> DEFINE a == [op |-> "own", item |-> c.item]
             b == [op |-> "occupant", slot |-> Slot(c), must |-> FALSE]
             d == [op |-> "deltas", item |-> c.item, sign |-> 1, left |-> DOMAIN Deltas(c.item)]
             e == [op |-> "remove", item |-> c.item, n |-> 1]
             f == [op |-> "wear", slot |-> Slot(c), item |-> c.item]
  <2>1. Program(c) = <<a, b, d, e, f>>
    BY <1>1 DEF Program, Dresses, Slot
  <2>2. Rest(c) = Then(d, Then(e, <<f>>))
    BY <1>1 DEF Rest, Dressing, Taking, Wearing, Slot
  <2> HIDE DEF a, b, d, e, f
  <2>3. <<a, b, d, e, f>> = Then(a, Then(b, Then(d, Then(e, <<f>>))))
    <3> DEFINE S == {a, b, d, e, f}
    <3>1. a \in S /\ b \in S /\ d \in S /\ e \in S /\ f \in S
      OBVIOUS
    <3> HIDE DEF S
    <3> QED
      BY <3>1, ThenFive
  <2> QED
    BY <1>1, <2>1, <2>2, <2>3 DEF a, b
<1>2. CASE c.op = "unequip"
  <2>1. Program(c) = << [op |-> "occupant", slot |-> Slot(c), must |-> TRUE] >> /\ Rest(c) = <<>>
    BY <1>2 DEF Program, Slot, Rest
  <2>2. \A o : <<o>> = Then(o, <<>>)
    BY DEF Then
  <2> QED
    BY <1>2, <2>1, <2>2
<1> QED
  BY <1>1, <1>2 DEF Dresses

LEMMA UnequipParts ==
    ASSUME GearAssumption, NEW c \in PlayerCall, Dresses(c), NEW x \in ItemType
    PROVE  unequip_inner(Slot(c), x) \o Rest(c) = Dressing(x, -1, DOMAIN Deltas(x), Giving(x, c))
<1> DEFINE a == [op |-> "deltas", item |-> x, sign |-> -1, left |-> DOMAIN Deltas(x)]
           b == [op |-> "grant", item |-> x, n |-> 1]
           d == [op |-> "clear", slot |-> Slot(c)]
<1>1. a \in Statements
  BY DeltasType DEF Statements
<1>2. b \in Statements /\ d \in Statements
  <2>1. Slot(c) \in EquipSlot
    BY Parts
  <2> QED
    BY <2>1 DEF Statements
<1>3. Rest(c) \in Seq(Statements)
  BY Parts
<1>4. unequip_inner(Slot(c), x) = <<a, b, d>>
  BY DEF unequip_inner
<1>5. Dressing(x, -1, DOMAIN Deltas(x), Giving(x, c)) = Then(a, Then(b, Then(d, Rest(c))))
  BY DEF Dressing, Giving, Clearing
<1> HIDE DEF a, b, d
<1>6. <<a, b, d>> \o Rest(c) = Then(a, Then(b, Then(d, Rest(c))))
  BY <1>1, <1>2, <1>3, ThenThree
<1> QED
  BY <1>4, <1>5, <1>6

LEMMA DressingType ==
    ASSUME GearAssumption, NEW x \in ItemType, NEW g \in {1, -1}, NEW L, L \subseteq DOMAIN Deltas(x),
           NEW r \in Seq(Statements)
    PROVE  Dressing(x, g, L, r) \in Seq(Statements)
<1>1. [op |-> "deltas", item |-> x, sign |-> g, left |-> L] \in Statements
  BY DeltasType DEF Statements
<1> QED
  BY <1>1, Thens DEF Dressing

\* The phase and the next statement tell each other.
PhaseOps ==
    LET op == Now(Player).op IN
    /\ (AtOwn => op = "own") /\ (AtOccupant => op = "occupant") /\ (AtDeltas => op = "deltas")
    /\ (AtStat => op = "stat") /\ (AtSet => op = "set") /\ (AtGrant => op = "grant")
    /\ (AtInsert => op = "insert") /\ (AtClear => op = "clear") /\ (AtRemove => op = "remove")
    /\ (AtPut => op = "put") /\ (AtWear => op = "wear")
    /\ (AtOther => op \in {"mover", "target", "undeclared"})

\* The phase says what the next statement is ...
LEMMA PhaseTells ==
    ASSUME GearAssumption
    PROVE  StatInv /\ todo[Player] # <<>> => PhaseOps
<1> SUFFICES ASSUME StatInv, todo[Player] # <<>> PROVE PhaseOps
  OBVIOUS
<1> DEFINE c == asked.call
           op == Now(Player).op
<1>1. c \in PlayerCall
  BY DEF StatInv, AskedOK
<1>2. /\ Dresses(c) => /\ Rest(c) \in Seq(Statements) /\ Clearing(c) \in Seq(Statements)
                       /\ Slot(c) \in EquipSlot
                       /\ \A x \in ItemType : Giving(x, c) \in Seq(Statements)
                       /\ \A x \in DOMAIN Declared :
                             Wearing(x) \in Seq(Statements) /\ Taking(x) \in Seq(Statements)
  BY <1>1, Parts
<1>3. AtOwn => op = "own"
  <2> SUFFICES ASSUME AtOwn PROVE op = "own"
    OBVIOUS
  <2>1. todo[Player] = Then([op |-> "own", item |-> c.item],
                            Then([op |-> "occupant", slot |-> Slot(c), must |-> FALSE], Rest(c)))
    BY <1>1, ProgramParts DEF AtOwn
  <2>2. [op |-> "occupant", slot |-> Slot(c), must |-> FALSE] \in Statements
    BY <1>2 DEF AtOwn, Statements
  <2>3. Then([op |-> "occupant", slot |-> Slot(c), must |-> FALSE], Rest(c)) \in Seq(Statements)
    BY <1>2, <2>2, Thens DEF AtOwn
  <2> QED
    BY <2>1, <2>3, NowOf
<1>4. AtOccupant => op = "occupant"
  BY <1>2, NowOf DEF AtOccupant
<1>5. AtDeltas => op = "deltas"
  BY NowOf DEF AtDeltas, Dressing
<1>6. AtStat => op = "stat"
  BY DressingType, NowOf DEF AtStat
<1>7. AtSet => op = "set"
  BY DressingType, NowOf DEF AtSet
<1>8. AtGrant => op = "grant"
  BY <1>2, NowOf DEF AtGrant, Applies, Giving
<1>9. AtInsert => op = "insert"
  BY <1>2, NowOf DEF AtInsert, Applies
<1>10. AtClear => op = "clear"
  BY <1>2, NowOf DEF AtClear, Applies, Clearing
<1>11. AtRemove => op = "remove"
  <2>1. ASSUME NEW x \in DOMAIN Declared, Applies(x, 1, Taking(x)), todo[Player] = Taking(x)
        PROVE  op = "remove"
    BY <1>2, <2>1, NowOf DEF Applies, Taking
  <2>2. ASSUME c.op = "remove", todo[Player] = <<c>>
        PROVE  op = "remove"
    BY <2>2, NowOfOne
  <2> QED
    BY <2>1, <2>2 DEF AtRemove
<1>12. AtPut => op = "put"
  <2>1. ASSUME NEW x \in DOMAIN Declared, NEW v, Applies(x, 1, Taking(x)),
               todo[Player] = Then([op |-> "put", item |-> x, value |-> v], Wearing(x))
        PROVE  op = "put"
    BY <1>2, <2>1, NowOf DEF Applies
  <2>2. ASSUME NEW i, NEW v, todo[Player] = << [op |-> "put", item |-> i, value |-> v] >>
        PROVE  op = "put"
    BY <2>2, NowOfOne
  <2> QED
    BY <2>1, <2>2 DEF AtPut
<1>13. AtWear => op = "wear"
  BY NowOfOne DEF AtWear, Wearing
<1>14. AtOther => op \in {"mover", "target", "undeclared"}
  BY NowOfOne DEF AtOther
<1> QED
  BY <1>3, <1>4, <1>5, <1>6, <1>7, <1>8, <1>9, <1>10, <1>11, <1>12, <1>13, <1>14 DEF PhaseOps

\* ... and the next statement says which phase it is.
LEMMA PhaseAt ==
    ASSUME GearAssumption, StatInv, todo[Player] # <<>>
    PROVE  /\ At(Player, "own") => AtOwn
           /\ At(Player, "occupant") => AtOccupant
           /\ At(Player, "deltas") => AtDeltas
           /\ At(Player, "stat") => AtStat
           /\ At(Player, "set") => AtSet
           /\ At(Player, "grant") => AtGrant
           /\ At(Player, "insert") => AtInsert
           /\ At(Player, "clear") => AtClear
           /\ At(Player, "remove") => AtRemove
           /\ At(Player, "put") => AtPut
           /\ At(Player, "wear") => AtWear
           /\ Now(Player).op \in {"mover", "target", "undeclared"} => AtOther
BY PhaseTells DEF PhaseOps, StatInv, Phase, At

\* Where a statement of the player leads.
Lands == /\ todo'[Player] # <<>> => Phase'
         /\ todo'[Player] = <<>> => \A k \in Due : Bare(k)' = asked.bare[k]

\* A statement is done: what it left to do comes first.
LEMMA Onward ==
    ASSUME TypeOK, NEW h, NEW r \in Seq(Statements), todo[Player] = Then(h, r),
           NEW ss \in Seq(Statements), Continue(Player, ss)
    PROVE  /\ todo'[Player] = ss \o r /\ (ss = <<>> => todo'[Player] = r)
           /\ todo'[Player] # <<>> => asked' = asked
<1>1. todo'[Player] = ss \o r
  BY NowOf, Advance, ContinueType DEF Actor
<1>2. ss = <<>> => ss \o r = r
  OBVIOUS
<1> QED
  BY <1>1, <1>2 DEF Continue, GoOn

\* Statements that only read leave the bare stats alone.
LEMMA StillOff ==
    ASSUME GearAssumption, TypeOK, UNCHANGED <<worn, stats>>
    PROVE  /\ Level => \A k \in Due : Bare(k)' = asked.bare[k]
           /\ asked' = asked =>
                 /\ Level => Level'
                 /\ \A x, g, A : Off(x, g, A) => Off(x, g, A)'
                 /\ \A x, g, r : Applies(x, g, r) => Applies(x, g, r)'
<1>1. \A k \in Due : Bare(k)' = Bare(k)
  BY BareSame DEF Due
<1>2. asked' = asked => /\ Level => Level'
                        /\ \A x, g, A : Off(x, g, A) => Off(x, g, A)'
  BY <1>1 DEF Level, Off, Due
<1>3. asked' = asked => \A x, g, r : Applies(x, g, r) => Applies(x, g, r)'
  BY DEF Applies
<1> QED
  BY <1>1, <1>2, <1>3 DEF Level

\* Where each statement of the player's call leads, and that the bare stats follow.
LEMMA LandsOwn ==
    ASSUME GearAssumption, StatInv, Own(Player), ~ Reject(Player)
    PROVE  Lands /\ todo'[Player] # <<>> /\ AtOccupant'
<1> DEFINE c == asked.call
           o == [op |-> "occupant", slot |-> Slot(c), must |-> FALSE]
<1>1. /\ AtOwn /\ Continue(Player, <<>>) /\ UNCHANGED rows /\ c \in PlayerCall /\ TypeOK
      /\ Dresses(c) /\ c.op = "equip" /\ Level
  BY PhaseAt DEF Own, At, StatInv, AskedOK, AtOwn
<1>2. /\ Rest(c) \in Seq(Statements) /\ o \in Statements
      /\ todo[Player] = Then([op |-> "own", item |-> c.item], Then(o, Rest(c)))
  BY <1>1, Parts, ProgramParts DEF AtOwn, Statements
<1>3. Then(o, Rest(c)) \in Seq(Statements) /\ Then(o, Rest(c)) # <<>> /\ <<>> \in Seq(Statements)
  BY <1>2, Thens
<1>4. todo'[Player] = Then(o, Rest(c)) /\ asked' = asked
  BY <1>1, <1>2, <1>3, Onward
<1>5. Level'
  BY <1>1, <1>4, StillOff DEF rows
<1>6. AtOccupant'
  BY <1>1, <1>4, <1>5 DEF AtOccupant
<1> QED
  BY <1>3, <1>4, <1>6 DEF Lands, Phase

LEMMA LandsOccupant ==
    ASSUME GearAssumption, StatInv, Occupant(Player), ~ Reject(Player)
    PROVE  Lands /\ todo'[Player] # <<>> /\ AtDeltas'
<1> DEFINE c == asked.call
           s == Slot(c)
           o == [op |-> "occupant", slot |-> s, must |-> c.op = "unequip"]
<1>1. /\ At(Player, "occupant") /\ AtOccupant /\ UNCHANGED rows /\ c \in PlayerCall /\ TypeOK
      /\ Dresses(c) /\ Level /\ todo[Player] = Then(o, Rest(c))
  BY PhaseAt DEF Occupant, At, StatInv, AskedOK, AtOccupant
<1>2. Rest(c) \in Seq(Statements) /\ s \in EquipSlot
  BY <1>1, Parts
<1>b. \A k \in Due : asked.bare[k] \in Int
  BY <1>1, NowOf, <1>2 DEF StatInv, AskedOK, Due
<1>3. /\ Now(Player).slot = s /\ (Now(Player).must <=> c.op = "unequip")
      /\ Now(Player).op = "occupant" /\ todo[Player] # <<>>
  <2>1. Now(Player) = o
    BY <1>1, <1>2, NowOf
  <2>2. PICK m \in BOOLEAN : m <=> c.op = "unequip"
    OBVIOUS
  <2>3. (c.op = "unequip") = m
    BY <2>2
  <2>4. Now(Player) = [op |-> "occupant", slot |-> s, must |-> m]
    BY <2>1, <2>3
  <2> QED
    BY <1>1, <2>2, <2>4 DEF At
<1>4. /\ ~ (worn[s] = None /\ c.op = "unequip")
      /\ Continue(Player, IF worn[s] = None THEN <<>> ELSE unequip_inner(s, worn[s]))
  BY <1>3 DEF Occupant
<1>5. CASE worn[s] = None
  <2>1. c.op = "equip" /\ c.item \in DOMAIN Declared /\ c.item \in ItemType /\ <<>> \in Seq(Statements)
    BY <1>1, <1>4, <1>5 DEF Dresses, GearAssumption
  <2>2. /\ Rest(c) = Dressing(c.item, 1, DOMAIN Deltas(c.item), Taking(c.item))
        /\ Taking(c.item) \in Seq(Statements) /\ Rest(c) # <<>>
    BY <1>1, <2>1, Parts, Thens DEF Rest, Dressing, Then
  <2>3. todo'[Player] = Rest(c) /\ asked' = asked
    BY <1>1, <1>2, <1>4, <1>5, <2>1, <2>2, Onward
  <2>4. Level' /\ worn' = worn
    BY <1>1, <2>3, StillOff DEF rows
  <2>5. Off(c.item, 1, DOMAIN Deltas(c.item) \ DOMAIN Deltas(c.item))'
    BY <1>b, <2>3, <2>4 DEF Level, Off, Due
  <2>6. Applies(c.item, 1, Taking(c.item))'
    BY <1>1, <1>5, <2>1, <2>3, <2>4 DEF Applies
  <2>7. AtDeltas'
    BY <2>1, <2>2, <2>3, <2>5, <2>6, DeltasType DEF AtDeltas
  <2> QED
    BY <2>2, <2>3, <2>7 DEF Lands, Phase
<1>6. CASE worn[s] # None
  <2>0. PICK x : x = worn[s]
    OBVIOUS
  <2>1. x \in ItemType
    BY <1>1, <1>2, <1>6, <2>0 DEF TypeOK
  <2>2. /\ unequip_inner(s, x) \o Rest(c) = Dressing(x, -1, DOMAIN Deltas(x), Giving(x, c))
        /\ Giving(x, c) \in Seq(Statements)
    BY <1>1, <2>1, UnequipParts, Parts
  <2>3. unequip_inner(s, x) \in Seq(Statements)
    <3>1. Follows(unequip_inner(Now(Player).slot, worn[Now(Player).slot]), "deltas")
      BY <1>1, <1>3, <1>6, NextStatements DEF Actor
    <3> QED
      BY <1>3, <2>0, <3>1 DEF Follows, Orderly
  <2>4. Dressing(x, -1, DOMAIN Deltas(x), Giving(x, c)) # <<>>
    BY <2>2 DEF Dressing, Then
  <2>5. /\ todo'[Player] = Dressing(x, -1, DOMAIN Deltas(x), Giving(x, c))
        /\ asked' = asked
    BY <1>1, <1>2, <1>4, <1>6, <2>2, <2>3, <2>4, Onward, <2>0
  <2>6. Level' /\ worn' = worn
    BY <1>1, <2>5, StillOff DEF rows
  <2>7. Off(x, -1, DOMAIN Deltas(x) \ DOMAIN Deltas(x))'
    BY <1>b, <2>5, <2>6 DEF Level, Off, Due
  <2>8. Applies(x, -1, Giving(x, c))'
    BY <1>1, <2>0, <2>1, <2>5, <2>6 DEF Applies
  <2>9. AtDeltas'
    <3>1. DOMAIN Deltas(x) \in SUBSET Stat
      BY DeltasType
    <3> QED
      BY <2>1, <2>2, <2>5, <2>7, <2>8, <3>1 DEF AtDeltas
  <2> QED
    BY <2>4, <2>5, <2>9 DEF Lands, Phase
<1> QED
  BY <1>5, <1>6

\* Once the deltas are applied, the item is put back, or taken.
LEMMA Applied ==
    ASSUME GearAssumption, asked.call \in PlayerCall, NEW x \in ItemType, NEW g, NEW r,
           Applies(x, g, r)
    PROVE  /\ r # <<>>
           /\ \/ g = -1 /\ r = Giving(x, asked.call) /\ Applies(x, -1, Giving(x, asked.call))
              \/ g = 1 /\ r = Taking(x) /\ x \in DOMAIN Declared /\ Applies(x, 1, Taking(x))
<1>1. CASE g = -1
  <2>1. r = Giving(x, asked.call) /\ Dresses(asked.call)
    BY <1>1 DEF Applies
  <2>2. Clearing(asked.call) \in Seq(Statements)
    BY <2>1, Parts
  <2>3. Giving(x, asked.call) # <<>>
    BY <2>2 DEF Giving, Then
  <2> QED
    BY <1>1, <2>1, <2>3
<1>2. CASE g = 1
  <2>1. r = Taking(x) /\ x \in DOMAIN Declared
    BY <1>2, Parts DEF Applies
  <2>2. Taking(x) # <<>>
    BY DEF Taking, Wearing, Then
  <2> QED
    BY <1>2, <2>1, <2>2
<1> QED
  BY <1>1, <1>2 DEF Applies

LEMMA LandsDelta ==
    ASSUME GearAssumption, StatInv, NextDelta(Player)
    PROVE  Lands /\ todo'[Player] # <<>> /\ (AtGrant' \/ AtRemove' \/ AtStat')
<1>1. /\ At(Player, "deltas") /\ AtDeltas /\ UNCHANGED rows /\ TypeOK /\ asked.call \in PlayerCall
  BY PhaseAt DEF NextDelta, At, StatInv, AskedOK
<1>2. PICK x \in ItemType, g \in {1, -1}, L \in SUBSET Stat, r \in Seq(Statements) :
        /\ Applies(x, g, r) /\ L \subseteq DOMAIN Deltas(x) /\ Off(x, g, DOMAIN Deltas(x) \ L)
        /\ todo[Player] = Dressing(x, g, L, r)
  BY <1>1 DEF AtDeltas
<1> DEFINE o == [op |-> "deltas", item |-> x, sign |-> g, left |-> L]
<1>3. Now(Player) = o /\ todo[Player] = Then(o, r)
  BY <1>2, NowOf DEF Dressing
<1>4. CASE L = {} /\ Continue(Player, <<>>)
  <2>1. <<>> \in Seq(Statements)
    OBVIOUS
  <2>2. r # <<>>
    BY <1>1, <1>2, Applied DEF Giving, Taking, Then
  <2>3. todo'[Player] = r /\ asked' = asked
    BY <1>1, <1>3, <1>4, <2>1, <2>2, Onward
  <2>4. Off(x, g, DOMAIN Deltas(x))' /\ Applies(x, g, r)'
    <3>1. Off(x, g, DOMAIN Deltas(x)) /\ Applies(x, g, r)
      BY <1>2, <1>4
    <3> QED
      BY <1>1, <2>3, <3>1, StillOff DEF rows
  <2>5. AtGrant' \/ AtRemove'
    <3>1. CASE g = -1 /\ r = Giving(x, asked.call)
      <4>1. AtGrant'
        BY <2>3, <2>4, <3>1 DEF AtGrant
      <4> QED
        BY <4>1
    <3>2. CASE g = 1 /\ r = Taking(x) /\ x \in DOMAIN Declared
      <4>1. AtRemove'
        BY <2>3, <2>4, <3>2 DEF AtRemove
      <4> QED
        BY <4>1
    <3> QED
      BY <1>1, <1>2, <3>1, <3>2, Applied
  <2> QED
    BY <2>2, <2>3, <2>5 DEF Lands, Phase
<1>5. ASSUME NEW k \in L,
             Continue(Player, << [op |-> "stat", stat |-> k, by |-> g * Deltas(x)[k]],
                                 [o EXCEPT !.left = @ \ {k}] >>)
      PROVE  Lands /\ todo'[Player] # <<>> /\ AtStat'
  <2> DEFINE M == L \ {k}
             a == [op |-> "stat", stat |-> k, by |-> g * Deltas(x)[k]]
             b == [op |-> "deltas", item |-> x, sign |-> g, left |-> M]
  <2>1. [o EXCEPT !.left = @ \ {k}] = b
    <3>1. PICK q \in [op : {"deltas"}, item : ItemType, sign : {1, -1}, left : SUBSET Stat] :
                 q = o
      OBVIOUS
    <3>2. o.op = "deltas" /\ o.item = x /\ o.sign = g /\ o.left = L
      OBVIOUS
    <3> HIDE DEF o
    <3>3. [q EXCEPT !.left = @ \ {k}] =
             [op |-> "deltas", item |-> q.item, sign |-> q.sign, left |-> q.left \ {k}]
      BY <3>1, Shrunk
    <3> QED
      BY <3>1, <3>2, <3>3
  <2>2. a \in Statements /\ b \in Statements
    <3>1. g * Deltas(x)[k] \in Int /\ k \in Stat
      BY <1>2, DeltasType
    <3>2. M \subseteq DOMAIN Deltas(x) /\ M \subseteq Stat
      BY <1>2
    <3> QED
      BY <3>1, <3>2 DEF Statements
  <2>3. <<a, b>> \in Seq(Statements) /\ <<a, b>> \o r = Then(a, Then(b, r))
    <3> HIDE DEF a, b
    <3> QED
      BY <2>2, ThenTwo
  <2>4. Then(a, Then(b, r)) # <<>>
    <3> HIDE DEF a, b
    <3>1. Then(b, r) \in Seq(Statements)
      BY <2>2, Thens
    <3> QED
      BY <2>2, <3>1, Thens
  <2>5. Continue(Player, <<a, b>>)
    BY <1>5, <2>1
  <2>6. /\ todo'[Player] = Then(a, Dressing(x, g, M, r)) /\ todo'[Player] # <<>>
        /\ asked' = asked
    <3> HIDE DEF a, b
    <3>1. todo'[Player] = Then(a, Then(b, r)) /\ asked' = asked
      BY <1>1, <1>3, <2>3, <2>4, <2>5, Onward
    <3> QED
      BY <2>4, <3>1 DEF Dressing, b
  <2>7. Off(x, g, DOMAIN Deltas(x) \ (M \cup {k}))' /\ Applies(x, g, r)'
    <3>1. M \cup {k} = L
      OBVIOUS
    <3>2. Off(x, g, DOMAIN Deltas(x) \ (M \cup {k})) /\ Applies(x, g, r)
      BY <1>2, <3>1
    <3> HIDE DEF M
    <3> QED
      BY <1>1, <2>6, <3>2, StillOff DEF rows
  <2>8. M \in SUBSET Stat /\ M \subseteq DOMAIN Deltas(x) /\ k \in DOMAIN Deltas(x) \ M
    BY <1>2
  <2> HIDE DEF M
  <2>9. AtStat'
    BY <2>6, <2>7, <2>8 DEF AtStat
  <2> QED
    BY <2>6, <2>9 DEF Lands, Phase
<1>6. /\ Now(Player).left = L /\ Now(Player).sign = g /\ Now(Player).item = x
  BY <1>3
<1>7. \/ L = {} /\ Continue(Player, <<>>)
      \/ \E k \in L : Continue(Player, << [op |-> "stat", stat |-> k, by |-> g * Deltas(x)[k]],
                                           [Now(Player) EXCEPT !.left = @ \ {k}] >>)
  BY <1>6 DEF NextDelta
<1> HIDE DEF o
<1> QED
  BY <1>3, <1>4, <1>5, <1>7

LEMMA LandsStat ==
    ASSUME GearAssumption, StatInv, ReadStat(Player)
    PROVE  Lands /\ todo'[Player] # <<>> /\ AtSet'
<1>1. /\ At(Player, "stat") /\ AtStat /\ UNCHANGED rows /\ TypeOK
  BY PhaseAt DEF ReadStat, At, StatInv
<1>2. PICK x \in ItemType, g \in {1, -1}, L \in SUBSET Stat, r \in Seq(Statements) :
      \E k \in DOMAIN Deltas(x) \ L :
        /\ Applies(x, g, r) /\ L \subseteq DOMAIN Deltas(x)
        /\ Off(x, g, DOMAIN Deltas(x) \ (L \cup {k}))
        /\ todo[Player] = Then([op |-> "stat", stat |-> k, by |-> g * Deltas(x)[k]],
                               Dressing(x, g, L, r))
  BY <1>1 DEF AtStat
<1>3. PICK k \in DOMAIN Deltas(x) \ L :
        /\ Applies(x, g, r) /\ L \subseteq DOMAIN Deltas(x)
        /\ Off(x, g, DOMAIN Deltas(x) \ (L \cup {k}))
        /\ todo[Player] = Then([op |-> "stat", stat |-> k, by |-> g * Deltas(x)[k]],
                               Dressing(x, g, L, r))
  BY <1>2
<1>4. PICK q : q = Dressing(x, g, L, r)
  OBVIOUS
<1>5. q \in Seq(Statements) /\ k \in Stat /\ stats[k] \in Int /\ g * Deltas(x)[k] \in Int
  BY <1>1, <1>2, <1>3, <1>4, DressingType, DeltasType DEF TypeOK
<1>6. PICK v : v = stats[k] + g * Deltas(x)[k]
  OBVIOUS
<1> DEFINE a == [op |-> "set", stat |-> k, by |-> g * Deltas(x)[k], value |-> v]
<1>7. a \in Statements
  BY <1>5, <1>6 DEF Statements
<1>8. Continue(Player, <<a>>)
  <2>1. Now(Player) = [op |-> "stat", stat |-> k, by |-> g * Deltas(x)[k]]
    BY <1>3, <1>4, <1>5, NowOf
  <2> QED
    BY <1>6, <2>1 DEF ReadStat
<1>9. todo'[Player] = Then(a, q) /\ todo'[Player] # <<>> /\ asked' = asked
  <2>1. <<a>> \in Seq(Statements) /\ <<a>> \o q = Then(a, q)
    BY <1>7 DEF Then
  <2>2. Then(a, q) # <<>>
    BY <1>5, <1>7, Thens
  <2> HIDE DEF a
  <2> QED
    BY <1>1, <1>3, <1>4, <1>5, <1>8, <2>1, <2>2, Onward
<1>10. /\ Off(x, g, DOMAIN Deltas(x) \ (L \cup {k}))' /\ Applies(x, g, r)' /\ v \in Int
  BY <1>1, <1>3, <1>5, <1>6, <1>9, StillOff DEF rows
<1>11. AtSet'
  BY <1>3, <1>4, <1>9, <1>10 DEF AtSet
<1> QED
  BY <1>9, <1>11 DEF Lands, Phase

\* set_stat moves the bare stat by the delta, unless it overtook another's write.
LEMMA SetMoves ==
    ASSUME GearAssumption, TypeOK, NEW p \in Actor, SetStat(p), ~ Reject(p),
           NEW k \in GearStat, ~ (Overtaken(Now(p)) /\ k = Now(p).stat)
    PROVE  Bare(k)' = Bare(k) + (IF k = Now(p).stat THEN Now(p).by ELSE 0)
<1> DEFINE o == Now(p)
<1>1. todo[p] # <<>> /\ o.op = "set"
  BY DEF SetStat, At
<1>2. o.stat \in Stat /\ o.by \in Int /\ o.value \in Int
  BY <1>1, NowType, StatementType
<1>3. stats' = [stats EXCEPT ![o.stat] = o.value] /\ UNCHANGED worn
  BY DEF SetStat
<1> HIDE DEF o
<1>4. PICK n \in Int : n = o.value - stats[o.stat] /\ stats[o.stat] + n = o.value
  <2>1. stats[o.stat] \in Int
    BY <1>2 DEF TypeOK
  <2>2. o.value - stats[o.stat] \in Int /\ stats[o.stat] + (o.value - stats[o.stat]) = o.value
    BY <1>2, <2>1
  <2> QED
    BY <2>2
<1>5. Bare(k)' = Bare(k) + (IF k = o.stat THEN n ELSE 0)
  BY <1>3, <1>4, BareSet
<1>6. k = o.stat => n = o.by
  <2>1. k = o.stat => o.value = stats[o.stat] + o.by
    BY DEF Overtaken, o
  <2> QED
    BY <1>2, <1>4, <2>1 DEF TypeOK
<1> QED
  BY <1>5, <1>6 DEF o

\* What is known of the player's call after a stat is set.
LEMMA NotedIs ==
    ASSUME NEW p, NEW o, todo[Player] # <<>>
    PROVE  /\ Noted(p, o).call = asked.call /\ Noted(p, o).copies = asked.copies
           /\ DOMAIN Noted(p, o).bare =
                 DOMAIN asked.bare \ (IF Overtaken(o) THEN {o.stat} ELSE {})
           /\ \A k \in DOMAIN Noted(p, o).bare :
                 Noted(p, o).bare[k] =
                    asked.bare[k] + (IF p = Plugin /\ k = o.stat THEN o.by ELSE 0)
BY DEF Noted, Asking

LEMMA LandsSet ==
    ASSUME GearAssumption, StatInv, SetStat(Player), ~ Reject(Player)
    PROVE  Lands /\ todo'[Player] # <<>> /\ AtDeltas' /\ AskedOK'
<1> DEFINE o == Now(Player)
<1>1. /\ At(Player, "set") /\ AtSet /\ TypeOK /\ AskedOK /\ todo[Player] # <<>>
      /\ Player \in Actor /\ Player # Plugin
  BY PhaseAt DEF SetStat, At, StatInv, Actor, GearAssumption
<1>2. PICK x \in ItemType, g \in {1, -1}, L \in SUBSET Stat, r \in Seq(Statements), v \in Int :
      \E k \in DOMAIN Deltas(x) \ L :
        /\ Applies(x, g, r) /\ L \subseteq DOMAIN Deltas(x)
        /\ Off(x, g, DOMAIN Deltas(x) \ (L \cup {k}))
        /\ todo[Player] = Then([op |-> "set", stat |-> k, by |-> g * Deltas(x)[k],
                                value |-> v], Dressing(x, g, L, r))
  BY <1>1 DEF AtSet
<1>3. PICK k \in DOMAIN Deltas(x) \ L :
        /\ Applies(x, g, r) /\ L \subseteq DOMAIN Deltas(x)
        /\ Off(x, g, DOMAIN Deltas(x) \ (L \cup {k}))
        /\ todo[Player] = Then([op |-> "set", stat |-> k, by |-> g * Deltas(x)[k],
                                value |-> v], Dressing(x, g, L, r))
  BY <1>2
<1>4. PICK q : q = Dressing(x, g, L, r)
  OBVIOUS
<1>5. q \in Seq(Statements) /\ k \in Stat /\ Deltas(x)[k] \in Int /\ g * Deltas(x)[k] \in Int
  BY <1>1, <1>2, <1>3, <1>4, DressingType, DeltasType DEF TypeOK
<1>6. /\ o.stat = k /\ o.by = g * Deltas(x)[k] /\ Tail(todo[Player]) = q
  BY <1>3, <1>4, <1>5, NowOf
<1>7. GoOn(Player, <<>>, Noted(Player, o)) /\ UNCHANGED worn
  BY DEF SetStat
<1> HIDE DEF o
<1>8. todo'[Player] = q /\ q # <<>>
  <2>1. <<>> \in Seq(Statements) /\ <<>> \o q = q
    BY <1>5
  <2>2. q # <<>>
    BY <1>4 DEF Dressing, Then
  <2> QED
    BY <1>1, <1>6, <1>7, <2>1, <2>2, Advance, ContinueType
<1>9. asked' = Noted(Player, o)
  BY <1>7, <1>8 DEF GoOn
<1>10. /\ asked'.call = asked.call /\ asked'.copies = asked.copies
       /\ DOMAIN asked'.bare \subseteq DOMAIN asked.bare
       /\ \A j \in DOMAIN asked'.bare : asked'.bare[j] = asked.bare[j] + 0
       /\ Overtaken(o) => k \notin DOMAIN asked'.bare
  BY <1>1, <1>6, <1>9, NotedIs
<1>11. /\ asked.bare \in [DOMAIN asked.bare -> Int] /\ DOMAIN asked.bare \subseteq GearStat
       /\ asked.call \in PlayerCall /\ asked.copies \in [DOMAIN Declared -> Int]
  BY <1>1 DEF AskedOK
<1>12. \A j \in DOMAIN asked'.bare : asked'.bare[j] = asked.bare[j]
  BY <1>10, <1>11
<1>13. AskedOK'
  <2>1. asked'.bare \in [DOMAIN asked'.bare -> Int]
    <3>1. \A j \in DOMAIN asked'.bare : asked'.bare[j] \in Int
      BY <1>10, <1>11, <1>12
    <3>2. asked'.bare = [j \in DOMAIN asked'.bare |-> asked'.bare[j]]
      BY <1>9, <1>1 DEF Noted, Asking
    <3> QED
      BY <3>1, <3>2
  <2> QED
    BY <1>10, <1>11, <2>1 DEF AskedOK, GearStat
<1>14. Off(x, g, DOMAIN Deltas(x) \ L)'
  <2>1. ASSUME NEW j \in GearStat, j \in DOMAIN asked'.bare
        PROVE  Bare(j)' = asked'.bare[j] + (IF j \in DOMAIN Deltas(x) \ L THEN g * Worth(x, j) ELSE 0)
    <3>1. Bare(j)' = Bare(j) + (IF j = k THEN g * Deltas(x)[k] ELSE 0)
      BY <1>1, <1>6, <1>10, <2>1, SetMoves DEF o
    <3>2. Bare(j) = asked.bare[j] + (IF j \in DOMAIN Deltas(x) \ (L \cup {k}) THEN g * Worth(x, j) ELSE 0)
      BY <1>3, <1>10, <2>1 DEF Off, Due
    <3>3. Worth(x, k) = Deltas(x)[k] /\ asked.bare[j] \in Int /\ Bare(j) \in Int
      BY <1>1, <1>3, <1>10, <1>11, <2>1, BareType DEF Worth, GearAssumption
    <3>4. CASE j = k
      BY <1>3, <1>5, <1>12, <2>1, <3>1, <3>2, <3>3, <3>4
    <3>5. CASE j # k
      BY <1>3, <1>12, <2>1, <3>1, <3>2, <3>3, <3>5
    <3> QED
      BY <3>4, <3>5
  <2> QED
    BY <2>1 DEF Off, Due, GearStat
<1>15. Applies(x, g, r)'
  BY <1>3, <1>7, <1>10 DEF Applies
<1>16. AtDeltas'
  BY <1>3, <1>4, <1>8, <1>14, <1>15 DEF AtDeltas
<1> QED
  BY <1>8, <1>13, <1>16 DEF Lands, Phase

LEMMA LandsGrant ==
    ASSUME GearAssumption, StatInv, ReadGrant(Player), ~ Reject(Player)
    PROVE  Lands /\ todo'[Player] # <<>> /\ AtInsert'
<1>1. /\ At(Player, "grant") /\ AtGrant /\ TypeOK /\ asked.call \in PlayerCall
  BY PhaseAt DEF ReadGrant, At, StatInv, AskedOK
<1>2. PICK x \in ItemType : /\ Applies(x, -1, Giving(x, asked.call)) /\ Off(x, -1, DOMAIN Deltas(x))
                           /\ todo[Player] = Giving(x, asked.call)
  BY <1>1 DEF AtGrant
<1>3. PICK r \in Seq(Statements) : r = Clearing(asked.call)
  BY <1>1, <1>2, Parts DEF Applies
<1> DEFINE o == [op |-> "grant", item |-> x, n |-> 1]
           a == [op |-> "insert", item |-> x, n |-> 1]
<1>4. Now(Player) = o /\ todo[Player] = Then(o, r)
  BY <1>2, <1>3, NowOf DEF Giving
<1>5. Continue(Player, <<a>>) /\ UNCHANGED rows
  <2>1. [o EXCEPT !.op = "insert"] = a
    OBVIOUS
  <2>2. Continue(Player, << [Now(Player) EXCEPT !.op = "insert"] >>) /\ UNCHANGED rows
    BY DEF ReadGrant
  <2> HIDE DEF o, a
  <2> QED
    BY <1>4, <2>1, <2>2
<1>6. a \in Statements
  BY DEF Statements
<1> HIDE DEF o, a
<1>7. todo'[Player] = Then(a, r) /\ todo'[Player] # <<>> /\ asked' = asked
  <2>1. <<a>> \in Seq(Statements) /\ <<a>> \o r = Then(a, r)
    BY <1>6 DEF Then
  <2>2. Then(a, r) # <<>>
    BY <1>6, Thens
  <2> QED
    BY <1>1, <1>4, <1>5, <2>1, <2>2, Onward
<1>8. Applies(x, -1, Giving(x, asked.call))' /\ Off(x, -1, DOMAIN Deltas(x))'
  <2>1. PICK q : q = Giving(x, asked.call)
    OBVIOUS
  <2>2. Applies(x, -1, q)' /\ Off(x, -1, DOMAIN Deltas(x))'
    BY <1>1, <1>2, <1>5, <1>7, <2>1, StillOff DEF rows
  <2> QED
    BY <1>7, <2>1, <2>2
<1>9. AtInsert'
  BY <1>3, <1>7, <1>8 DEF AtInsert, a
<1> QED
  BY <1>7, <1>9 DEF Lands, Phase

LEMMA LandsInsert ==
    ASSUME GearAssumption, StatInv, Insert(Player)
    PROVE  Lands /\ todo'[Player] # <<>> /\ AtClear'
<1>1. /\ At(Player, "insert") /\ AtInsert /\ TypeOK /\ asked.call \in PlayerCall
      /\ Continue(Player, <<>>) /\ UNCHANGED <<worn, stats>>
  BY PhaseAt DEF Insert, At, StatInv, AskedOK
<1>2. PICK x \in ItemType : /\ Applies(x, -1, Giving(x, asked.call)) /\ Off(x, -1, DOMAIN Deltas(x))
                           /\ todo[Player] = Then([op |-> "insert", item |-> x, n |-> 1],
                                                  Clearing(asked.call))
  BY <1>1 DEF AtInsert
<1>3. PICK r \in Seq(Statements) : r = Clearing(asked.call) /\ r # <<>>
  <2>1. Dresses(asked.call)
    BY <1>2 DEF Applies
  <2>2. Clearing(asked.call) \in Seq(Statements) /\ Rest(asked.call) \in Seq(Statements)
    BY <1>1, <2>1, Parts
  <2>3. Clearing(asked.call) # <<>>
    BY <2>2 DEF Clearing, Then
  <2> QED
    BY <2>2, <2>3
<1>4. todo'[Player] = r /\ asked' = asked
  <2>1. <<>> \in Seq(Statements)
    OBVIOUS
  <2> QED
    BY <1>1, <1>2, <1>3, <2>1, Onward
<1>5. Applies(x, -1, Giving(x, asked.call))' /\ Off(x, -1, DOMAIN Deltas(x))'
  <2>1. PICK q : q = Giving(x, asked.call)
    OBVIOUS
  <2>2. Applies(x, -1, q)' /\ Off(x, -1, DOMAIN Deltas(x))'
    BY <1>1, <1>2, <1>4, <2>1, StillOff
  <2> QED
    BY <1>4, <2>1, <2>2
<1>6. AtClear'
  BY <1>3, <1>4, <1>5 DEF AtClear
<1> QED
  BY <1>3, <1>4, <1>6 DEF Lands, Phase

LEMMA LandsRemove ==
    ASSUME GearAssumption, StatInv, ReadRemove(Player), ~ Reject(Player)
    PROVE  Lands /\ todo'[Player] # <<>> /\ AtPut'
<1> DEFINE c == asked.call
           put(i, v) == [op |-> "put", item |-> i, value |-> v]
<1>1. /\ At(Player, "remove") /\ AtRemove /\ TypeOK /\ c \in PlayerCall /\ UNCHANGED rows
      /\ todo[Player] # <<>>
  BY PhaseAt DEF ReadRemove, At, StatInv, AskedOK
<1>2. PICK i, v : /\ i = Now(Player).item /\ v = items[i] - Now(Player).n
                  /\ Continue(Player, << put(i, v) >>)
                  /\ i \in ItemType /\ v \in Nat
  <2> DEFINE o == Now(Player)
  <2>1. o \in Statements /\ o.op = "remove"
    BY <1>1, NowType DEF At, Actor
  <2>2. ~ (items[o.item] < o.n) /\ Continue(Player, << put(o.item, items[o.item] - o.n) >>)
    BY DEF ReadRemove
  <2>3. o.item \in ItemType /\ o.n \in Int
    BY <2>1, StatementType
  <2>4. items[o.item] - o.n \in Nat
    BY <1>1, <2>2, <2>3 DEF TypeOK
  <2> QED
    BY <2>2, <2>3, <2>4
<1>3. /\ put(i, v) \in Statements /\ << put(i, v) >> \in Seq(Statements)
  BY <1>2 DEF Statements
<1> HIDE DEF put
<1>4. ASSUME NEW h, NEW r \in Seq(Statements), todo[Player] = Then(h, r)
      PROVE  /\ todo'[Player] = Then(put(i, v), r) /\ todo'[Player] # <<>> /\ asked' = asked
             /\ Now(Player) = h
  <2>1. << put(i, v) >> \o r = Then(put(i, v), r)
    BY DEF Then
  <2>2. Then(put(i, v), r) # <<>>
    BY <1>3, Thens
  <2> QED
    BY <1>1, <1>2, <1>3, <1>4, <2>1, <2>2, Onward, NowOf
<1>5. ASSUME NEW x \in DOMAIN Declared, Applies(x, 1, Taking(x)), Off(x, 1, DOMAIN Deltas(x)),
             todo[Player] = Taking(x)
      PROVE  Lands /\ todo'[Player] # <<>> /\ AtPut'
  <2>1. Wearing(x) \in Seq(Statements)
    BY <1>1, <1>5, Parts DEF Applies
  <2>2. /\ todo'[Player] = Then(put(x, v), Wearing(x)) /\ todo'[Player] # <<>> /\ asked' = asked
    BY <1>2, <1>4, <1>5, <2>1 DEF Taking
  <2>3. Applies(x, 1, Taking(x))' /\ Off(x, 1, DOMAIN Deltas(x))'
    BY <1>1, <1>5, <2>2, StillOff DEF rows
  <2>4. AtPut'
    BY <1>2, <2>2, <2>3 DEF AtPut, put
  <2> QED
    BY <2>2, <2>4 DEF Lands, Phase
<1>6. ASSUME c.op = "remove", todo[Player] = <<c>>, Level
      PROVE  Lands /\ todo'[Player] # <<>> /\ AtPut'
  <2>1. todo[Player] = Then(c, <<>>) /\ <<>> \in Seq(Statements)
    BY <1>6 DEF Then
  <2>2. /\ todo'[Player] = Then(put(i, v), <<>>) /\ todo'[Player] # <<>> /\ asked' = asked
        /\ i = c.item
    BY <1>2, <1>4, <2>1
  <2>3. todo'[Player] = << put(i, v) >>
    BY <2>2 DEF Then
  <2>4. Level'
    BY <1>1, <1>6, <2>2, StillOff DEF rows
  <2>5. AtPut'
    BY <1>2, <1>6, <2>2, <2>3, <2>4 DEF AtPut, put
  <2> QED
    BY <2>2, <2>5 DEF Lands, Phase
<1> QED
  BY <1>1, <1>5, <1>6 DEF AtRemove

LEMMA LandsPut ==
    ASSUME GearAssumption, StatInv, Put(Player)
    PROVE  Lands /\ (AtWear' \/ todo'[Player] = <<>>)
<1> DEFINE c == asked.call
<1>1. /\ At(Player, "put") /\ AtPut /\ TypeOK /\ c \in PlayerCall
      /\ Continue(Player, <<>>) /\ UNCHANGED <<worn, stats>> /\ <<>> \in Seq(Statements)
  BY PhaseAt DEF Put, At, StatInv, AskedOK
<1>2. ASSUME NEW x \in DOMAIN Declared, NEW v, Applies(x, 1, Taking(x)), Off(x, 1, DOMAIN Deltas(x)),
             todo[Player] = Then([op |-> "put", item |-> x, value |-> v], Wearing(x))
      PROVE  Lands /\ AtWear'
  <2>1. Wearing(x) \in Seq(Statements) /\ Wearing(x) # <<>> /\ x \in ItemType
    BY <1>1, <1>2, Parts DEF Applies, Wearing, GearAssumption
  <2>2. todo'[Player] = Wearing(x) /\ asked' = asked
    BY <1>1, <1>2, <2>1, Onward
  <2>3. Applies(x, 1, Taking(x))' /\ Off(x, 1, DOMAIN Deltas(x))'
    BY <1>1, <1>2, <2>2, StillOff
  <2>4. AtWear'
    BY <2>2, <2>3 DEF AtWear
  <2> QED
    BY <2>1, <2>2, <2>4 DEF Lands, Phase
<1>3. ASSUME NEW h, todo[Player] = <<h>>, Level
      PROVE  Lands /\ todo'[Player] = <<>>
  <2>1. todo[Player] = Then(h, <<>>)
    BY <1>3 DEF Then
  <2>2. todo'[Player] = <<>>
    BY <1>1, <2>1, Onward
  <2> QED
    BY <1>1, <1>3, <2>2, StillOff DEF Lands
<1> QED
  BY <1>1, <1>2, <1>3 DEF AtPut

LEMMA LandsWear ==
    ASSUME GearAssumption, StatInv, Wear(Player)
    PROVE  Lands /\ (AtDeltas' \/ todo'[Player] = <<>>)
<1> DEFINE c == asked.call
           s == Slot(c)
<1>1. /\ TypeOK /\ c \in PlayerCall /\ todo[Player] # <<>>
      /\ \A k \in Due : asked.bare[k] \in Int
      /\ Continue(Player, <<>>) /\ UNCHANGED stats /\ <<>> \in Seq(Statements)
  BY DEF Wear, At, StatInv, AskedOK, Due
<1>2. ASSUME At(Player, "clear"), worn' = [worn EXCEPT ![Now(Player).slot] = None]
      PROVE  Lands /\ (AtDeltas' \/ todo'[Player] = <<>>)
  <2>1. PICK x \in ItemType : /\ Applies(x, -1, Giving(x, c)) /\ Off(x, -1, DOMAIN Deltas(x))
                             /\ todo[Player] = Clearing(c)
    BY <1>1, <1>2, PhaseAt DEF AtClear
  <2>2. x = worn[s] /\ Dresses(c) /\ s \in EquipSlot /\ Rest(c) \in Seq(Statements)
    BY <1>1, <2>1, Parts DEF Applies
  <2>3. Now(Player).slot = s
    BY <2>1, <2>2, NowOf DEF Clearing
  <2>4. /\ todo'[Player] = Rest(c) /\ (todo'[Player] # <<>> => asked' = asked)
    BY <1>1, <2>1, <2>2, Onward DEF Clearing
  <2>5. \A k \in Due : Bare(k)' = asked.bare[k]
    <3> SUFFICES ASSUME NEW k \in Due PROVE Bare(k)' = asked.bare[k]
      OBVIOUS
    <3>0. k \in GearStat
      BY DEF Due
    <3>1. Bare(k)' = Bare(k) + Worth(x, k) - Worth(None, k)
      BY <1>1, <1>2, <2>2, <2>3, <3>0, BareWorn
    <3>2. Bare(k) = asked.bare[k] + (IF k \in DOMAIN Deltas(x) THEN (-1) * Worth(x, k) ELSE 0)
      BY <2>1 DEF Off
    <3>3. /\ Worth(x, k) \in Int /\ (k \notin DOMAIN Deltas(x) => Worth(x, k) = 0)
          /\ Worth(None, k) = 0 /\ asked.bare[k] \in Int
      BY <1>1, DeltasType DEF Worth
    <3> QED
      BY <3>1, <3>2, <3>3
  <2>6. CASE Rest(c) = <<>>
    BY <2>4, <2>5, <2>6 DEF Lands
  <2>7. CASE Rest(c) # <<>>
    <3>1. c.op = "equip" /\ c.item \in DOMAIN Declared /\ c.item \in ItemType
      BY <2>2, <2>7 DEF Rest, Dresses, GearAssumption
    <3>2. /\ Rest(c) = Dressing(c.item, 1, DOMAIN Deltas(c.item), Taking(c.item))
          /\ Taking(c.item) \in Seq(Statements) /\ DOMAIN Deltas(c.item) \in SUBSET Stat
      BY <1>1, <2>2, <3>1, Parts, DeltasType DEF Rest
    <3>3. asked' = asked
      BY <2>4, <2>7
    <3>4. worn'[s] = None
      BY <1>1, <1>2, <2>2, <2>3 DEF TypeOK
    <3>5. Off(c.item, 1, DOMAIN Deltas(c.item) \ DOMAIN Deltas(c.item))'
      BY <1>1, <2>5, <3>3 DEF Off, Due
    <3>6. Applies(c.item, 1, Taking(c.item))'
      BY <2>2, <3>1, <3>3, <3>4 DEF Applies
    <3>7. AtDeltas'
      BY <2>4, <3>1, <3>2, <3>3, <3>5, <3>6 DEF AtDeltas
    <3> QED
      BY <2>4, <2>7, <3>7 DEF Lands, Phase
  <2> QED
    BY <2>6, <2>7
<1>3. ASSUME At(Player, "wear"), worn' = [worn EXCEPT ![Now(Player).slot] = Now(Player).item]
      PROVE  Lands /\ (AtDeltas' \/ todo'[Player] = <<>>)
  <2>1. PICK x \in DOMAIN Declared : /\ Applies(x, 1, Taking(x)) /\ Off(x, 1, DOMAIN Deltas(x))
                                    /\ todo[Player] = Wearing(x)
    BY <1>1, <1>3, PhaseAt DEF AtWear
  <2>2. /\ worn[s] = None /\ x = c.item /\ Dresses(c) /\ c.op = "equip"
    BY <2>1 DEF Applies
  <2>3. s \in EquipSlot /\ s = Declared[x].slot
    BY <1>1, <2>2, Parts
  <2>4. Now(Player).slot = s /\ Now(Player).item = x /\ Tail(todo[Player]) = <<>>
    BY <2>1, <2>3, NowOfOne DEF Wearing
  <2>5. todo'[Player] = <<>>
    <3>1. todo'[Player] = <<>> \o Tail(todo[Player])
      BY <1>1, Advance, ContinueType DEF Actor
    <3> QED
      BY <2>4, <3>1
  <2>6. \A k \in Due : Bare(k)' = asked.bare[k]
    <3> SUFFICES ASSUME NEW k \in Due PROVE Bare(k)' = asked.bare[k]
      OBVIOUS
    <3>0. k \in GearStat
      BY DEF Due
    <3>1. Bare(k)' = Bare(k) + Worth(None, k) - Worth(x, k)
      BY <1>1, <1>3, <2>2, <2>3, <2>4, <3>0, BareWorn
    <3>2. Bare(k) = asked.bare[k] + (IF k \in DOMAIN Deltas(x) THEN 1 * Worth(x, k) ELSE 0)
      BY <2>1 DEF Off
    <3>3. /\ Worth(x, k) \in Int /\ (k \notin DOMAIN Deltas(x) => Worth(x, k) = 0)
          /\ Worth(None, k) = 0 /\ asked.bare[k] \in Int
      BY <1>1, DeltasType DEF Worth
    <3> QED
      BY <3>1, <3>2, <3>3
  <2> QED
    BY <2>5, <2>6 DEF Lands
<1> QED
  BY <1>2, <1>3 DEF Wear

LEMMA LandsOther ==
    ASSUME GearAssumption, StatInv, LockMover(Player) \/ Place(Player), ~ Reject(Player)
    PROVE  Lands /\ (AtOther' \/ todo'[Player] = <<>>)
<1>1. /\ TypeOK /\ UNCHANGED <<worn, stats>> /\ <<>> \in Seq(Statements) /\ todo[Player] # <<>>
      /\ AtOther
  BY PhaseAt DEF LockMover, Place, At, StatInv, rows
<1>2. PICK h \in Statements : /\ todo[Player] = <<h>> /\ Level /\ asked.call.op # "remove"
  BY <1>1 DEF AtOther
<1>3. todo[Player] = Then(h, <<>>)
  BY <1>2 DEF Then
<1>4. CASE Place(Player)
  <2>1. todo'[Player] = <<>>
    BY <1>1, <1>3, <1>4, Onward DEF Place
  <2> QED
    BY <1>1, <1>2, <2>1, StillOff DEF Lands
<1>5. CASE LockMover(Player)
  <2>1. PICK a : /\ a = [op |-> "target", item |-> Now(Player).item, to |-> Now(Player).to]
                 /\ Continue(Player, <<a>>) /\ At(Player, "mover")
    BY <1>5 DEF LockMover
  <2>2. a \in Statements /\ a.op = "target"
    <3>1. Now(Player).item \in ItemType /\ Now(Player).to \in Position
      BY <1>1, <2>1, NowType, StatementType DEF At, Actor
    <3> QED
      BY <2>1, <3>1 DEF Statements
  <2>3. todo'[Player] = <<a>> /\ asked' = asked
    <3>1. <<a>> \in Seq(Statements) /\ <<a>> \o <<>> = <<a>> /\ <<a>> # <<>>
      BY <2>2
    <3> QED
      BY <1>1, <1>3, <2>1, <3>1, Onward
  <2>4. AtOther'
    BY <1>1, <1>2, <2>2, <2>3, StillOff DEF AtOther
  <2> QED
    BY <2>3, <2>4 DEF Lands, Phase
<1> QED
  BY <1>4, <1>5

\* Whatever statement it is.
LEMMA LandsStatement ==
    ASSUME GearAssumption, StatInv, Statement(Player), ~ Reject(Player)
    PROVE  Lands
BY LandsOwn, LandsOccupant, LandsDelta, LandsStat, LandsSet, LandsGrant, LandsInsert, LandsRemove,
   LandsPut, LandsWear, LandsOther DEF Statement, Undeclared

\* What the player's call is to leave stays as far off as it is.
StillDue ==
    /\ asked'.call = asked.call /\ asked'.copies = asked.copies
    /\ Level => Level'
    /\ \A x, A : \A g \in {1, -1} : Off(x, g, A) => Off(x, g, A)'

\* Steps of others leave the player's call where it is.
LEMMA PhaseStays ==
    ASSUME GearAssumption, StatInv, UNCHANGED worn, todo'[Player] = todo[Player],
           todo[Player] # <<>> => StillDue
    PROVE  Phase'
<1> SUFFICES ASSUME todo[Player] # <<>> PROVE Phase'
  BY DEF Phase
<1>1. asked'.call = asked.call
  BY DEF StillDue
<1>2. /\ Level => Level'
      /\ \A x, A : \A g \in {1, -1} : Off(x, g, A) => Off(x, g, A)'
      /\ \A x, g, r : Applies(x, g, r) => Applies(x, g, r)'
  BY DEF StillDue, Applies
<1>4. /\ (AtOwn => AtOwn') /\ (AtOccupant => AtOccupant') /\ (AtOther => AtOther')
  BY <1>1, <1>2 DEF AtOwn, AtOccupant, AtOther
<1>5. AtDeltas => AtDeltas'
  BY <1>2 DEF AtDeltas
<1>6. AtStat => AtStat'
  BY <1>2 DEF AtStat
<1>7. AtSet => AtSet'
  BY <1>2 DEF AtSet
<1>8. /\ (AtGrant => AtGrant') /\ (AtInsert => AtInsert') /\ (AtClear => AtClear')
  BY <1>1, <1>2 DEF AtGrant, AtInsert, AtClear
<1>9. /\ (AtRemove => AtRemove') /\ (AtPut => AtPut') /\ (AtWear => AtWear')
  BY <1>1, <1>2 DEF AtRemove, AtPut, AtWear
<1> QED
  BY <1>4, <1>5, <1>6, <1>7, <1>8, <1>9 DEF StatInv, Phase

\* Steps that touch neither stats nor what is worn are such.
LEMMA DueSame ==
    ASSUME GearAssumption, StatInv, UNCHANGED <<asked, worn, stats>>, todo'[Player] = todo[Player]
    PROVE  StillDue /\ AskedOK'
BY StillOff DEF StillDue, StatInv, AskedOK

\* And so is a stat that a plugin sets: what it adds is due.
LEMMA DueSet ==
    ASSUME GearAssumption, StatInv, SetStat(Plugin), ~ Reject(Plugin), todo[Player] # <<>>
    PROVE  StillDue /\ AskedOK'
<1> DEFINE o == Now(Plugin)
<1>1. /\ TypeOK /\ AskedOK /\ Plugin \in Actor /\ Plugin # Player
      /\ todo[Plugin] # <<>> /\ o.op = "set"
  BY DEF StatInv, Actor, GearAssumption, SetStat, At
<1>2. o.stat \in Stat /\ o.by \in Int
  BY <1>1, NowType, StatementType
<1>3. asked' = Noted(Plugin, o)
  BY <1>1 DEF SetStat, GoOn
<1> HIDE DEF o
<1>4. /\ asked'.call = asked.call /\ asked'.copies = asked.copies
      /\ DOMAIN asked'.bare = DOMAIN asked.bare \ (IF Overtaken(o) THEN {o.stat} ELSE {})
      /\ \A k \in DOMAIN asked'.bare :
            asked'.bare[k] = asked.bare[k] + (IF k = o.stat THEN o.by ELSE 0)
  BY <1>3, NotedIs
<1>5. /\ asked.bare \in [DOMAIN asked.bare -> Int] /\ DOMAIN asked.bare \subseteq GearStat
      /\ asked.call \in PlayerCall /\ asked.copies \in [DOMAIN Declared -> Int]
  BY <1>1 DEF AskedOK
<1>6. AskedOK'
  <2>1. \A k \in DOMAIN asked'.bare : asked'.bare[k] \in Int
    BY <1>2, <1>4, <1>5
  <2>2. asked'.bare = [k \in DOMAIN asked'.bare |-> asked'.bare[k]]
    BY <1>3 DEF Noted, Asking
  <2>3. asked'.bare \in [DOMAIN asked'.bare -> Int]
    BY <2>1, <2>2
  <2> QED
    BY <1>4, <1>5, <2>3 DEF AskedOK, GearStat
<1>7. \A k \in DOMAIN asked'.bare :
         /\ k \in Due /\ asked.bare[k] \in Int /\ Bare(k) \in Int
         /\ Bare(k)' = Bare(k) + (IF k = o.stat THEN o.by ELSE 0)
  BY <1>1, <1>4, <1>5, BareType, SetMoves DEF Due, o
<1>8. ASSUME NEW n, NEW k \in DOMAIN asked'.bare, n \in Int, Bare(k) = asked.bare[k] + n
      PROVE  Bare(k)' = asked'.bare[k] + n
  BY <1>2, <1>4, <1>7, <1>8
<1>9. Level => Level'
  <2> SUFFICES ASSUME Level, NEW k \in DOMAIN asked'.bare PROVE Bare(k)' = asked'.bare[k]
    BY DEF Level, Due, GearStat
  <2>1. Bare(k) = asked.bare[k] + 0
    BY <1>7 DEF Level
  <2>2. Bare(k)' = asked'.bare[k] + 0
    BY <1>8, <2>1
  <2> QED
    BY <1>2, <1>4, <1>7, <2>2
<1>10. \A x, A : \A g \in {1, -1} : Off(x, g, A) => Off(x, g, A)'
  <2> SUFFICES ASSUME NEW x, NEW A, NEW g \in {1, -1}, Off(x, g, A)
               PROVE  Off(x, g, A)'
    OBVIOUS
  <2> SUFFICES ASSUME NEW k \in DOMAIN asked'.bare
               PROVE  Bare(k)' = asked'.bare[k] + (IF k \in A THEN g * Worth(x, k) ELSE 0)
    BY DEF Off, Due
  <2> DEFINE n == IF k \in A THEN g * Worth(x, k) ELSE 0
  <2>1. Bare(k) = asked.bare[k] + n
    BY <1>7 DEF Off
  <2>2. n \in Int
    <3>1. Worth(x, k) \in Int
      BY DEF Worth, Deltas, GearAssumption
    <3> QED
      BY <3>1
  <2> HIDE DEF n
  <2>3. Bare(k)' = asked'.bare[k] + n
    BY <1>8, <2>1, <2>2
  <2> QED
    BY <2>3 DEF n
<1> QED
  BY <1>4, <1>6, <1>9, <1>10 DEF StillDue

\* Copies are counted in numbers.
LEMMA CopiesType ==
    ASSUME GearAssumption, TypeOK, NEW i \in ItemType
    PROVE  Copies(i) \in Int
<1>1. items[i] \in Int
  BY DEF TypeOK
<1>2. Cardinality({s \in EquipSlot : worn[s] = i}) \in Int
  BY FS_Subset, FS_CardinalityType DEF GearAssumption
<1> QED
  BY <1>1, <1>2 DEF Copies

\* A call begins in its first phase, with the stats and copies there are.
LEMMA AskLands ==
    ASSUME GearAssumption, TypeOK, NEW c \in PlayerCall, Ask(Player, c)
    PROVE  AskedOK' /\ (AtOwn' \/ AtOccupant' \/ AtRemove' \/ AtOther')
<1>1. /\ todo'[Player] = Program(c) /\ UNCHANGED <<items, worn, stats>>
      /\ asked' = [call |-> c, copies |-> [i \in DOMAIN Declared |-> Copies(i)],
                    bare |-> [k \in GearStat |-> Bare(k)]]
  BY DEF Ask, Asking, rows, TypeOK, Actor, GearAssumption
<1>2. \A k \in GearStat : Bare(k) \in Int /\ Bare(k)' = Bare(k)
  BY <1>1, BareType, BareSame
<1>3. \A i \in DOMAIN Declared : Copies(i) \in Int
  BY CopiesType DEF GearAssumption
<1>4. /\ asked'.call = c /\ asked'.bare = [k \in GearStat |-> Bare(k)]
      /\ asked'.copies = [i \in DOMAIN Declared |-> Copies(i)]
  BY <1>1
<1>5. AskedOK'
  <2>1. DOMAIN asked'.bare = GearStat /\ asked'.bare \in [GearStat -> Int]
    BY <1>2, <1>4
  <2> QED
    BY <1>3, <1>4, <2>1 DEF AskedOK, GearStat
<1>6. Level'
  BY <1>2, <1>4 DEF Level, Due, GearStat
<1>7. CASE Dresses(c)
  <2>1. CASE c.op = "equip"
    <3>1. AtOwn'
      BY <1>1, <1>4, <1>6, <1>7, <2>1 DEF AtOwn
    <3> QED
      BY <1>5, <3>1
  <2>2. CASE c.op = "unequip"
    <3>1. Program(c) = Then([op |-> "occupant", slot |-> Slot(c), must |-> TRUE], Rest(c))
      BY <1>7, <2>2, ProgramParts
    <3>2. (asked'.call.op = "unequip") = TRUE
      BY <1>4, <2>2
    <3>3. AtOccupant'
      BY <1>1, <1>4, <1>6, <1>7, <3>1, <3>2 DEF AtOccupant
    <3> QED
      BY <1>5, <3>3
  <2> QED
    BY <1>7, <2>1, <2>2 DEF Dresses
<1>8. CASE c.op = "remove"
  <2>1. Program(c) = <<c>>
    BY <1>8 DEF Program
  <2>2. AtRemove'
    BY <1>1, <1>4, <1>6, <1>8, <2>1 DEF AtRemove
  <2> QED
    BY <1>5, <2>2
<1>9. CASE ~ Dresses(c) /\ c.op # "remove"
  <2>1. PICK o : Program(c) = <<o>> /\ o.op \in {"mover", "undeclared"}
    BY <1>9 DEF Program, GearAssumption, Dresses
  <2>2. o \in Statements
    <3>1. <<o>> \in Seq(Statements)
      BY <2>1, ProgramType
    <3> QED
      BY <3>1
  <2>3. AtOther'
    BY <1>1, <1>4, <1>6, <1>9, <2>1, <2>2 DEF AtOther
  <2> QED
    BY <1>5, <2>3
<1> QED
  BY <1>7, <1>8, <1>9

\* What a plugin's statement may change.
PluginMay ==
    /\ UNCHANGED worn /\ todo'[Player] = todo[Player]
    /\ todo[Player] # <<>> => StillDue
    /\ AskedOK' /\ PluginPhase'

LEMMA PluginStep ==
    ASSUME GearAssumption, StatInv,
           \/ \E c \in Effect : Ask(Plugin, c)
           \/ Statement(Plugin) \/ Fail(Plugin)
    PROVE  PluginMay
<1>1. Plugin # Player /\ TypeOK /\ Plugin \in Actor
  BY DEF GearAssumption, StatInv, Actor
<1>2. ASSUME NEW c \in Effect, Ask(Plugin, c)
      PROVE  PluginMay
  <2>1. todo'[Plugin] = Program(c) /\ todo'[Player] = todo[Player] /\ UNCHANGED <<asked, worn, stats>>
    BY <1>1, <1>2 DEF Ask, rows, TypeOK, Actor
  <2>2. Program(c) = <<c>> /\ c.op \in {"grant", "remove", "stat"}
    BY DEF GearAssumption, Program
  <2>3. PluginPhase'
    BY <2>1, <2>2 DEF PluginPhase, Now
  <2> QED
    BY <2>1, <2>3, DueSame DEF PluginMay
<1>3. ASSUME Reject(Plugin) \/ Fail(Plugin)
      PROVE  PluginMay
  <2>1. UNCHANGED <<asked, worn, stats>> /\ todo'[Player] = todo[Player] /\ PluginPhase'
    BY <1>1, <1>3 DEF Reject, Fail, Return, rows, TypeOK, Actor, PluginPhase
  <2> QED
    BY <2>1, DueSame DEF PluginMay
<1>4. ASSUME Statement(Plugin), ~ Reject(Plugin)
      PROVE  PluginMay
  <2> DEFINE o == Now(Plugin)
  <2>1. todo[Plugin] # <<>>
    BY <1>1, <1>4, Continues
  <2>2. /\ o.op \in {"grant", "insert", "remove", "put", "stat", "set"}
        /\ todo[Plugin] = <<o>> /\ o \in Statements
        /\ o.op \notin {"stat", "set"} => \E e \in Effect : e.op # "stat" /\ o.item = e.item
    BY <1>1, <2>1, NowType DEF StatInv, PluginPhase
  <2>3. \/ ReadGrant(Plugin) \/ Insert(Plugin) \/ ReadRemove(Plugin) \/ Put(Plugin)
        \/ ReadStat(Plugin) \/ SetStat(Plugin)
    BY <1>4, <2>2 DEF Statement, Undeclared, Own, Occupant, NextDelta, Wear,
         LockMover, Place, At
  <2>4. UNCHANGED worn /\ (~ SetStat(Plugin) => UNCHANGED stats)
    BY <1>4, <2>3 DEF ReadGrant, Insert, ReadRemove, Put, ReadStat, SetStat, rows
  <2>5. PICK ss : /\ Advances(Plugin, ss)
                  /\ ~ SetStat(Plugin) => Continue(Plugin, ss)
                  /\ \/ ss = <<>>
                     \/ \E a : /\ ss = <<a>> /\ a.op \in {"insert", "put", "set"}
                               /\ a.op # "set" => a.item = o.item /\ o.op \notin {"stat", "set"}
    <3>1. CASE Insert(Plugin) \/ Put(Plugin) \/ SetStat(Plugin)
      BY <1>4, <3>1, Advance DEF Insert, Put, SetStat
    <3>2. CASE ReadRemove(Plugin)
      <4>1. PICK a : /\ a = [op |-> "put", item |-> o.item, value |-> items[o.item] - o.n]
                     /\ Continue(Plugin, <<a>>) /\ o.op = "remove"
        BY <1>4, <3>2 DEF ReadRemove, At
      <4> QED
        BY <4>1, Advance
    <3>3. CASE ReadGrant(Plugin)
      <4>1. PICK a : a = [o EXCEPT !.op = "insert"] /\ Continue(Plugin, <<a>>)
        BY <1>4, <3>3 DEF ReadGrant
      <4>2. o \in [op : {"grant", "remove"}, item : ItemType, n : Int] /\ o.op = "grant"
        BY <2>2, <3>3 DEF ReadGrant, At, Statements
      <4>3. a.op = "insert" /\ a.item = o.item
        BY <4>1, <4>2
      <4> QED
        BY <4>1, <4>2, <4>3, Advance
    <3>4. CASE ReadStat(Plugin)
      <4>1. PICK a : /\ a = [op |-> "set", stat |-> o.stat, by |-> o.by, value |-> stats[o.stat] + o.by]
                     /\ Continue(Plugin, <<a>>)
        BY <1>4, <3>4 DEF ReadStat
      <4> QED
        BY <4>1, Advance
    <3> QED
      BY <2>3, <3>1, <3>2, <3>3, <3>4
  <2>6. todo'[Plugin] = ss \o <<>> /\ todo'[Player] = todo[Player]
    BY <1>1, <2>2, <2>5 DEF Advances, TypeOK, Actor
  <2>7. todo'[Plugin] = ss
    BY <2>5, <2>6
  <2>8. ~ SetStat(Plugin) => asked' = asked
    BY <1>1, <2>5 DEF Continue, GoOn
  <2>9. PluginPhase'
    BY <2>2, <2>5, <2>7 DEF PluginPhase, Now
  <2>10. (todo[Player] # <<>> => StillDue) /\ AskedOK'
    <3>1. CASE ~ SetStat(Plugin)
      BY <2>4, <2>6, <2>8, <3>1, DueSame
    <3>2. CASE SetStat(Plugin) /\ todo[Player] # <<>>
      BY <1>4, <3>2, DueSet
    <3>3. CASE todo[Player] = <<>>
      BY <2>6, <3>3 DEF AskedOK
    <3> QED
      BY <3>1, <3>2, <3>3
  <2> QED
    BY <2>4, <2>6, <2>9, <2>10 DEF PluginMay
<1> QED
  BY <1>2, <1>3, <1>4

\* What a step of the player leaves alone.
LEMMA PlayerStep ==
    ASSUME GearAssumption, StatInv,
           \/ \E c \in PlayerCall : Ask(Player, c)
           \/ Statement(Player) \/ Fail(Player)
    PROVE  todo'[Plugin] = todo[Plugin] /\ PluginPhase'
<1>1. Plugin # Player /\ TypeOK /\ Player \in Actor /\ Plugin \in Actor
  BY DEF GearAssumption, StatInv, Actor
<1>2. todo'[Plugin] = todo[Plugin]
  <2>1. CASE \E c \in PlayerCall : Ask(Player, c)
    BY <1>1, <2>1 DEF Ask, TypeOK
  <2>2. CASE Reject(Player) \/ Fail(Player)
    BY <1>1, <2>2 DEF Reject, Fail, TypeOK
  <2>3. CASE Statement(Player) /\ ~ Reject(Player)
    <3>1. PICK ss : Advances(Player, ss)
      BY <1>1, <2>3, Continues DEF GoesOn
    <3> QED
      BY <1>1, <3>1 DEF Advances, TypeOK
  <2> QED
    BY <2>1, <2>2, <2>3
<1> QED
  BY <1>2 DEF StatInv, PluginPhase, Now

\* No statement but set_stat learns anything of the call.
LEMMA GoesWith ==
    ASSUME NEW p \in Actor, Statement(p), ~ Reject(p), ~ SetStat(p)
    PROVE  (\E ss : Continue(p, ss)) /\ todo[p] # <<>>
BY DEF Statement, Undeclared, Own, Occupant, NextDelta, ReadStat, ReadGrant, Insert, ReadRemove,
       Put, Wear, LockMover, Place, At

\* Every step keeps the phases.
LEMMA StatStep ==
    ASSUME GearAssumption, StatInv, [Next]_vars
    PROVE  StatInv'
<1>1. TypeOK /\ TypeOK' /\ <<>> \in Seq(Statements)
  BY TypeStep DEF StatInv
<1>2. CASE UNCHANGED vars
  <2>1. PluginPhase'
    BY <1>2 DEF vars, StatInv, PluginPhase, Now
  <2>2. Phase' /\ AskedOK'
    BY <1>2, DueSame, PhaseStays DEF vars
  <2> QED
    BY <1>1, <2>1, <2>2 DEF StatInv
<1>3. CASE PluginAsks \/ Statement(Plugin) \/ Fail(Plugin)
  <2>1. PluginMay
    BY <1>3, PluginStep DEF PluginAsks
  <2> QED
    BY <1>1, <2>1, PhaseStays DEF StatInv, PluginMay
<1>4. CASE PlayerAsks
  <2>1. PICK c \in PlayerCall : Ask(Player, c)
    BY <1>4 DEF PlayerAsks
  <2> QED
    BY <1>1, <2>1, AskLands, PlayerStep DEF StatInv, Phase
<1>5. CASE (Reject(Player) /\ Statement(Player)) \/ Fail(Player)
  <2>1. todo'[Player] = <<>>
    BY <1>1, <1>5 DEF Reject, Fail, TypeOK, Actor
  <2>2. Phase' /\ AskedOK'
    BY <2>1 DEF Phase, AskedOK
  <2> QED
    BY <1>1, <1>5, <2>2, PlayerStep DEF StatInv
<1>6. CASE Statement(Player) /\ ~ Reject(Player)
  <2>1. Lands
    BY <1>6, LandsStatement
  <2>2. Phase'
    BY <2>1 DEF Lands, Phase
  <2>3. AskedOK'
    <3>1. CASE SetStat(Player)
      BY <1>6, <3>1, LandsSet
    <3>2. CASE ~ SetStat(Player)
      <4>1. (\E ss : Continue(Player, ss)) /\ todo[Player] # <<>>
        BY <1>6, <3>2, GoesWith DEF Actor
      <4> QED
        BY <4>1 DEF Continue, GoOn, StatInv, AskedOK
    <3> QED
      BY <3>1, <3>2
  <2> QED
    BY <1>1, <1>6, <2>2, <2>3, PlayerStep DEF StatInv
<1> QED
  BY <1>2, <1>3, <1>4, <1>5, <1>6 DEF Next, Actor

\* Nothing is asked at first.
LEMMA StatInit ==
    ASSUME GearAssumption, Init
    PROVE  StatInv
<1>1. \A p \in Actor : todo[p] = <<>>
  BY DEF Init
<1>2. TypeOK
  <2>1. <<>> \in Seq(Statements)
    OBVIOUS
  <2> QED
    BY <2>1 DEF GearAssumption, Init, TypeOK
<1> QED
  BY <1>1, <1>2 DEF StatInv, AskedOK, PluginPhase, Phase, Actor

\* An accepted equip_item or unequip_item has moved each stat by exactly what is worn
\* more or less after it, whatever rejected or failed calls left behind before.
THEOREM StatsAreFollowed == Spec => StatsFollowGear
<1> USE GearIsDeclared
<1> DEFINE P == Ends("accepted") => \A k \in DOMAIN asked.bare : Bare(k)' = asked.bare[k]
<1>1. Init => StatInv
  BY StatInit
<1>2. StatInv /\ [Next]_vars => StatInv'
  BY StatStep
<1>3. ASSUME StatInv, Next PROVE P
  <2> SUFFICES ASSUME Ends("accepted")
               PROVE  \A k \in DOMAIN asked.bare : Bare(k)' = asked.bare[k]
    OBVIOUS
  <2>1. TypeOK /\ todo[Player] # <<>> /\ todo'[Player] = <<>> /\ reply' = "accepted" /\ Player \in Actor
    BY <1>3 DEF StatInv, Ends, Actor
  <2>2. ~ (Reject(Player) \/ Fail(Player))
    BY <2>1 DEF Reject, Fail, Return
  <2>3. ~ (PluginAsks \/ Statement(Plugin) \/ Fail(Plugin))
    BY <1>3, <2>1, PluginStep DEF PluginAsks, PluginMay
  <2>4. ~ PlayerAsks
    BY <2>1 DEF PlayerAsks, Ask
  <2>5. Statement(Player)
    BY <1>3, <2>2, <2>3, <2>4 DEF Next, Actor
  <2>6. DOMAIN asked.bare \subseteq GearStat
    BY <1>3, <2>1 DEF StatInv, AskedOK
  <2> QED
    BY <1>3, <2>1, <2>2, <2>5, <2>6, LandsStatement DEF Lands, Due
<1>4. StatInv /\ [Next]_vars => [P]_vars
  BY <1>3
<1> QED
  BY <1>1, <1>2, <1>4, PTL DEF Spec, StatsFollowGear
----------------------------------------------------------------------------
(* The copies, step by step.                                                *)

\* Only what is worn and what is carried moves copies, one at a time.
LEMMA CopiesSame ==
    ASSUME UNCHANGED worn, NEW i, items'[i] = items[i]
    PROVE  Copies(i)' = Copies(i)
BY DEF Copies

LEMMA CopiesWorn ==
    ASSUME GearAssumption, TypeOK, UNCHANGED items, NEW s \in EquipSlot, NEW x,
           worn' = [worn EXCEPT ![s] = x], NEW i \in ItemType
    PROVE  Copies(i)' = Copies(i) + (IF x = i THEN 1 ELSE 0) - (IF worn[s] = i THEN 1 ELSE 0)
<1> DEFINE Rest0 == {t \in EquipSlot \ {s} : worn[t] = i}
<1>1. PICK W : W = {t \in EquipSlot : worn[t] = i}
  OBVIOUS
<1>2. PICK V : V = {t \in EquipSlot : worn'[t] = i}
  OBVIOUS
<1>3. PICK R : R = {t \in EquipSlot \ {s} : worn[t] = i}
  OBVIOUS
<1>4. IsFiniteSet(R) /\ Cardinality(R) \in Nat /\ s \notin R
  BY <1>3, FS_Subset, FS_CardinalityType DEF GearAssumption
<1>5. Cardinality(R \cup {s}) = Cardinality(R) + 1
  BY <1>4, FS_AddElement
<1>6. W = IF worn[s] = i THEN R \cup {s} ELSE R
  BY <1>1, <1>3
<1>7. V = IF x = i THEN R \cup {s} ELSE R
  BY <1>2, <1>3 DEF TypeOK
<1>8. Copies(i) = items[i] + Cardinality(W) /\ Copies(i)' = items[i] + Cardinality(V)
  BY <1>1, <1>2 DEF Copies
<1>9. items[i] \in Int
  BY DEF TypeOK
<1> QED
  BY <1>4, <1>5, <1>6, <1>7, <1>8, <1>9

LEMMA CopiesCarried ==
    ASSUME GearAssumption, TypeOK, UNCHANGED worn, NEW j, NEW n \in Int,
           items' = [items EXCEPT ![j] = items[j] + n], NEW i \in ItemType
    PROVE  Copies(i)' = Copies(i) + (IF i = j THEN n ELSE 0)
<1>1. Cardinality({t \in EquipSlot : worn[t] = i}) \in Int
  BY FS_Subset, FS_CardinalityType DEF GearAssumption
<1>2. items[i] \in Int /\ items'[i] = items[i] + (IF i = j THEN n ELSE 0)
  BY DEF TypeOK
<1> QED
  BY <1>1, <1>2 DEF Copies

\* What the next statement is about, phase by phase.
LEMMA ClearNow ==
    ASSUME GearAssumption, asked.call \in PlayerCall, AtClear
    PROVE  /\ Now(Player).slot = Slot(asked.call) /\ Slot(asked.call) \in EquipSlot
           /\ Dresses(asked.call) /\ worn[Slot(asked.call)] \in ItemType
<1>1. PICK x \in ItemType : Applies(x, -1, Giving(x, asked.call)) /\ todo[Player] = Clearing(asked.call)
  BY DEF AtClear
<1>2. Dresses(asked.call) /\ x = worn[Slot(asked.call)]
  BY <1>1 DEF Applies
<1>3. Rest(asked.call) \in Seq(Statements) /\ Slot(asked.call) \in EquipSlot
  BY <1>2, Parts
<1> QED
  BY <1>1, <1>2, <1>3, NowOf DEF Clearing

\* About to wear ...
LEMMA WearNow ==
    ASSUME GearAssumption, asked.call \in PlayerCall, AtWear
    PROVE  /\ Now(Player).slot = Slot(asked.call) /\ Slot(asked.call) \in EquipSlot
           /\ Now(Player).item = asked.call.item /\ Now(Player).item \in DOMAIN Declared
           /\ Dresses(asked.call) /\ asked.call.op = "equip" /\ worn[Slot(asked.call)] = None
<1>1. PICK x \in DOMAIN Declared : Applies(x, 1, Taking(x)) /\ todo[Player] = Wearing(x)
  BY DEF AtWear
<1>2. /\ Dresses(asked.call) /\ asked.call.op = "equip" /\ x = asked.call.item
      /\ worn[Slot(asked.call)] = None
  BY <1>1 DEF Applies
<1>3. Slot(asked.call) = Declared[x].slot /\ Slot(asked.call) \in EquipSlot
  BY <1>2, Parts
<1> QED
  BY <1>1, <1>2, <1>3, NowOfOne DEF Wearing

\* ... to bring back what was taken off ...
LEMMA InsertNow ==
    ASSUME GearAssumption, asked.call \in PlayerCall, AtInsert
    PROVE  /\ Now(Player).item = worn[Slot(asked.call)] /\ Now(Player).n = 1
           /\ Now(Player).item \in ItemType
<1>1. PICK x \in ItemType : /\ Applies(x, -1, Giving(x, asked.call))
                           /\ todo[Player] = Then([op |-> "insert", item |-> x, n |-> 1],
                                                  Clearing(asked.call))
  BY DEF AtInsert
<1>2. Dresses(asked.call) /\ x = worn[Slot(asked.call)]
  BY <1>1 DEF Applies
<1>3. Clearing(asked.call) \in Seq(Statements)
  BY <1>2, Parts
<1> QED
  BY <1>1, <1>2, <1>3, NowOf

\* ... to take from the inventory ...
LEMMA RemoveNow ==
    ASSUME GearAssumption, asked.call \in PlayerCall, AtRemove
    PROVE  /\ Now(Player).item = asked.call.item /\ Now(Player).n = Taken(asked.call)
           /\ asked.call.op \in {"equip", "remove"}
<1>1. ASSUME NEW x \in DOMAIN Declared, Applies(x, 1, Taking(x)), todo[Player] = Taking(x)
      PROVE  /\ Now(Player).item = asked.call.item /\ Now(Player).n = Taken(asked.call)
             /\ asked.call.op \in {"equip", "remove"}
  <2>1. /\ Dresses(asked.call) /\ asked.call.op = "equip" /\ x = asked.call.item
    BY <1>1 DEF Applies
  <2>2. Wearing(x) \in Seq(Statements)
    BY <2>1, Parts
  <2> QED
    BY <1>1, <2>1, <2>2, NowOf DEF Taking, Taken
<1>2. ASSUME asked.call.op = "remove", todo[Player] = <<asked.call>>
      PROVE  /\ Now(Player).item = asked.call.item /\ Now(Player).n = Taken(asked.call)
             /\ asked.call.op \in {"equip", "remove"}
  BY <1>2, NowOfOne DEF Taken
<1> QED
  BY <1>1, <1>2 DEF AtRemove

\* ... and to write what remains.
LEMMA PutNow ==
    ASSUME GearAssumption, asked.call \in PlayerCall, AtPut
    PROVE  /\ Now(Player).item = asked.call.item
           /\ asked.call.op \in {"equip", "remove"}
           /\ asked.call.op = "remove" => Tail(todo[Player]) = <<>>
           /\ asked.call.op = "equip" => Tail(todo[Player]) # <<>>
<1>1. ASSUME NEW x \in DOMAIN Declared, NEW v, Applies(x, 1, Taking(x)),
             todo[Player] = Then([op |-> "put", item |-> x, value |-> v], Wearing(x))
      PROVE  /\ Now(Player).item = asked.call.item /\ asked.call.op = "equip"
             /\ Tail(todo[Player]) # <<>>
  <2>1. /\ Dresses(asked.call) /\ asked.call.op = "equip" /\ x = asked.call.item
    BY <1>1 DEF Applies
  <2>2. Wearing(x) \in Seq(Statements) /\ Wearing(x) # <<>>
    BY <2>1, Parts DEF Wearing
  <2>3. Now(Player) = [op |-> "put", item |-> x, value |-> v] /\ Tail(todo[Player]) = Wearing(x)
    BY <1>1, <2>2, NowOf
  <2>4. Now(Player).item = x
    BY <2>3
  <2> QED
    BY <2>1, <2>2, <2>3, <2>4
<1>2. ASSUME asked.call.op = "remove", NEW v,
             todo[Player] = << [op |-> "put", item |-> asked.call.item, value |-> v] >>
      PROVE  Now(Player).item = asked.call.item /\ Tail(todo[Player]) = <<>>
  BY <1>2, NowOfOne
<1> QED
  BY <1>1, <1>2 DEF AtPut

\* Where a statement of the player leaves the copies.
Settles ==
    /\ todo'[Player] # <<>> => ItemInv'
    /\ todo'[Player] = <<>> => \A i \in DOMAIN Declared : Gap(i) = Dropped(i)

Quiet == Now(Player).op \notin {"clear", "wear", "put"}

\* Between the two statements that move a copy there is a debt, at no other moment.
LEMMA OwedNothing ==
    ASSUME Quiet
    PROVE  \A i : Owed(i) = 0
BY DEF Quiet, Owed, At

\* Statements that touch neither what is worn nor what is carried, and lead to such.
LEMMA SettlesQuiet ==
    ASSUME GearAssumption, StatInv, StatInv', ItemInv, todo[Player] # <<>>, todo'[Player] # <<>>,
           Quiet, Quiet', asked'.copies = asked.copies, UNCHANGED <<items, worn>>
    PROVE  ItemInv'
<1>1. \A i : Owed(i) = 0 /\ Owed(i)' = 0
  <2>1. \A i : Owed(i) = 0
    BY OwedNothing
  <2>2. \A i : Owed(i)' = 0
    BY DEF Quiet, Owed, At
  <2> QED
    BY <2>1, <2>2
<1>2. \A i : Copies(i)' = Copies(i)
  BY CopiesSame
<1> QED
  BY <1>1, <1>2 DEF ItemInv, Quiet, At

\* Statements that only read, or write a stat.
LEMMA SettlesReading ==
    ASSUME GearAssumption, StatInv, StatInv', ItemInv, ~ Reject(Player),
           Own(Player) \/ Occupant(Player) \/ NextDelta(Player) \/ ReadStat(Player)
              \/ SetStat(Player) \/ ReadGrant(Player)
    PROVE  Settles
<1>1. /\ todo[Player] # <<>> /\ UNCHANGED <<items, worn>>
      /\ Now(Player).op \in {"own", "occupant", "deltas", "stat", "set", "grant"}
  <2>1. UNCHANGED <<items, worn>>
    BY DEF Own, Occupant, NextDelta, ReadStat, SetStat, ReadGrant, rows
  <2>2. Statement(Player) /\ Player \in Actor /\ TypeOK
    BY DEF Statement, StatInv, Actor
  <2>3. todo[Player] # <<>>
    BY <2>2, Continues
  <2> QED
    BY <2>1, <2>3 DEF Own, Occupant, NextDelta, ReadStat, SetStat, ReadGrant, At
<1>2. AtOccupant' \/ AtDeltas' \/ AtStat' \/ AtSet' \/ AtGrant' \/ AtRemove' \/ AtInsert'
  BY LandsOwn, LandsOccupant, LandsDelta, LandsStat, LandsSet, LandsGrant
<1>3. (StatInv /\ todo[Player] # <<>> => PhaseOps)'
  BY PhaseTells, PTL
<1>4. todo'[Player] # <<>>
  BY LandsOwn, LandsOccupant, LandsDelta, LandsStat, LandsSet, LandsGrant
<1>5. Quiet /\ Quiet'
  BY <1>1, <1>2, <1>3, <1>4 DEF Quiet, PhaseOps
<1>6. asked'.copies = asked.copies
  <2>1. CASE SetStat(Player)
    <3>1. asked' = Noted(Player, Now(Player))
      BY <1>4, <2>1 DEF SetStat, GoOn
    <3> QED
      BY <1>1, <3>1, NotedIs
  <2>2. CASE ~ SetStat(Player)
    <3>1. \E ss : Continue(Player, ss)
      BY <2>2, GoesWith DEF Statement, Actor
    <3> QED
      BY <1>4, <3>1 DEF Continue, GoOn
  <2> QED
    BY <2>1, <2>2
<1> QED
  BY <1>1, <1>4, <1>5, <1>6, SettlesQuiet DEF Settles

\* The same, of the next statement after a step.
NowIs ==
    /\ PhaseOps
    /\ AtClear => /\ Now(Player).slot = Slot(asked.call) /\ Slot(asked.call) \in EquipSlot
                  /\ Dresses(asked.call) /\ worn[Slot(asked.call)] \in ItemType
    /\ AtWear => /\ Now(Player).item = asked.call.item /\ Dresses(asked.call)
                 /\ asked.call.op = "equip"
    /\ AtPut => /\ Now(Player).item = asked.call.item
                /\ asked.call.op \in {"equip", "remove"}

\* The phases say so.
LEMMA NowTells ==
    ASSUME GearAssumption
    PROVE  StatInv /\ todo[Player] # <<>> => NowIs
<1> SUFFICES ASSUME StatInv, todo[Player] # <<>> PROVE NowIs
  OBVIOUS
<1>1. PhaseOps /\ asked.call \in PlayerCall
  BY PhaseTells DEF StatInv, AskedOK
<1> QED
  BY <1>1, ClearNow, WearNow, PutNow DEF NowIs

\* Before it, there is no debt.
LEMMA OwedClear ==
    ASSUME At(Player, "clear")
    PROVE  \A i : Owed(i) = IF worn[Now(Player).slot] = i THEN 1 ELSE 0
BY DEF Owed, At

LEMMA OwedWear ==
    ASSUME At(Player, "wear")
    PROVE  \A i : Owed(i) = IF Now(Player).item = i THEN -1 ELSE 0
BY DEF Owed, At

\* unequip_inner has brought the copy back before it clears the slot: one too many.
LEMMA SettlesInsert ==
    ASSUME GearAssumption, StatInv, StatInv', ItemInv, Insert(Player)
    PROVE  Settles
<1>1. /\ At(Player, "insert") /\ AtInsert /\ TypeOK /\ asked.call \in PlayerCall
      /\ todo[Player] # <<>> /\ Continue(Player, <<>>) /\ UNCHANGED worn /\ Quiet
      /\ items' = [items EXCEPT ![Now(Player).item] = items[Now(Player).item] + Now(Player).n]
  BY PhaseAt DEF Insert, At, StatInv, AskedOK, Quiet
<1>2. /\ Now(Player).item = worn[Slot(asked.call)] /\ Now(Player).n = 1
      /\ Now(Player).item \in ItemType
  BY <1>1, InsertNow
<1>3. AtClear' /\ todo'[Player] # <<>>
  BY LandsInsert
<1>4. asked' = asked
  BY <1>1, <1>3 DEF Continue, GoOn
<1>5. (StatInv /\ todo[Player] # <<>> => NowIs)'
  BY NowTells, PTL
<1>6. /\ Now(Player).op' = "clear" /\ Now(Player).slot' = Slot(asked.call)
  BY <1>3, <1>4, <1>5 DEF NowIs, PhaseOps
<1>7. ASSUME NEW i \in DOMAIN Declared
      PROVE  Copies(i)' = asked.copies[i] + Owed(i)'
  <2>1. i \in ItemType /\ asked.copies[i] \in Int
    BY <1>1 DEF GearAssumption, StatInv, AskedOK
  <2>2. Copies(i)' = Copies(i) + (IF i = worn[Slot(asked.call)] THEN 1 ELSE 0)
    <3>1. PICK j : j = Now(Player).item
      OBVIOUS
    <3>2. items' = [items EXCEPT ![j] = items[j] + 1] /\ j = worn[Slot(asked.call)]
      BY <1>1, <1>2, <3>1
    <3>3. 1 \in Int /\ UNCHANGED worn
      BY <1>1
    <3>4. Copies(i)' = Copies(i) + (IF i = j THEN 1 ELSE 0)
      BY <1>1, <2>1, <3>2, <3>3, CopiesCarried
    <3> QED
      BY <3>2, <3>4
  <2>3. Copies(i) = asked.copies[i]
    BY <1>1, <2>1, OwedNothing DEF ItemInv
  <2>4. Owed(i)' = IF worn[Slot(asked.call)] = i THEN 1 ELSE 0
    BY <1>1, <1>3, <1>6 DEF Owed, At
  <2> QED
    BY <2>1, <2>2, <2>3, <2>4
<1> QED
  BY <1>3, <1>4, <1>6, <1>7 DEF Settles, ItemInv, At

\* remove_item will write what is there less what it takes.
LEMMA SettlesRemove ==
    ASSUME GearAssumption, StatInv, StatInv', ItemInv, ReadRemove(Player), ~ Reject(Player)
    PROVE  Settles
<1> DEFINE o == Now(Player)
<1>1. /\ At(Player, "remove") /\ AtRemove /\ TypeOK /\ asked.call \in PlayerCall
      /\ todo[Player] # <<>> /\ UNCHANGED rows /\ Quiet /\ ~ (o.n < 1)
      /\ Continue(Player, << [op |-> "put", item |-> o.item, value |-> items[o.item] - o.n] >>)
  BY PhaseAt DEF ReadRemove, At, StatInv, AskedOK, Quiet
<1>2. o.n = Taken(asked.call)
  BY <1>1, RemoveNow
<1>3. AtPut' /\ todo'[Player] # <<>>
  BY LandsRemove
<1>4. asked' = asked
  BY <1>1, <1>3 DEF Continue, GoOn
<1>5. (StatInv /\ todo[Player] # <<>> => NowIs)'
  BY NowTells, PTL
<1>6. Now(Player).op' = "put"
  BY <1>3, <1>5 DEF NowIs, PhaseOps
<1>7. o \in Statements /\ Tail(todo[Player]) \in Seq(Statements)
  BY <1>1, NowType DEF Actor
<1>8. o.n \in Int /\ o.item \in ItemType /\ items[o.item] \in Nat
  BY <1>1, <1>7, StatementType DEF At, TypeOK
<1>9. Now(Player)' = [op |-> "put", item |-> o.item, value |-> items[o.item] - o.n]
  <2>1. PICK a : a = [op |-> "put", item |-> o.item, value |-> items[o.item] - o.n]
    OBVIOUS
  <2>2. PICK r \in Seq(Statements) : r = Tail(todo[Player])
    BY <1>7
  <2>3. todo'[Player] = <<a>> \o r
    <3>1. Advances(Player, <<a>>)
      BY <1>1, <2>1, Advance
    <3> QED
      BY <1>1, <2>2, <3>1 DEF Advances, TypeOK, Actor
  <2>4. Head(<<a>> \o r) = a
    OBVIOUS
  <2> QED
    BY <2>1, <2>3, <2>4 DEF Now
<1>10. /\ Now(Player).item' = o.item /\ Now(Player).value' = items[o.item] - o.n
  BY <1>9
<1>11. \A i : Owed(i) = 0 /\ Owed(i)' = 0
  <2>1. \A i : Owed(i)' = 0
    BY <1>6 DEF Owed, At
  <2> QED
    BY <1>1, <2>1, OwedNothing
<1>12. \A i : Copies(i)' = Copies(i)
  BY <1>1, CopiesSame DEF rows
<1>13. \A i \in DOMAIN Declared : Copies(i)' = asked.copies[i] + Owed(i)'
  BY <1>1, <1>11, <1>12 DEF ItemInv
<1>14. o.n >= 1 /\ items' = items
  BY <1>1, <1>8 DEF rows
<1>15. items'[Now(Player).item'] = Now(Player).value' + Taken(asked.call)
  BY <1>2, <1>8, <1>10, <1>14
<1> HIDE DEF o
<1> QED
  BY <1>2, <1>3, <1>4, <1>13, <1>14, <1>15 DEF Settles, ItemInv

\* equip_item has taken the copy before it wears it: one too few.
LEMMA SettlesPut ==
    ASSUME GearAssumption, StatInv, StatInv', ItemInv, Put(Player)
    PROVE  Settles
<1> DEFINE o == Now(Player)
           c == asked.call
<1>1. /\ At(Player, "put") /\ AtPut /\ TypeOK /\ c \in PlayerCall /\ asked' \in {asked, NotAsked}
      /\ todo[Player] # <<>> /\ Continue(Player, <<>>) /\ UNCHANGED worn /\ Player \in Actor
      /\ items' = [items EXCEPT ![o.item] = IF @ = 0 THEN 0 ELSE o.value]
  BY PhaseAt DEF Put, At, StatInv, AskedOK, Continue, GoOn, Return, Actor
<1>2. /\ o.item = c.item /\ c.op \in {"equip", "remove"}
      /\ c.op = "remove" => Tail(todo[Player]) = <<>>
      /\ c.op = "equip" => Tail(todo[Player]) # <<>>
  BY <1>1, PutNow
<1>3. o.item \in ItemType /\ o.value \in Nat
  BY <1>1, NowType, StatementType DEF At
<1>4. todo'[Player] = Tail(todo[Player])
  <2>1. todo'[Player] = <<>> \o Tail(todo[Player]) /\ Tail(todo[Player]) \in Seq(Statements)
    BY <1>1, NowType, Advance DEF Advances, TypeOK
  <2> QED
    BY <2>1
<1>5. \A i \in DOMAIN Declared :
         /\ i \in ItemType /\ asked.copies[i] \in Int /\ Copies(i) = asked.copies[i]
         /\ Copies(i)' = Copies(i) - (IF i = c.item THEN Taken(c) ELSE 0)
  <2>1. \A i : Owed(i) = 0
    BY <1>1 DEF Owed, At
  <2> SUFFICES ASSUME NEW i \in DOMAIN Declared
               PROVE  /\ i \in ItemType /\ asked.copies[i] \in Int /\ Copies(i) = asked.copies[i]
                      /\ Copies(i)' = Copies(i) - (IF i = c.item THEN Taken(c) ELSE 0)
    OBVIOUS
  <2>2. i \in ItemType /\ asked.copies[i] \in Int /\ Copies(i) = asked.copies[i] /\ Copies(i) \in Int
    BY <1>1, <2>1, CopiesType DEF GearAssumption, StatInv, AskedOK, ItemInv
  <2>3. CASE i # c.item
    <3>1. items'[i] = items[i]
      BY <1>1, <1>2, <2>2, <2>3 DEF TypeOK
    <3> QED
      BY <1>1, <2>2, <2>3, <3>1, CopiesSame
  <2>4. CASE i = c.item
    <3>1. Taken(c) >= 1 /\ items[o.item] = o.value + Taken(c)
      BY <1>1, <1>2, <2>4 DEF ItemInv
    <3>2. Taken(c) \in Int /\ items[o.item] \in Nat
      <4>1. items[o.item] \in Nat
        BY <1>1, <1>3 DEF TypeOK
      <4>2. c.op = "remove" => c.n \in Int
        BY <1>1 DEF GearAssumption
      <4> QED
        BY <4>1, <4>2 DEF Taken
    <3>3. PICK n \in Int : n = 0 - Taken(c)
      BY <3>2
    <3>4. PICK j \in ItemType : j = o.item
      BY <1>3
    <3>5. items' = [items EXCEPT ![j] = items[j] + n] /\ i = j /\ UNCHANGED worn
      <4>1. items' = [items EXCEPT ![j] = IF items[j] = 0 THEN 0 ELSE o.value]
        BY <1>1, <3>4
      <4>2. (IF items[j] = 0 THEN 0 ELSE o.value) = items[j] + n
        BY <1>3, <3>1, <3>2, <3>3, <3>4
      <4> HIDE DEF o, c
      <4> QED
        BY <1>1, <1>2, <2>4, <3>4, <4>1, <4>2
    <3>6. Copies(i)' = Copies(i) + n
      BY <1>1, <2>2, <3>5, CopiesCarried
    <3> QED
      BY <2>2, <2>4, <3>2, <3>3, <3>6
  <2> QED
    BY <2>3, <2>4
<1>6. CASE c.op = "remove"
  <2>1. \A i \in DOMAIN Declared : Dropped(i) = IF i = c.item THEN Taken(c) ELSE 0
    BY <1>6 DEF Dropped, Taken
  <2>2. Taken(c) \in Int
    BY <1>1, <1>6 DEF GearAssumption, Taken
  <2> QED
    BY <1>2, <1>4, <1>5, <1>6, <2>1, <2>2 DEF Settles, Gap
<1>7. CASE c.op = "equip"
  <2>1. todo'[Player] # <<>> /\ asked' = asked
    BY <1>1, <1>2, <1>4, <1>7 DEF Continue, GoOn
  <2>2. AtWear'
    BY <2>1, LandsPut
  <2>3. (StatInv /\ todo[Player] # <<>> => NowIs)'
    BY NowTells, PTL
  <2>4. Now(Player).op' = "wear" /\ Now(Player).item' = c.item
    BY <2>1, <2>2, <2>3 DEF NowIs, PhaseOps
  <2>5. \A i : Owed(i)' = IF c.item = i THEN -1 ELSE 0
    BY <2>1, <2>4 DEF Owed, At
  <2>6. Taken(c) = 1
    BY <1>7 DEF Taken
  <2>7. \A i \in DOMAIN Declared : Copies(i)' = asked.copies[i] + Owed(i)'
    BY <1>5, <2>5, <2>6
  <2> QED
    BY <2>1, <2>4, <2>7 DEF Settles, ItemInv, At
<1> QED
  BY <1>2, <1>6, <1>7

\* The slot is cleared, or the item worn: nothing is owed.
LEMMA SettlesWear ==
    ASSUME GearAssumption, StatInv, StatInv', ItemInv, Wear(Player)
    PROVE  Settles
<1> DEFINE c == asked.call
           s == Slot(c)
<1>1. /\ TypeOK /\ c \in PlayerCall /\ todo[Player] # <<>> /\ Player \in Actor
      /\ Continue(Player, <<>>) /\ UNCHANGED items
  BY DEF Wear, At, StatInv, AskedOK, Actor
<1>2. /\ \A i \in DOMAIN Declared : i \in ItemType /\ asked.copies[i] \in Int
      /\ \A i \in DOMAIN Declared : Copies(i) = asked.copies[i] + Owed(i)
  BY <1>1 DEF GearAssumption, StatInv, AskedOK, ItemInv
<1>3. ASSUME Dresses(c), \A i \in DOMAIN Declared : Copies(i)' = asked.copies[i]
      PROVE  Settles
  <2>1. CASE todo'[Player] = <<>>
    <3>1. \A i : Dropped(i) = 0
      BY <1>3 DEF Dropped, Dresses
    <3> QED
      BY <1>2, <1>3, <2>1, <3>1 DEF Settles, Gap
  <2>2. CASE todo'[Player] # <<>>
    <3>1. AtDeltas' /\ asked' = asked
      BY <1>1, <2>2, LandsWear DEF Continue, GoOn
    <3>2. (StatInv /\ todo[Player] # <<>> => NowIs)'
      BY NowTells, PTL
    <3>3. Now(Player).op' = "deltas"
      BY <2>2, <3>1, <3>2 DEF NowIs, PhaseOps
    <3>4. \A i : Owed(i)' = 0
      BY <3>3 DEF Owed, At
    <3> QED
      BY <1>2, <1>3, <2>2, <3>1, <3>3, <3>4 DEF Settles, ItemInv, At
  <2> QED
    BY <2>1, <2>2
<1>4. CASE At(Player, "clear") /\ worn' = [worn EXCEPT ![Now(Player).slot] = None]
  <2>1. AtClear
    BY <1>1, <1>4, PhaseAt
  <2>2. Now(Player).slot = s /\ s \in EquipSlot /\ Dresses(c) /\ worn[s] \in ItemType
    BY <1>1, <2>1, ClearNow
  <2>3. \A i : Owed(i) = IF worn[s] = i THEN 1 ELSE 0
    BY <1>4, <2>2, OwedClear
  <2>4. ASSUME NEW i \in DOMAIN Declared PROVE Copies(i)' = asked.copies[i]
    <3>1. None # i
      BY <1>2 DEF GearAssumption
    <3>2. PICK t \in EquipSlot : t = s
      BY <2>2
    <3>3. worn' = [worn EXCEPT ![t] = None]
      BY <1>4, <2>2, <3>2
    <3>4. Copies(i)' = Copies(i) + (IF None = i THEN 1 ELSE 0) - (IF worn[t] = i THEN 1 ELSE 0)
      BY <1>1, <1>2, <3>3, CopiesWorn
    <3> QED
      BY <1>2, <2>3, <3>1, <3>2, <3>4
  <2> QED
    BY <1>3, <2>2, <2>4
<1>5. CASE At(Player, "wear") /\ worn' = [worn EXCEPT ![Now(Player).slot] = Now(Player).item]
  <2>1. AtWear
    BY <1>1, <1>5, PhaseAt
  <2>2. /\ Now(Player).slot = s /\ s \in EquipSlot /\ Dresses(c) /\ worn[s] = None
    BY <1>1, <2>1, WearNow
  <2>3. \A i : Owed(i) = IF Now(Player).item = i THEN -1 ELSE 0
    BY <1>5, OwedWear
  <2>4. ASSUME NEW i \in DOMAIN Declared PROVE Copies(i)' = asked.copies[i]
    <3>1. None # i
      BY <1>2 DEF GearAssumption
    <3>2. PICK x : x = Now(Player).item
      OBVIOUS
    <3>3. PICK t \in EquipSlot : t = s
      BY <2>2
    <3>4. worn' = [worn EXCEPT ![t] = x]
      BY <1>5, <2>2, <3>2, <3>3
    <3>5. Copies(i)' = Copies(i) + (IF x = i THEN 1 ELSE 0) - (IF worn[t] = i THEN 1 ELSE 0)
      BY <1>1, <1>2, <3>4, CopiesWorn
    <3> QED
      BY <1>2, <2>2, <2>3, <3>1, <3>2, <3>3, <3>5
  <2> QED
    BY <1>3, <2>2, <2>4
<1> QED
  BY <1>4, <1>5 DEF Wear

\* A slot move carries nothing away.
LEMMA SettlesMove ==
    ASSUME GearAssumption, StatInv, StatInv', ItemInv, LockMover(Player) \/ Place(Player),
           ~ Reject(Player)
    PROVE  Settles
<1>1. /\ todo[Player] # <<>> /\ UNCHANGED <<items, worn>> /\ Quiet /\ AtOther
      /\ \E ss : Continue(Player, ss)
  BY PhaseAt DEF LockMover, Place, At, StatInv, rows, Quiet
<1>2. CASE todo'[Player] # <<>>
  <2>1. AtOther' /\ asked' = asked
    BY <1>1, <1>2, LandsOther DEF Continue, GoOn
  <2>2. (StatInv /\ todo[Player] # <<>> => NowIs)'
    BY NowTells, PTL
  <2>3. Quiet'
    BY <1>2, <2>1, <2>2 DEF NowIs, PhaseOps, Quiet
  <2> QED
    BY <1>1, <1>2, <2>1, <2>3, SettlesQuiet DEF Settles
<1>3. CASE todo'[Player] = <<>>
  <2>1. \A i : Owed(i) = 0 /\ Copies(i)' = Copies(i)
    BY <1>1, OwedNothing, CopiesSame
  <2>2. \A i : Dropped(i) = 0
    BY <1>1 DEF AtOther, Dropped
  <2>3. \A i \in DOMAIN Declared : asked.copies[i] \in Int
    BY <1>1 DEF StatInv, AskedOK
  <2> QED
    BY <1>1, <1>3, <2>1, <2>2, <2>3 DEF Settles, ItemInv, Gap
<1> QED
  BY <1>2, <1>3

\* Whatever statement it is.
LEMMA SettlesStatement ==
    ASSUME GearAssumption, StatInv, StatInv', ItemInv, Statement(Player), ~ Reject(Player)
    PROVE  Settles
BY SettlesReading, SettlesInsert, SettlesRemove, SettlesPut, SettlesWear, SettlesMove
   DEF Statement, Undeclared

\* The call is asked: the copies recorded are those there are.
LEMMA ItemsAsked ==
    ASSUME GearAssumption, StatInv, StatInv', NEW c \in PlayerCall, Ask(Player, c)
    PROVE  ItemInv'
<1>1. TypeOK
  BY DEF StatInv
<1>2. AtOwn' \/ AtOccupant' \/ AtRemove' \/ AtOther'
  BY <1>1, AskLands
<1>3. (StatInv /\ todo[Player] # <<>> => NowIs)'
  BY NowTells, PTL
<1> SUFFICES ASSUME todo'[Player] # <<>> PROVE ItemInv'
  BY DEF ItemInv
<1>4. Now(Player).op' \notin {"clear", "wear", "put"}
  BY <1>2, <1>3 DEF NowIs, PhaseOps
<1>5. \A i : Owed(i)' = 0
  BY <1>4 DEF Owed, At
<1>6. /\ UNCHANGED <<items, worn>>
      /\ asked'.copies = [i \in DOMAIN Declared |-> Copies(i)]
  BY DEF Ask, Asking, rows, GearAssumption
<1>7. \A i \in DOMAIN Declared : Copies(i)' = Copies(i) /\ Copies(i) \in Int
  BY <1>1, <1>6, CopiesSame, CopiesType DEF GearAssumption
<1> QED
  BY <1>4, <1>5, <1>6, <1>7 DEF ItemInv, At

\* What plugins ask for is not what can be worn, and no statement of theirs is.
LEMMA PluginsLeave ==
    ASSUME GearAssumption, PluginsElsewhere, StatInv,
           PluginAsks \/ Statement(Plugin) \/ Fail(Plugin)
    PROVE  \A i \in DOMAIN Declared : items'[i] = items[i]
<1>1. CASE PluginAsks \/ Fail(Plugin)
  BY <1>1 DEF PluginAsks, Ask, Fail, rows
<1>2. CASE Statement(Plugin)
  <2>1. CASE items' = items
    BY <2>1
  <2>2. CASE items' # items
    <3>1. /\ todo[Plugin] # <<>> /\ Now(Plugin).op \notin {"stat", "set"}
          /\ \E v : items' = [items EXCEPT ![Now(Plugin).item] = v]
      BY <1>2, <2>2 DEF Statement, Undeclared, Own, Occupant, NextDelta, ReadStat, SetStat,
         ReadGrant, Insert, ReadRemove, Put, Wear, LockMover, Place, Reject, rows, At
    <3>2. Now(Plugin).item \notin DOMAIN Declared
      BY <3>1 DEF StatInv, PluginPhase, PluginsElsewhere
    <3> QED
      BY <3>1, <3>2 DEF StatInv, TypeOK, GearAssumption
  <2> QED
    BY <2>1, <2>2
<1> QED
  BY <1>1, <1>2

\* What nothing about the player's call changes, stays true.
LEMMA CopiesStay ==
    ASSUME ItemInv, UNCHANGED worn, todo'[Player] = todo[Player],
           todo[Player] # <<>> => asked'.call = asked.call /\ asked'.copies = asked.copies,
           \A i \in DOMAIN Declared : items'[i] = items[i]
    PROVE  ItemInv'
<1>1. /\ \A op : At(Player, op)' = At(Player, op)
      /\ Now(Player)' = Now(Player)
  BY DEF At, Now
<1>2. \A i : Owed(i)' = Owed(i)
  BY <1>1 DEF Owed
<1>3. \A i \in DOMAIN Declared : Copies(i)' = Copies(i)
  BY CopiesSame
<1> QED
  BY <1>1, <1>2, <1>3 DEF ItemInv

\* Every step keeps the balance.
LEMMA ItemStep ==
    ASSUME GearAssumption, PluginsElsewhere, StatInv, StatInv', ItemInv, [Next]_vars
    PROVE  ItemInv'
<1>1. CASE UNCHANGED vars
  BY <1>1, CopiesStay DEF vars
<1>2. CASE PluginAsks \/ Statement(Plugin) \/ Fail(Plugin)
  <2>1. /\ UNCHANGED worn /\ todo'[Player] = todo[Player]
        /\ todo[Player] # <<>> => asked'.call = asked.call /\ asked'.copies = asked.copies
    BY <1>2, PluginStep DEF PluginAsks, PluginMay, StillDue
  <2> QED
    BY <1>2, <2>1, PluginsLeave, CopiesStay
<1>3. CASE PlayerAsks
  BY <1>3, ItemsAsked DEF PlayerAsks
<1>4. CASE Reject(Player) \/ Fail(Player)
  BY <1>4 DEF Reject, Fail, StatInv, TypeOK, Actor, ItemInv
<1>5. CASE Statement(Player) /\ ~ Reject(Player)
  <2>1. Settles
    BY <1>5, SettlesStatement
  <2> QED
    BY <2>1 DEF Settles, ItemInv
<1> QED
  BY <1>1, <1>2, <1>3, <1>4, <1>5 DEF Next, Actor

\* How the player's call ends.
LEMMA Endings ==
    ASSUME GearAssumption, StatInv, Next, NEW how, Ends(how)
    PROVE  /\ Statement(Player) \/ Fail(Player)
           /\ how = "accepted" => Statement(Player) /\ ~ Reject(Player)
           /\ how = "rejected" => Reject(Player) /\ ~ At(Player, "clear") /\ ~ At(Player, "wear")
           /\ how = "failed" => Fail(Player)
<1>1. /\ TypeOK /\ todo[Player] # <<>> /\ todo'[Player] = <<>> /\ reply' = how
      /\ Player \in Actor
  BY DEF StatInv, Ends, Actor
<1>2. ~ (PluginAsks \/ Statement(Plugin) \/ Fail(Plugin))
  BY <1>1, PluginStep DEF PluginAsks, PluginMay
<1>3. ~ PlayerAsks
  BY <1>1 DEF PlayerAsks, Ask
<1>4. Statement(Player) \/ Fail(Player)
  BY <1>2, <1>3 DEF Next, Actor
<1>5. Reject(Player) => how = "rejected"
  BY <1>1 DEF Reject, Return
<1>6. Fail(Player) => how = "failed"
  BY <1>1 DEF Fail, Return
<1>7. Statement(Player) /\ ~ Reject(Player) => how = "accepted"
  <2> SUFFICES ASSUME Statement(Player), ~ Reject(Player) PROVE how = "accepted"
    OBVIOUS
  <2>1. \E ss, known : GoOn(Player, ss, known)
    BY <1>1, GoesWith DEF SetStat, Continue
  <2> QED
    BY <1>1, <2>1 DEF GoOn, Return
<1>8. Statement(Player) /\ (At(Player, "clear") \/ At(Player, "wear")) => how = "accepted"
  <2> SUFFICES ASSUME Statement(Player), At(Player, "clear") \/ At(Player, "wear")
               PROVE  how = "accepted"
    OBVIOUS
  <2>1. Wear(Player)
    BY DEF Statement, Undeclared, Own, Occupant, NextDelta, ReadStat, SetStat, ReadGrant,
       Insert, ReadRemove, Put, LockMover, Place, At
  <2> QED
    BY <1>1, <2>1 DEF Wear, Continue, GoOn, Return
<1> QED
  BY <1>4, <1>5, <1>6, <1>7, <1>8

\* Whatever the player asks of equip_item, unequip_item, remove_item and
\* move_item_to_slot, the copies of what can be worn are all still there after it,
\* worn or carried, but for those an accepted DropItem took, and a failed statement
\* costs or doubles one at most; for every schema, when plugins leave those items
\* alone.
THEOREM CopiesAreConserved == PluginsElsewhere => (Spec => ItemsConserved)
<1> SUFFICES ASSUME PluginsElsewhere PROVE Spec => ItemsConserved
  OBVIOUS
<1> USE GearIsDeclared
<1> DEFINE P == \A i \in DOMAIN Declared :
                  /\ Ends("accepted") => Gap(i) = Dropped(i)
                  /\ Ends("rejected") => Gap(i) = 0
                  /\ Ends("failed") => Gap(i) \in -1 .. 1
<1>1. Init => StatInv /\ ItemInv
  BY StatInit DEF Init, ItemInv, Actor
<1>2. StatInv /\ [Next]_vars => StatInv'
  BY StatStep
<1>3. StatInv /\ StatInv' /\ ItemInv /\ [Next]_vars => ItemInv'
  BY ItemStep
<1>4. ASSUME StatInv, StatInv', ItemInv, Next, NEW i \in DOMAIN Declared
      PROVE  /\ Ends("accepted") => Gap(i) = Dropped(i)
             /\ Ends("rejected") => Gap(i) = 0
             /\ Ends("failed") => Gap(i) \in -1 .. 1
  <2>1. ASSUME Ends("accepted") PROVE Gap(i) = Dropped(i)
    <3>1. Statement(Player) /\ ~ Reject(Player) /\ todo'[Player] = <<>>
      BY <1>4, <2>1, Endings DEF Ends
    <3>2. Settles
      BY <1>4, <3>1, SettlesStatement
    <3> QED
      BY <3>1, <3>2 DEF Settles
  <2>2. ASSUME todo[Player] # <<>>, UNCHANGED <<items, worn>>
        PROVE  Gap(i) = 0 - Owed(i) /\ Owed(i) \in -1 .. 1
    <3>1. i \in ItemType /\ TypeOK /\ asked.copies[i] \in Int
      BY <1>4, <2>2 DEF GearAssumption, StatInv, AskedOK
    <3>2. Copies(i)' = Copies(i) /\ Copies(i) = asked.copies[i] + Owed(i)
      BY <1>4, <2>2, CopiesSame DEF ItemInv
    <3>3. Owed(i) \in {-1, 0, 1}
      BY DEF Owed
    <3> QED
      BY <3>1, <3>2, <3>3 DEF Gap
  <2>3. ASSUME Ends("rejected") PROVE Gap(i) = 0
    <3>1. Reject(Player) /\ ~ At(Player, "clear") /\ ~ At(Player, "wear") /\ todo[Player] # <<>>
      BY <1>4, <2>3, Endings DEF Ends
    <3>2. UNCHANGED <<items, worn>> /\ Owed(i) = 0
      BY <3>1 DEF Reject, rows, Owed
    <3> QED
      BY <2>2, <3>1, <3>2
  <2>4. ASSUME Ends("failed") PROVE Gap(i) \in -1 .. 1
    <3>1. Fail(Player) /\ todo[Player] # <<>>
      BY <1>4, <2>4, Endings DEF Ends
    <3>2. UNCHANGED <<items, worn>>
      BY <3>1 DEF Fail, rows
    <3> QED
      BY <2>2, <3>1, <3>2
  <2> QED
    BY <2>1, <2>3, <2>4
<1>5. StatInv /\ StatInv' /\ ItemInv /\ [Next]_vars => [P]_vars
  BY <1>4
<1> QED
  BY <1>1, <1>2, <1>3, <1>5, PTL DEF Spec, ItemsConserved
----------------------------------------------------------------------------
InTransaction == {"locking", "consuming", "granting", "upserting"}

\* Before it consumes, a transaction has read the rows it has locked, found
\* enough in each, and knows nothing of the others.
HasRead(p) ==
    /\ granted[p] = {}
    /\ \A r \in H!Row : IF lock[r] = p
                         THEN view[p][r] = table[r] /\ table[r] >= call[p].take[r]
                         ELSE view[p][r] = 0

\* After it, its view of a row it has locked is what is committed less what it
\* takes and, if it has been there, with what it gives; a row it has not
\* locked is one it does not take from and has not yet given to.
HasConsumed(p) ==
    \A r \in H!Row :
        IF lock[r] = p
           THEN view[p][r] = table[r] - call[p].take[r]
                             + (IF r \in granted[p] THEN call[p].give[r] ELSE 0)
           ELSE call[p].take[r] = 0 /\ r \notin granted[p]

\* What a process that has come this far knows.
Knows(p) ==
    /\ pc[p] \notin {"idle", "done"} => call[p] \in Operation
    /\ \A r \in H!Row : lock[r] = p => pc[p] \in InTransaction
    /\ pc[p] = "idle" => view[p] = H!NoView /\ granted[p] = {}
    /\ pc[p] \in {"locking", "consuming"} => HasRead(p)
    /\ pc[p] = "consuming" => \A r \in H!Row : lock[r] # p => call[p].take[r] = 0
    /\ pc[p] \in {"granting", "upserting"} => HasConsumed(p)
    /\ pc[p] = "upserting" => current[p] \in H!Row \ granted[p]

TablesInv ==
    /\ H!TypeOK
    /\ \A p \in Process : Knows(p)

\* What a step of one process leaves alone: the state of the others, the locks
\* they hold, and the rows they hold them on.
StepOf(p) ==
    /\ \A q \in Process \ {p} :
          /\ view'[q] = view[q] /\ call'[q] = call[q] /\ pc'[q] = pc[q]
          /\ granted'[q] = granted[q] /\ current'[q] = current[q]
    /\ \A q \in Process \ {p}, r \in H!Row : lock'[r] = q <=> lock[r] = q
    /\ \A q \in Process \ {p}, r \in H!Row : lock[r] = q => table'[r] = table[r]

\* What the return of a call leaves of it.
Returned(p) ==
    /\ pc'[p] = "done"
    /\ \A r \in H!Row : lock'[r] # p
----------------------------------------------------------------------------
\* What a call takes and gives are amounts.
LEMMA CallTypes ==
    ASSUME NEW o \in Operation
    PROVE  /\ o.take \in [H!Row -> Nat]
           /\ o.give \in [H!Row -> Nat]
           /\ o.kind \in {"trade", "craft", "grant", "remove", "modify"}
<1>1. o \in H!Call
  BY CallsAreDeclared DEF H!HoldingsAssumption
<1> QED
  BY <1>1 DEF H!Call

\* Among rows that are left there is one to go first: the ranks are finitely
\* many and no two rows come before each other.
LEMMA SomeFirst ==
    ASSUME NEW p, NEW open, open # {}
    PROVE  H!Firsts(p, open) # {}
<1> DEFINE R(i, j) == \E r \in open : H!Rank(p, r) = <<i, j>>
<1>1. \A r \in open : H!Rank(p, r) \in {<<1, 1>>, <<1, 2>>, <<2, 1>>, <<2, 2>>}
  BY DEF H!Rank
<1>2. CASE R(1, 1)
  BY <1>1, <1>2 DEF H!Firsts, H!Before
<1>3. CASE ~R(1, 1) /\ R(1, 2)
  BY <1>1, <1>3 DEF H!Firsts, H!Before
<1>4. CASE ~R(1, 1) /\ ~R(1, 2) /\ R(2, 1)
  BY <1>1, <1>4 DEF H!Firsts, H!Before
<1>5. CASE ~R(1, 1) /\ ~R(1, 2) /\ ~R(2, 1)
  BY <1>1, <1>5 DEF H!Firsts, H!Before
<1> QED
  BY <1>2, <1>3, <1>4, <1>5

\* When there is no row left to lock, all that are taken from are locked.
LEMMA AllLocked ==
    ASSUME NEW p \in Process, H!ToLock(p) = {},
           call[p].take \in [H!Row -> Nat]
    PROVE  \A r \in H!Row : lock[r] # p => call[p].take[r] = 0
<1>1. H!Taken(p) \ H!Locked(p) = {}
  BY SomeFirst DEF H!ToLock
<1> QED
  BY <1>1 DEF H!Taken, H!Locked

\* No other process's step disturbs what a process knows.
LEMMA OthersKnow ==
    ASSUME NEW p \in Process, StepOf(p),
           NEW q \in Process \ {p}, Knows(q)
    PROVE  Knows(q)'
<1>1. /\ view'[q] = view[q] /\ call'[q] = call[q] /\ pc'[q] = pc[q]
      /\ granted'[q] = granted[q] /\ current'[q] = current[q]
      /\ \A r \in H!Row : lock'[r] = q <=> lock[r] = q
      /\ \A r \in H!Row : lock[r] = q => table'[r] = table[r]
  BY DEF StepOf
<1>2. HasRead(q) => HasRead(q)'
  BY <1>1 DEF HasRead
<1>3. HasConsumed(q) => HasConsumed(q)'
  BY <1>1 DEF HasConsumed
<1> QED
  BY <1>1, <1>2, <1>3 DEF Knows, H!NoView

\* Nothing is known of a call that has returned.
LEMMA DoneKnows ==
    ASSUME NEW p \in Process, Returned(p)
    PROVE  Knows(p)'
  BY DEF Returned, Knows

\* A process's step that types the state and leaves the others alone keeps the
\* invariant, if the process still knows what it should.
LEMMA OneProcess ==
    ASSUME TablesInv, NEW p \in Process, StepOf(p), H!TypeOK', Knows(p)'
    PROVE  TablesInv'
<1>1. ASSUME NEW q \in Process PROVE Knows(q)'
  <2>1. CASE q = p
    BY <2>1
  <2>2. CASE q # p
    <3>1. q \in Process \ {p} /\ Knows(q)
      BY <2>2 DEF TablesInv
    <3> QED
      BY <3>1, OthersKnow
  <2> QED
    BY <2>1, <2>2
<1> QED
  BY <1>1 DEF TablesInv
----------------------------------------------------------------------------
\* Init.
LEMMA TablesInit == H!Init => TablesInv
<1> SUFFICES ASSUME H!Init PROVE TablesInv
  OBVIOUS
<1>1. H!TypeOK
  BY CallsAreDeclared DEF H!HoldingsAssumption, H!Init, H!TypeOK, H!NoView
<1>2. ASSUME NEW p \in Process PROVE Knows(p)
  BY CallsAreDeclared DEF H!HoldingsAssumption, H!Init, Knows
<1> QED
  BY <1>1, <1>2 DEF TablesInv

\* The return of a call that leaves the rows others have locked alone.
LEMMA EndEffect ==
    ASSUME H!TypeOK, NEW p \in Process, H!End(p), table' \in [H!Row -> Nat],
           \A r \in H!Row : lock[r] \notin {None, p} => table'[r] = table[r]
    PROVE  H!TypeOK' /\ StepOf(p) /\ Returned(p)
<1>1. H!TypeOK'
  BY DEF H!TypeOK, H!End, H!Goto, H!NoView
<1>2. StepOf(p)
  BY CallsAreDeclared DEF H!HoldingsAssumption, H!TypeOK, H!End, H!Goto, StepOf
<1>3. Returned(p)
  BY CallsAreDeclared DEF H!HoldingsAssumption, H!TypeOK, H!End, H!Goto, Returned
<1> QED
  BY <1>1, <1>2, <1>3

\* Each statement in turn.
LEMMA RejectPreserves ==
    ASSUME TablesInv, NEW p \in Process, H!Reject(p)
    PROVE  TablesInv'
<1>1. H!TypeOK' /\ StepOf(p) /\ Returned(p)
  BY EndEffect DEF TablesInv, H!Reject, H!TypeOK
<1> QED
  BY <1>1, DoneKnows, OneProcess

LEMMA BeginPreserves ==
    ASSUME TablesInv, NEW p \in Process, NEW o \in Operation, H!Begin(p, o)
    PROVE  TablesInv'
<1>1. H!TypeOK /\ Knows(p)
  BY DEF TablesInv
<1>2. H!TypeOK'
  BY <1>1 DEF H!TypeOK, H!Begin, H!Goto
<1>3. StepOf(p)
  BY <1>1 DEF H!TypeOK, H!Begin, H!Goto, StepOf
<1>4. /\ pc'[p] \in {"locking", "reading"} /\ call'[p] = o
      /\ view'[p] = H!NoView /\ granted'[p] = {}
      /\ \A r \in H!Row : lock'[r] # p
  BY <1>1 DEF H!TypeOK, H!Begin, H!Goto, Knows, InTransaction
<1>5. Knows(p)'
  BY <1>4 DEF Knows, HasRead, H!NoView
<1> QED
  BY <1>2, <1>3, <1>5, OneProcess

LEMMA LockRowPreserves ==
    ASSUME TablesInv, NEW p \in Process, NEW r \in H!Row, H!LockRow(p, r)
    PROVE  TablesInv'
<1>1. H!TypeOK /\ Knows(p)
  BY DEF TablesInv
<1>2. H!TypeOK'
  BY <1>1 DEF H!TypeOK, H!LockRow
<1>3. StepOf(p)
  BY <1>1, CallsAreDeclared DEF H!HoldingsAssumption, H!TypeOK, H!LockRow, StepOf
<1>4. /\ pc'[p] = "locking" /\ pc[p] = "locking" /\ call'[p] = call[p] /\ granted'[p] = granted[p]
      /\ table' = table /\ table[r] >= call[p].take[r]
      /\ \A s \in H!Row \ {r} : lock'[s] = lock[s] /\ view'[p][s] = view[p][s]
      /\ lock'[r] = p /\ view'[p][r] = table[r]
  BY <1>1 DEF H!TypeOK, H!LockRow
<1>5. HasRead(p) /\ call[p] \in Operation
  BY <1>1, <1>4 DEF Knows
<1>6. HasRead(p)'
  BY <1>4, <1>5 DEF HasRead
<1>7. Knows(p)'
  BY <1>4, <1>5, <1>6 DEF Knows, InTransaction
<1> QED
  BY <1>2, <1>3, <1>7, OneProcess

LEMMA LockOutputPreserves ==
    ASSUME TablesInv, NEW p \in Process, NEW r \in H!Row, H!LockOutput(p, r)
    PROVE  TablesInv'
<1>1. H!TypeOK /\ Knows(p)
  BY DEF TablesInv
<1>2. CASE H!NoRoom(p, r)
  BY <1>2, RejectPreserves DEF H!LockOutput
<1>3. CASE ~H!NoRoom(p, r)
  <2>1. /\ pc[p] = "locking" /\ H!ToLock(p) = {}
        /\ H!Free(p, r) \/ table[r] = 0
        /\ H!Goto(p, "consuming")
        /\ lock' = [lock EXCEPT ![r] = IF table[r] = 0 THEN @ ELSE p]
        /\ view' = [view EXCEPT ![p][r] = H!Visible(p, r)]
        /\ UNCHANGED <<table, call, granted, current>>
    BY <1>3 DEF H!LockOutput
  <2>2. HasRead(p) /\ call[p] \in Operation
    BY <1>1, <2>1 DEF Knows
  <2>3. H!Visible(p, r) = (IF lock[r] = p \/ table[r] > 0 THEN table[r] ELSE 0)
    BY <1>1, <2>2 DEF HasRead, H!Visible, H!TypeOK
  <2>4. H!TypeOK'
    <3>1. H!Visible(p, r) \in Nat
      BY <1>1, <2>3 DEF H!TypeOK
    <3> QED
      BY <1>1, <2>1, <3>1 DEF H!TypeOK, H!Goto
  <2>5. StepOf(p)
    BY <1>1, <2>1, CallsAreDeclared DEF H!HoldingsAssumption, H!TypeOK, H!Goto, H!Free, StepOf
  <2>6. /\ pc'[p] = "consuming" /\ call'[p] = call[p] /\ granted'[p] = granted[p]
        /\ table' = table
        /\ \A s \in H!Row \ {r} : lock'[s] = lock[s] /\ view'[p][s] = view[p][s]
        /\ lock'[r] = (IF table[r] = 0 THEN lock[r] ELSE p)
        /\ view'[p][r] = H!Visible(p, r)
    BY <1>1, <2>1 DEF H!TypeOK, H!Goto
  <2>7. call[p].take \in [H!Row -> Nat]
    BY <2>2, CallTypes
  <2>8. \A s \in H!Row : lock[s] # p => call[p].take[s] = 0
    BY <2>1, <2>7, AllLocked
  <2>9. \A s \in H!Row : lock'[s] # p => call'[p].take[s] = 0
    BY <2>6, <2>8
  <2>10. HasRead(p)'
    BY <1>1, <2>2, <2>3, <2>6, <2>7, <2>8 DEF HasRead, H!TypeOK
  <2>11. Knows(p)'
    BY <2>2, <2>6, <2>9, <2>10 DEF Knows, InTransaction
  <2> QED
    BY <2>4, <2>5, <2>11, OneProcess
<1> QED
  BY <1>2, <1>3

LEMMA ConsumePreserves ==
    ASSUME TablesInv, NEW p \in Process, H!Consume(p)
    PROVE  TablesInv'
<1>1. H!TypeOK /\ Knows(p)
  BY DEF TablesInv
<1>2. HasRead(p) /\ call[p] \in Operation
  BY <1>1 DEF H!Consume, Knows
<1>3. call[p].take \in [H!Row -> Nat] /\ call[p].give \in [H!Row -> Nat]
  BY <1>2, CallTypes
<1>4. \A r \in H!Row : lock[r] # p => call[p].take[r] = 0
  <2>1. CASE H!ToLock(p) = {}
    BY <1>3, <2>1, AllLocked
  <2>2. CASE pc[p] = "consuming"
    BY <1>1, <2>2 DEF Knows
  <2> QED
    BY <2>1, <2>2 DEF H!Consume
<1>5. /\ pc'[p] = "granting" /\ call'[p] = call[p] /\ granted'[p] = granted[p]
      /\ table' = table /\ lock' = lock
      /\ view'[p] = [r \in H!Row |-> view[p][r] - call[p].take[r]]
  BY <1>1 DEF H!TypeOK, H!Consume, H!Goto
<1>6. view'[p] \in [H!Row -> Nat]
  BY <1>1, <1>2, <1>3, <1>4, <1>5 DEF H!TypeOK, HasRead
<1>7. H!TypeOK'
  BY <1>1, <1>6 DEF H!TypeOK, H!Consume, H!Goto
<1>8. StepOf(p)
  BY <1>1 DEF H!TypeOK, H!Consume, H!Goto, StepOf
<1>9. HasConsumed(p)'
  BY <1>1, <1>2, <1>3, <1>4, <1>5 DEF HasRead, HasConsumed, H!TypeOK
<1>10. \A r \in H!Row : lock[r] = p => pc'[p] \in InTransaction
  BY <1>5 DEF InTransaction
<1>11. Knows(p)'
  BY <1>2, <1>5, <1>9, <1>10 DEF Knows
<1> QED
  BY <1>7, <1>8, <1>11, OneProcess

LEMMA ReceivePreserves ==
    ASSUME TablesInv, NEW p \in Process, NEW r \in H!Row, H!Receive(p, r)
    PROVE  TablesInv'
<1>1. H!TypeOK /\ Knows(p)
  BY DEF TablesInv
<1>2. CASE H!Reject(p)
  BY <1>2, RejectPreserves
<1>3. CASE /\ H!Goto(p, "upserting")
           /\ current' = [current EXCEPT ![p] = r]
           /\ UNCHANGED <<table, lock, view, call, granted>>
  <2>1. pc[p] = "granting" /\ r \notin granted[p]
    BY DEF H!Receive
  <2>2. H!TypeOK' /\ StepOf(p)
    BY <1>1, <1>3 DEF H!TypeOK, H!Goto, StepOf
  <2>3. /\ pc'[p] = "upserting" /\ current'[p] = r
        /\ UNCHANGED <<table, lock, view, call, granted>>
    BY <1>1, <1>3 DEF H!TypeOK, H!Goto
  <2>4. HasConsumed(p)'
    BY <1>1, <2>1, <2>3 DEF Knows, HasConsumed
  <2>5. Knows(p)'
    BY <1>1, <2>1, <2>3, <2>4 DEF Knows, InTransaction
  <2> QED
    BY <2>2, <2>5, OneProcess
<1> QED
  BY <1>2, <1>3 DEF H!Receive

LEMMA UpsertPreserves ==
    ASSUME TablesInv, NEW p \in Process, H!Upsert(p)
    PROVE  TablesInv'
<1> DEFINE r == current[p]
<1>1. H!TypeOK /\ Knows(p) /\ pc[p] = "upserting"
  BY DEF TablesInv, H!Upsert
<1>2. HasConsumed(p) /\ call[p] \in Operation /\ r \in H!Row \ granted[p]
  BY <1>1 DEF Knows
<1>3. call[p].take \in [H!Row -> Nat] /\ call[p].give \in [H!Row -> Nat]
  BY <1>2, CallTypes
<1>4. H!Visible(p, r) \in Nat /\ H!Visible(p, r) = table[r] - call[p].take[r]
  BY <1>1, <1>2, <1>3 DEF HasConsumed, H!Visible, H!TypeOK
<1>5. /\ lock' = [lock EXCEPT ![r] = p]
      /\ view' = [view EXCEPT ![p][r] = H!Visible(p, r) + call[p].give[r]]
      /\ granted' = [granted EXCEPT ![p] = @ \cup {r}]
      /\ pc' = [pc EXCEPT ![p] = "granting"]
      /\ UNCHANGED <<table, call, current>> /\ lock[r] \in {None, p}
  BY DEF H!Upsert, H!Goto, H!Free
<1>6. H!TypeOK'
  <2>1. H!Visible(p, r) + call[p].give[r] \in Nat
    BY <1>2, <1>3, <1>4
  <2> QED
    BY <1>1, <1>2, <1>5, <2>1 DEF H!TypeOK
<1>7. StepOf(p)
  BY <1>1, <1>2, <1>5, CallsAreDeclared DEF H!HoldingsAssumption, H!TypeOK, StepOf
<1>8. /\ pc'[p] = "granting" /\ call'[p] = call[p] /\ table' = table
      /\ granted'[p] = granted[p] \cup {r}
      /\ \A s \in H!Row \ {r} : lock'[s] = lock[s] /\ view'[p][s] = view[p][s]
      /\ lock'[r] = p /\ view'[p][r] = H!Visible(p, r) + call[p].give[r]
  BY <1>1, <1>2, <1>5 DEF H!TypeOK
<1>9. HasConsumed(p)'
  <2>1. ASSUME NEW s \in H!Row \ {r}, lock'[s] = p
        PROVE  view'[p][s] = table'[s] - call'[p].take[s]
                             + (IF s \in granted'[p] THEN call'[p].give[s] ELSE 0)
    BY <1>2, <1>8, <2>1 DEF HasConsumed
  <2>2. ASSUME NEW s \in H!Row \ {r}, lock'[s] # p
        PROVE  call'[p].take[s] = 0 /\ s \notin granted'[p]
    BY <1>2, <1>8, <2>2 DEF HasConsumed
  <2>3. view'[p][r] = table'[r] - call'[p].take[r] + call'[p].give[r]
    BY <1>4, <1>8
  <2> QED
    BY <1>8, <2>1, <2>2, <2>3 DEF HasConsumed
<1>10. Knows(p)'
  BY <1>2, <1>8, <1>9 DEF Knows, InTransaction
<1> QED
  BY <1>6, <1>7, <1>10, OneProcess

\* What is committed is what the call says, row by row.
LEMMA CommitEffect ==
    ASSUME TablesInv, NEW p \in Process, H!Commit(p), NEW r \in H!Row
    PROVE  /\ table'[r] = table[r] - call[p].take[r] + call[p].give[r]
           /\ table'[r] \in Nat
           /\ lock[r] \notin {None, p} => table'[r] = table[r]
<1>1. H!TypeOK /\ Knows(p) /\ pc[p] = "granting" /\ H!Given(p) = granted[p]
  BY DEF TablesInv, H!Commit
<1>2. HasConsumed(p) /\ call[p] \in Operation
  BY <1>1 DEF Knows
<1>3. call[p].take \in [H!Row -> Nat] /\ call[p].give \in [H!Row -> Nat]
  BY <1>2, CallTypes
<1>4. table'[r] = H!Visible(p, r)
  BY DEF H!Commit
<1>5. r \notin granted[p] => call[p].give[r] = 0
  BY <1>1, <1>3 DEF H!Given
<1>6. CASE lock[r] = p
  BY <1>1, <1>2, <1>3, <1>4, <1>5, <1>6, CallsAreDeclared
     DEF H!HoldingsAssumption, HasConsumed, H!Visible, H!TypeOK
<1>7. CASE lock[r] # p
  BY <1>1, <1>2, <1>3, <1>4, <1>5, <1>7 DEF HasConsumed, H!Visible, H!TypeOK
<1> QED
  BY <1>6, <1>7

LEMMA CommitPreserves ==
    ASSUME TablesInv, NEW p \in Process, H!Commit(p)
    PROVE  TablesInv'
<1>1. table' \in [H!Row -> Nat]
  <2>1. \A r \in H!Row : table'[r] \in Nat
    BY CommitEffect
  <2> QED
    BY <2>1 DEF H!Commit
<1>2. \A r \in H!Row : lock[r] \notin {None, p} => table'[r] = table[r]
  BY CommitEffect
<1>3. H!TypeOK' /\ StepOf(p) /\ Returned(p)
  BY <1>1, <1>2, EndEffect DEF TablesInv, H!Commit
<1> QED
  BY <1>3, DoneKnows, OneProcess

LEMMA ReadRowPreserves ==
    ASSUME TablesInv, NEW p \in Process, H!ReadRow(p)
    PROVE  TablesInv'
<1> DEFINE r == H!Subject(p)  o == call[p]
<1>1. H!TypeOK /\ Knows(p) /\ pc[p] = "reading"
  BY DEF TablesInv, H!ReadRow
<1>2. CASE H!Reject(p)
  BY <1>2, RejectPreserves
<1>3. CASE /\ ~(table[r] < o.take[r])
           /\ view' = [view EXCEPT ![p][r] = table[r] - o.take[r] + o.give[r]]
           /\ H!Goto(p, "writing")
           /\ UNCHANGED <<table, lock, call, granted, current>>
  <2>1. o \in Operation /\ \A s \in H!Row : lock[s] # p
    BY <1>1 DEF Knows, InTransaction
  <2>2. o.take \in [H!Row -> Nat] /\ o.give \in [H!Row -> Nat]
    BY <2>1, CallTypes
  <2>3. view' \in [Process -> [H!Row -> Nat]]
    <3>1. CASE r \in H!Row
      <4>1. table[r] - o.take[r] + o.give[r] \in Nat
        BY <1>1, <1>3, <2>2, <3>1 DEF H!TypeOK
      <4> QED
        BY <1>1, <1>3, <3>1, <4>1 DEF H!TypeOK
    <3>2. CASE r \notin H!Row
      BY <1>1, <1>3, <3>2 DEF H!TypeOK
    <3> QED
      BY <3>1, <3>2
  <2>4. H!TypeOK'
    BY <1>1, <1>3, <2>3 DEF H!TypeOK, H!Goto
  <2>5. StepOf(p)
    BY <1>1, <1>3 DEF H!TypeOK, H!Goto, StepOf
  <2>6. pc'[p] = "writing" /\ UNCHANGED <<call, lock>>
    BY <1>1, <1>3 DEF H!TypeOK, H!Goto
  <2>7. Knows(p)'
    BY <2>1, <2>6 DEF Knows
  <2> QED
    BY <2>4, <2>5, <2>7, OneProcess
<1> QED
  BY <1>2, <1>3 DEF H!ReadRow

\* The second statement of a plain call writes one row that nobody has locked,
\* or none.
LEMMA WritePreserves ==
    ASSUME TablesInv, NEW p \in Process, NEW v,
           H!Subject(p) \in H!Row => v \in Nat,
           lock[H!Subject(p)] = None,
           table' = [table EXCEPT ![H!Subject(p)] = v],
           H!End(p)
    PROVE  TablesInv'
<1>1. H!TypeOK
  BY DEF TablesInv
<1>2. table' \in [H!Row -> Nat]
  BY <1>1 DEF H!TypeOK
<1>3. \A r \in H!Row : lock[r] \notin {None, p} => table'[r] = table[r]
  BY <1>1 DEF H!TypeOK
<1>4. H!TypeOK' /\ StepOf(p) /\ Returned(p)
  BY <1>1, <1>2, <1>3, EndEffect
<1> QED
  BY <1>4, DoneKnows, OneProcess

LEMMA PlainWritesPreserve ==
    ASSUME TablesInv, NEW p \in Process,
           H!AddToStack(p) \/ H!WriteStack(p) \/ H!WriteBalance(p)
    PROVE  TablesInv'
<1> DEFINE r == H!Subject(p)
<1>1. H!TypeOK /\ Knows(p) /\ pc[p] = "writing"
  BY DEF TablesInv, H!AddToStack, H!WriteStack, H!WriteBalance
<1>2. call[p] \in Operation
  BY <1>1 DEF Knows
<1>3. r \in H!Row => /\ table[r] + call[p].give[r] \in Nat
                   /\ view[p][r] \in Nat
  BY <1>1, <1>2, CallTypes DEF H!TypeOK
<1>4. CASE H!AddToStack(p)
  <2>1. table' = [table EXCEPT ![r] = table[r] + call[p].give[r]]
    BY <1>4 DEF H!AddToStack
  <2> QED
    BY <1>3, <1>4, <2>1, WritePreserves DEF H!AddToStack
<1>5. CASE H!WriteStack(p)
  <2>1. table' = [table EXCEPT ![r] = IF table[r] = 0 THEN 0 ELSE view[p][r]]
    BY <1>5 DEF H!WriteStack
  <2> QED
    BY <1>3, <1>5, <2>1, WritePreserves DEF H!WriteStack
<1>6. CASE H!WriteBalance(p)
  BY <1>3, <1>6, WritePreserves DEF H!WriteBalance
<1> QED
  BY <1>4, <1>5, <1>6
----------------------------------------------------------------------------
\* The inductive step.
LEMMA TablesNext == TablesInv /\ [H!Next]_H!vars => TablesInv'
<1> SUFFICES ASSUME TablesInv, [H!Next]_H!vars PROVE TablesInv'
  OBVIOUS
<1>1. ASSUME NEW p \in Process, NEW o \in Operation, H!Begin(p, o) PROVE TablesInv'
  BY <1>1, BeginPreserves
<1>2. ASSUME NEW p \in Process, H!Statement(p) PROVE TablesInv'
  <2>1. ASSUME NEW r \in H!Row, H!LockRow(p, r) PROVE TablesInv'
    BY <2>1, LockRowPreserves
  <2>2. ASSUME NEW r \in H!Row, H!RejectShort(p, r) PROVE TablesInv'
    BY <2>2, RejectPreserves DEF H!RejectShort
  <2>3. ASSUME NEW r \in H!Row, H!LockOutput(p, r) PROVE TablesInv'
    BY <2>3, LockOutputPreserves
  <2>4. ASSUME NEW r \in H!Row, H!Receive(p, r) PROVE TablesInv'
    BY <2>4, ReceivePreserves
  <2> QED
    BY <1>2, <2>1, <2>2, <2>3, <2>4, ConsumePreserves, UpsertPreserves, CommitPreserves,
       ReadRowPreserves, PlainWritesPreserve DEF H!Statement
<1>3. ASSUME NEW p \in Process, H!Abort(p) PROVE TablesInv'
  BY <1>3, RejectPreserves DEF H!Abort
<1>4. CASE UNCHANGED H!vars
  <2>1. H!TypeOK'
    BY <1>4 DEF TablesInv, H!TypeOK, H!vars
  <2>2. ASSUME NEW p \in Process PROVE Knows(p)'
    BY <1>4 DEF TablesInv, Knows, HasRead, HasConsumed, H!vars
  <2> QED
    BY <2>1, <2>2 DEF TablesInv
<1> QED
  BY <1>1, <1>2, <1>3, <1>4 DEF H!Next

\* Every reachable state of the tables satisfies the inductive invariant.
THEOREM HoldingsInvariant == H!Spec => []TablesInv
<1>1. TablesInv /\ [H!Next]_H!vars => TablesInv'
  BY TablesNext
<1> QED
  BY TablesInit, <1>1, PTL DEF H!Spec

\* Every variable has its type, whatever the calls are and however they are
\* interleaved: no stack or balance is ever negative.
THEOREM TablesTyped == H!Spec => []H!TypeOK
<1>1. TablesInv => H!TypeOK
  BY DEF TablesInv
<1> QED
  BY <1>1, HoldingsInvariant, PTL

\* What execute_trade and craft_item checked under the row locks is still there
\* when they consume it, whoever else writes.
THEOREM ChecksStayTrue == H!Spec => []CheckedRowsHold
<1>1. TablesInv => CheckedRowsHold
  BY DEF TablesInv, Knows, HasRead, CheckedRowsHold, H!CheckedRowsHold, H!TypeOK
<1> QED
  BY <1>1, HoldingsInvariant, PTL

\* Only its own Commit ends a transaction with the rows changed.
LEMMA OnlyCommitChanges ==
    ASSUME TablesInv, H!Next, NEW p \in Process,
           pc[p] = "granting", table' # table, pc'[p] = "done"
    PROVE  H!Commit(p)
<1>1. H!TypeOK
  BY DEF TablesInv
<1>2. PICK q \in Process : (\E o \in Operation : H!Begin(q, o)) \/ H!Statement(q) \/ H!Abort(q)
  BY DEF H!Next
<1>3. pc[q] \in {"granting", "writing"}
  BY <1>2 DEF H!Begin, H!Statement, H!Abort, H!LockRow, H!RejectShort,
              H!LockOutput, H!Receive, H!Consume,
              H!Upsert, H!Commit, H!ReadRow, H!AddToStack, H!WriteStack, H!WriteBalance, H!Reject
<1>4. pc' = [pc EXCEPT ![q] = pc'[q]]
  BY <1>1, <1>2 DEF H!TypeOK, H!Begin, H!Statement, H!Abort, H!LockRow, H!RejectShort,
              H!LockOutput, H!Receive, H!Consume, H!Upsert, H!Commit, H!ReadRow,
              H!AddToStack, H!WriteStack, H!WriteBalance, H!Reject,
              H!End, H!Goto
<1>5. q = p
  BY <1>1, <1>4 DEF H!TypeOK
<1> QED
  BY <1>2, <1>5 DEF H!Begin, H!Statement, H!Abort, H!LockRow, H!RejectShort,
              H!LockOutput, H!Receive, H!Consume, H!Upsert, H!Commit, H!ReadRow,
              H!AddToStack, H!WriteStack, H!WriteBalance, H!Reject

\* A trade or a craft that commits has changed every row by what it takes and
\* gives, against what was committed at that moment.
THEOREM CommitsAreExact == H!Spec => CommitsExactly
<1> DEFINE Exact ==
      \A p \in Process :
         pc[p] = "granting" /\ table' # table /\ pc'[p] = "done" =>
            \A r \in H!Row : table'[r] = table[r] - call[p].take[r] + call[p].give[r]
<1>1. TablesInv /\ [H!Next]_H!vars => [Exact]_H!vars
  <2> SUFFICES ASSUME TablesInv, H!Next, NEW p \in Process,
                      pc[p] = "granting", table' # table, pc'[p] = "done", NEW r \in H!Row
               PROVE  table'[r] = table[r] - call[p].take[r] + call[p].give[r]
    OBVIOUS
  <2>1. H!Commit(p)
    BY OnlyCommitChanges
  <2> QED
    BY <2>1, CommitEffect
<1>2. CommitsExactly <=> [][Exact]_H!vars
  BY DEF CommitsExactly, H!CommitsExactly
<1> HIDE DEF Exact
<1> QED
  BY <1>1, <1>2, HoldingsInvariant, PTL DEF H!Spec
=============================================================================
