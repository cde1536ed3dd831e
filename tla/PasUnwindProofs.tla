--------------------------- MODULE PasUnwindProofs ---------------------------
(***************************************************************************)
(* Proofs about PasUnwind, for every depth of activations, every set of    *)
(* heap variables and of resources, and every program that disposes of no  *)
(* variable a live mark names.                                             *)
(*                                                                         *)
(* The lists carry the argument: each is ordered so that what a block's    *)
(* mark has at or behind it is exactly what the block and those around it  *)
(* registered.  A walk from the head to the mark then takes what is        *)
(* abandoned, all of it and nothing else.                                  *)
(***************************************************************************)
EXTENDS PasUnwind, FiniteSetTheorems, TLAPS

\* o is m, or was registered before m, on the list.
Behind(list, m, o) ==
  \E i, j \in DOMAIN list : i <= j /\ list[i] = m /\ list[j] = o

\* The activations whose marks may still be walked to.
Bound ==
  IF blockPc = "run" THEN depth
  ELSE IF blockPc = "leave" THEN depth - 1
  ELSE IF blockPc = "jump" THEN blockTarget
  ELSE 0

\* The marks of the activations up to b are on the list, or were noted when
\* it was empty; of the frames listed, the ones behind the mark of f are those
\* up to f; and an outer block's mark stands behind an inner one's.
MarksListed(list, marks, b) ==
  \A f \in 1 .. b : marks[f] = Nil \/ marks[f] \in ToSet(list)
MarksDivide(list, marks, b) ==
  \A f \in 1 .. b, g \in Frame :
    g \in ToSet(list) => (g <= f <=> Behind(list, marks[f], g))
MarksOrdered(list, marks, b) ==
  \A f, g \in 1 .. b, o \in Owner :
    f <= g /\ Behind(list, marks[f], o) => Behind(list, marks[g], o)
Nested(list, marks, b) ==
  MarksListed(list, marks, b) /\ MarksDivide(list, marks, b) /\ MarksOrdered(list, marks, b)

\* Nothing is on a list twice, all of it is one of the slots S, the frames of
\* it are among D, those that declare such a slot, and up to b all of D are.
Listed(list, S, D, b) ==
  /\ IsInjective(list)
  /\ ToSet(list) \subseteq S
  /\ ToSet(list) \cap Frame \subseteq D
  /\ D \cap (1 .. b) \subseteq ToSet(list)

ListInv(list, marks, S, D, b) == Listed(list, S, D, b) /\ Nested(list, marks, b)

\* The slots that exist, and the blocks that declare a part.
Slots == heap \cup (1 .. depth)
Declaring(part) == {f \in Frame : part \in declares[f]}

FilesInv == ListInv(files, mark, Slots, Declaring("file"), Bound)
HandlesInv == ListInv(handles, hmark, Slots, Declaring("handle"), Bound)
DefersInv ==
  /\ ListInv(defers, dmark, Slots, Declaring("defer"), Bound)
  /\ blockPc = "leave" => depth \notin ToSet(defers)

\* What a slot is in use for, its list knows; and an armed statement finds the
\* file of its block.
FileSlots == \A o \in Owner : fileUp[o] <=> o \in ToSet(files)
HandleSlots ==
  /\ \A f \in Frame : value[f] # Nil => f \in ToSet(handles)
  /\ \A c \in Cell : value[c] # Nil => c \in heap
DeferSlots ==
  \A f \in Frame :
    armed[f] => f \in ToSet(defers) /\ ("file" \in declares[f] => f \in ToSet(files))

\* Where the thread can be, and that a program that is over holds no handle in
\* a block.
PcInv ==
  /\ blockPc \in {"run", "leave", "jump"} => depth \in Frame
  /\ blockPc = "jump" => blockTarget \in Frame /\ blockTarget < depth
  /\ blockPc = "ended" => \A f \in Frame : f \notin ToSet(handles)

\* A resource has one holder or has been closed, once.
ResourceInv ==
  /\ \A o, p \in Owner : value[o] # Nil /\ value[o] = value[p] => o = p
  /\ \A o \in Owner : value[o] # Nil => value[o] \in opened /\ closes[value[o]] = 0
  /\ \A v \in Value : closes[v] = 1 => v \in opened
  /\ \A v \in opened : closes[v] = 1 \/ \E o \in Owner : value[o] = v

UnwindInv ==
  /\ TypeOK /\ PcInv
  /\ FilesInv /\ HandlesInv /\ DefersInv
  /\ FileSlots /\ HandleSlots /\ DeferSlots /\ ResourceInv
-----------------------------------------------------------------------------
(* The lists.                                                              *)

LEMMA FramesAreOwners == Frame \subseteq Owner /\ Cell \subseteq Owner /\ Nil \notin Owner
BY PasUnwindAssumption DEF Owner

\* The entries of a list from which one was unlinked.
LEMMA UnlinkedAt ==
  ASSUME NEW S, NEW list \in Seq(S), NEW x \in ToSet(list), IsInjective(list)
  PROVE  \E k \in DOMAIN list :
           /\ list[k] = x
           /\ Unlinked(list, x) \in Seq(S)
           /\ Len(Unlinked(list, x)) = Len(list) - 1
           /\ \A i \in 1 .. k - 1 : Unlinked(list, x)[i] = list[i]
           /\ \A i \in k .. Len(list) - 1 : Unlinked(list, x)[i] = list[i + 1]
<1> DEFINE k == CHOOSE i \in DOMAIN list : list[i] = x
<1>1. k \in 1 .. Len(list) /\ list[k] = x
  BY DEF ToSet
<1> HIDE DEF k
<1>2. Unlinked(list, x) = SubSeq(list, 1, k - 1) \o SubSeq(list, k + 1, Len(list))
  BY DEF Unlinked, RemoveAt, k
<1> DEFINE p == SubSeq(list, 1, k - 1)
           q == SubSeq(list, k + 1, Len(list))
           u == Unlinked(list, x)
<1>3. /\ p \in Seq(S) /\ Len(p) = k - 1 /\ \A i \in 1 .. k - 1 : p[i] = list[i]
      /\ q \in Seq(S) /\ Len(q) = Len(list) - k
      /\ \A i \in 1 .. Len(list) - k : q[i] = list[k + i]
  BY <1>1
<1>4. u = p \o q
  BY <1>2
<1> HIDE DEF p, q, u
<1>5. /\ u \in Seq(S) /\ Len(u) = Len(p) + Len(q)
      /\ \A i \in 1 .. Len(p) : u[i] = p[i]
      /\ \A i \in 1 .. Len(q) : u[Len(p) + i] = q[i]
  <2>1. p \in Seq(S) /\ q \in Seq(S)
    BY <1>3
  <2>2. /\ p \o q \in Seq(S) /\ Len(p \o q) = Len(p) + Len(q)
        /\ \A i \in 1 .. Len(p) : (p \o q)[i] = p[i]
        /\ \A i \in 1 .. Len(q) : (p \o q)[Len(p) + i] = q[i]
    BY <2>1
  <2> QED BY <2>2, <1>4
<1>6. ASSUME NEW i \in k .. Len(list) - 1 PROVE u[i] = list[i + 1]
  <2>1. i - k + 1 \in 1 .. Len(list) - k /\ k - 1 + (i - k + 1) = i /\ k + (i - k + 1) = i + 1
    BY <1>1
  <2>2. u[k - 1 + (i - k + 1)] = q[i - k + 1] /\ q[i - k + 1] = list[k + (i - k + 1)]
    BY <2>1, <1>3, <1>5
  <2> QED BY <2>1, <2>2
<1>7. /\ u \in Seq(S) /\ Len(u) = Len(list) - 1 /\ \A i \in 1 .. k - 1 : u[i] = list[i]
  BY <1>1, <1>3, <1>5
<1> QED BY <1>1, <1>6, <1>7 DEF u

\* Unlinking takes one slot from a list and leaves the order of the others.
LEMMA UnlinkedFacts ==
  ASSUME NEW S, NEW list \in Seq(S), NEW x, IsInjective(list)
  PROVE  /\ Unlinked(list, x) \in Seq(S)
         /\ ToSet(Unlinked(list, x)) = ToSet(list) \ {x}
         /\ IsInjective(Unlinked(list, x))
         /\ \A m, o : m # x /\ o # x =>
              (Behind(Unlinked(list, x), m, o) <=> Behind(list, m, o))
<1>1. CASE x \notin ToSet(list)
  BY <1>1 DEF Unlinked
<1>2. CASE x \in ToSet(list)
  <2> DEFINE u == Unlinked(list, x)
  <2>1. PICK k \in DOMAIN list :
           /\ list[k] = x
           /\ u \in Seq(S)
           /\ Len(u) = Len(list) - 1
           /\ \A i \in 1 .. k - 1 : u[i] = list[i]
           /\ \A i \in k .. Len(list) - 1 : u[i] = list[i + 1]
    BY <1>2, UnlinkedAt
  <2> HIDE DEF u
  <2>2. k \in 1 .. Len(list) /\ DOMAIN u = 1 .. Len(list) - 1 /\ DOMAIN list = 1 .. Len(list)
        /\ Len(list) \in Nat
    BY <2>1
  <2>3. \A i, j \in 1 .. Len(list) : list[i] = list[j] => i = j
    BY <2>2 DEF IsInjective
  <2> DEFINE at(i) == IF i < k THEN i ELSE i + 1
             back(i) == IF i < k THEN i ELSE i - 1
  <2>4. \A i \in DOMAIN u : at(i) \in DOMAIN list /\ at(i) # k /\ u[i] = list[at(i)]
    BY <2>1, <2>2
  <2>5. \A i \in DOMAIN list : i # k => back(i) \in DOMAIN u /\ u[back(i)] = list[i]
    <3> SUFFICES ASSUME NEW i \in DOMAIN list, i # k
                 PROVE  back(i) \in DOMAIN u /\ u[back(i)] = list[i]
      OBVIOUS
    <3>1. CASE i < k
      BY <3>1, <2>1, <2>2
    <3>2. CASE i > k
      <4>1. i - 1 \in k .. Len(list) - 1 /\ (i - 1) + 1 = i
        BY <3>2, <2>2
      <4>2. u[i - 1] = list[(i - 1) + 1]
        BY <4>1, <2>1
      <4> QED BY <4>1, <4>2, <3>2, <2>2
    <3> QED BY <3>1, <3>2, <2>2
  <2>6. \A i, j \in DOMAIN u : (i <= j <=> at(i) <= at(j)) /\ (at(i) = at(j) => i = j)
    BY <2>2
  <2>7. \A i, j \in DOMAIN list : i # k /\ j # k /\ i <= j => back(i) <= back(j)
    BY <2>2
  <2>8. \A i \in DOMAIN list : list[i] = x <=> i = k
    BY <2>1, <2>2, <2>3
  <2> HIDE DEF at, back
  <2>9. ToSet(u) = ToSet(list) \ {x}
    <3>1. \A o \in ToSet(u) : o \in ToSet(list) /\ o # x
      BY <2>4, <2>8 DEF ToSet
    <3>2. \A o \in ToSet(list) : o # x => o \in ToSet(u)
      BY <2>5, <2>8 DEF ToSet
    <3> QED BY <3>1, <3>2
  <2>10. IsInjective(u)
    BY <2>4, <2>6, <2>2, <2>3 DEF IsInjective
  <2>11. ASSUME NEW m, NEW o, m # x, o # x
         PROVE  Behind(u, m, o) <=> Behind(list, m, o)
    <3>1. ASSUME Behind(u, m, o) PROVE Behind(list, m, o)
      BY <3>1, <2>4, <2>6 DEF Behind
    <3>2. ASSUME Behind(list, m, o) PROVE Behind(u, m, o)
      BY <3>2, <2>5, <2>7, <2>8, <2>11 DEF Behind
    <3> QED BY <3>1, <3>2
  <2> QED BY <2>1, <2>9, <2>10, <2>11 DEF u
<1> QED BY <1>1, <1>2
\* The head of a list is on it; everything is behind the head, and the head is
\* behind nothing but itself.
LEMMA HeadFacts ==
  ASSUME NEW S, NEW list \in Seq(S), list # <<>>
  PROVE  /\ Head(list) \in S /\ Head(list) \in ToSet(list) /\ HeadOf(list) = Head(list)
         /\ \A o \in ToSet(list) : Behind(list, Head(list), o)
         /\ IsInjective(list) => \A m : Behind(list, m, Head(list)) => m = Head(list)
<1>1. /\ Head(list) = list[1] /\ list[1] \in S /\ DOMAIN list = 1 .. Len(list)
      /\ Len(list) \in Nat /\ Len(list) # 0
  OBVIOUS
<1>2. HeadOf(list) = Head(list) /\ Head(list) \in ToSet(list)
  BY <1>1 DEF HeadOf, ToSet
<1>3. ASSUME NEW o \in ToSet(list) PROVE Behind(list, Head(list), o)
  BY <1>1 DEF ToSet, Behind
<1>4. ASSUME IsInjective(list), NEW m, Behind(list, m, Head(list)) PROVE m = Head(list)
  BY <1>1, <1>4 DEF Behind, IsInjective
<1> QED BY <1>1, <1>2, <1>3, <1>4

\* A slot put at the head of a list has everything behind it and disturbs no
\* order that was there.
LEMMA PushFacts ==
  ASSUME NEW S, NEW list \in Seq(S), NEW x \in S, x \notin ToSet(list), IsInjective(list)
  PROVE  /\ <<x>> \o list \in Seq(S) /\ <<x>> \o list # <<>> /\ Head(<<x>> \o list) = x
         /\ ToSet(<<x>> \o list) = ToSet(list) \cup {x}
         /\ IsInjective(<<x>> \o list)
         /\ \A m, o : m # x => (Behind(<<x>> \o list, m, o) <=> Behind(list, m, o))
<1> DEFINE u == <<x>> \o list
<1>1. /\ u \in Seq(S) /\ Len(u) = Len(list) + 1 /\ u[1] = x
      /\ \A i \in 1 .. Len(list) : u[i + 1] = list[i]
  OBVIOUS
<1> HIDE DEF u
<1>2. /\ DOMAIN u = 1 .. Len(list) + 1 /\ DOMAIN list = 1 .. Len(list) /\ Len(list) \in Nat
      /\ u # <<>> /\ Head(u) = x
  BY <1>1
<1>3. ASSUME NEW i \in DOMAIN u, i # 1 PROVE i - 1 \in DOMAIN list /\ u[i] = list[i - 1]
  <2>1. i - 1 \in 1 .. Len(list) /\ (i - 1) + 1 = i
    BY <1>2, <1>3
  <2> QED BY <2>1, <1>1, <1>2
<1>4. \A i \in DOMAIN list : i + 1 \in DOMAIN u /\ u[i + 1] = list[i] /\ list[i] # x
  BY <1>1, <1>2 DEF ToSet
<1>5. ToSet(u) = ToSet(list) \cup {x}
  <2>1. \A o \in ToSet(u) : o \in ToSet(list) \cup {x}
    BY <1>1, <1>3 DEF ToSet
  <2>2. \A o \in ToSet(list) : o \in ToSet(u)
    BY <1>4 DEF ToSet
  <2>3. x \in ToSet(u)
    BY <1>1, <1>2 DEF ToSet
  <2> QED BY <2>1, <2>2, <2>3
<1>6. IsInjective(u)
  <2> SUFFICES ASSUME NEW i \in DOMAIN u, NEW j \in DOMAIN u, u[i] = u[j], i # j
               PROVE  FALSE
    BY DEF IsInjective
  <2>1. CASE i = 1 \/ j = 1
    BY <2>1, <1>1, <1>3, <1>4
  <2>2. CASE i # 1 /\ j # 1
    <3>1. i - 1 = j - 1
      BY <2>2, <1>3 DEF IsInjective
    <3> QED BY <3>1, <1>2
  <2> QED BY <2>1, <2>2
<1>7. ASSUME NEW m, NEW o, m # x PROVE Behind(u, m, o) <=> Behind(list, m, o)
  <2>1. ASSUME Behind(u, m, o) PROVE Behind(list, m, o)
    <3>1. PICK i \in DOMAIN u, j \in DOMAIN u : i <= j /\ u[i] = m /\ u[j] = o
      BY <2>1 DEF Behind
    <3>2. i # 1 /\ j # 1
      BY <3>1, <1>1, <1>2, <1>7
    <3>3. /\ i - 1 \in DOMAIN list /\ list[i - 1] = m
          /\ j - 1 \in DOMAIN list /\ list[j - 1] = o /\ i - 1 <= j - 1
      BY <3>1, <3>2, <1>3, <1>2
    <3> QED BY <3>3 DEF Behind
  <2>2. ASSUME Behind(list, m, o) PROVE Behind(u, m, o)
    <3>1. PICK i \in DOMAIN list, j \in DOMAIN list : i <= j /\ list[i] = m /\ list[j] = o
      BY <2>2 DEF Behind
    <3>2. i + 1 <= j + 1
      BY <3>1, <1>2
    <3> QED BY <3>1, <3>2, <1>4 DEF Behind
  <2> QED BY <2>1, <2>2
<1> QED BY <1>1, <1>2, <1>5, <1>6, <1>7 DEF u
\* A list stays in order when nothing happens to it but that activations, and
\* with them marks, are given up, or that slots it does not hold come and go.
LEMMA ListKept ==
  ASSUME NEW list, NEW marks, NEW S, NEW D, NEW b \in Int, ListInv(list, marks, S, D, b),
         NEW marks2, NEW S2, NEW D2, NEW b2 \in Int, b2 <= b,
         \A f \in 1 .. b2 : marks2[f] = marks[f],
         ToSet(list) \subseteq S2,
         ToSet(list) \cap Frame \subseteq D2, D2 \cap (1 .. b2) \subseteq D
  PROVE  ListInv(list, marks2, S2, D2, b2)
<1>1. \A f \in 1 .. b2 : f \in 1 .. b
  OBVIOUS
<1>2. Listed(list, S2, D2, b2)
  BY <1>1 DEF ListInv, Listed
<1>3. MarksListed(list, marks2, b2)
  BY <1>1 DEF ListInv, Nested, MarksListed
<1>4. MarksDivide(list, marks2, b2)
  BY <1>1 DEF ListInv, Nested, MarksDivide
<1>5. MarksOrdered(list, marks2, b2)
  BY <1>1 DEF ListInv, Nested, MarksOrdered
<1> QED BY <1>2, <1>3, <1>4, <1>5 DEF ListInv, Nested

\* A slot that no mark names and no activation up to b owns can be unlinked.
LEMMA ListUnlinks ==
  ASSUME NEW list \in Seq(Owner), NEW marks, NEW S, NEW D, NEW b \in Int,
         ListInv(list, marks, S, D, b),
         NEW x, x \notin 1 .. b, \A f \in 1 .. b : marks[f] # x
  PROVE  ListInv(Unlinked(list, x), marks, S, D, b)
<1> DEFINE u == Unlinked(list, x)
<1>1. /\ u \in Seq(Owner) /\ ToSet(u) = ToSet(list) \ {x} /\ IsInjective(u)
      /\ \A m, o : m # x /\ o # x => (Behind(u, m, o) <=> Behind(list, m, o))
  BY UnlinkedFacts DEF ListInv, Listed
<1> HIDE DEF u
<1>2. Listed(u, S, D, b)
  BY <1>1 DEF ListInv, Listed
<1>3. MarksListed(u, marks, b)
  BY <1>1 DEF ListInv, Nested, MarksListed
<1>4. MarksDivide(u, marks, b)
  BY <1>1 DEF ListInv, Nested, MarksDivide
<1>5. MarksOrdered(u, marks, b)
  <2> SUFFICES ASSUME NEW f \in 1 .. b, NEW g \in 1 .. b, NEW o \in Owner,
                      f <= g, Behind(u, marks[f], o)
               PROVE  Behind(u, marks[g], o)
    BY DEF MarksOrdered
  <2>1. o \in ToSet(u)
    BY DEF Behind, ToSet
  <2>2. o # x
    BY <2>1, <1>1
  <2>3. Behind(list, marks[f], o)
    BY <2>2, <1>1
  <2>4. Behind(list, marks[g], o)
    BY <2>3 DEF ListInv, Nested, MarksOrdered
  <2> QED BY <2>2, <2>4, <1>1
<1> QED BY <1>2, <1>3, <1>4, <1>5 DEF ListInv, Nested, u

\* No mark of the activations up to b is a frame beyond b.
LEMMA MarksAreOld ==
  ASSUME NEW list \in Seq(Owner), NEW marks, NEW S, NEW D, NEW b \in Int,
         ListInv(list, marks, S, D, b), NEW x \in Frame, x > b
  PROVE  \A f \in 1 .. b : marks[f] # x
<1> SUFFICES ASSUME NEW f \in 1 .. b, marks[f] = x PROVE FALSE
  OBVIOUS
<1>1. x # Nil /\ x \in Int
  BY FramesAreOwners DEF Frame
<1>2. x \in ToSet(list)
  BY <1>1 DEF ListInv, Nested, MarksListed
<1>3. Behind(list, x, x)
  BY <1>2 DEF Behind, ToSet
<1>4. x <= f
  BY <1>2, <1>3 DEF ListInv, Nested, MarksDivide
<1> QED BY <1>1, <1>4

\* A heap variable is registered at the head.
LEMMA ListPushes ==
  ASSUME NEW list \in Seq(Owner), NEW marks, NEW S, NEW D, NEW b \in Int,
         ListInv(list, marks, S, D, b), NEW c \in Cell, c \notin ToSet(list), b <= Depth
  PROVE  ListInv(<<c>> \o list, marks, S \cup {c}, D, b)
<1> DEFINE u == <<c>> \o list
<1>1. c \in Owner /\ c \notin Frame /\ Depth \in Nat
  BY PasUnwindAssumption, FramesAreOwners
<1>2. /\ u \in Seq(Owner) /\ ToSet(u) = ToSet(list) \cup {c} /\ IsInjective(u)
      /\ \A m, o : m # c => (Behind(u, m, o) <=> Behind(list, m, o))
  BY <1>1, PushFacts DEF ListInv, Listed
<1> HIDE DEF u
<1>3. \A f \in 1 .. b : marks[f] # c
  BY <1>1, FramesAreOwners DEF ListInv, Nested, MarksListed
<1>4. Listed(u, S \cup {c}, D, b)
  BY <1>1, <1>2 DEF ListInv, Listed
<1>5. MarksListed(u, marks, b)
  BY <1>2 DEF ListInv, Nested, MarksListed
<1>6. MarksDivide(u, marks, b)
  BY <1>1, <1>2, <1>3 DEF ListInv, Nested, MarksDivide
<1>7. MarksOrdered(u, marks, b)
  BY <1>2, <1>3 DEF ListInv, Nested, MarksOrdered
<1> QED BY <1>4, <1>5, <1>6, <1>7 DEF ListInv, Nested, u

\* A walk to the mark of t takes no mark of an outer block and no frame of one.
LEMMA WalkTakes ==
  ASSUME NEW list \in Seq(Owner), NEW marks, NEW S, NEW D, NEW t \in Frame,
         ListInv(list, marks, S, D, t), HeadOf(list) \notin {Nil, marks[t]}
  PROVE  /\ list # <<>> /\ Head(list) \in Owner
         /\ Head(list) \notin 1 .. t
         /\ \A f \in 1 .. t : marks[f] # Head(list)
<1>1. t \in 1 .. t /\ t \in Nat /\ 1 .. t \subseteq Frame
  BY PasUnwindAssumption DEF Frame
<1>2. list # <<>> /\ IsInjective(list)
  BY DEF HeadOf, ListInv, Listed
<1>3. /\ Head(list) \in Owner /\ Head(list) \in ToSet(list) /\ HeadOf(list) = Head(list)
      /\ \A o \in ToSet(list) : Behind(list, Head(list), o)
      /\ \A m : Behind(list, m, Head(list)) => m = Head(list)
  BY <1>2, HeadFacts
<1>4. ASSUME Head(list) \in 1 .. t PROVE FALSE
  <2>1. Behind(list, marks[t], Head(list))
    BY <1>1, <1>3, <1>4 DEF ListInv, Nested, MarksDivide
  <2> QED BY <2>1, <1>3
<1>5. ASSUME NEW f \in 1 .. t, marks[f] = Head(list) PROVE FALSE
  <2>1. Behind(list, marks[f], Head(list))
    BY <1>3, <1>5
  <2>2. Behind(list, marks[t], Head(list))
    BY <2>1, <1>1, <1>3 DEF ListInv, Nested, MarksOrdered
  <2> QED BY <2>2, <1>3
<1> QED BY <1>2, <1>3, <1>4, <1>5

\* A walk that has come to the mark of t has left no frame beyond t.
LEMMA WalkEnds ==
  ASSUME NEW list \in Seq(Owner), NEW marks, NEW S, NEW D, NEW t \in Frame,
         ListInv(list, marks, S, D, t), HeadOf(list) \in {Nil, marks[t]}
  PROVE  \A g \in Frame : g \in ToSet(list) => g <= t
<1> SUFFICES ASSUME NEW g \in Frame, g \in ToSet(list) PROVE g <= t
  OBVIOUS
<1>1. t \in 1 .. t
  BY PasUnwindAssumption DEF Frame
<1>2. list # <<>>
  BY DEF ToSet
<1>3. /\ Head(list) \in Owner /\ HeadOf(list) = Head(list)
      /\ \A o \in ToSet(list) : Behind(list, Head(list), o)
  BY <1>2, HeadFacts
<1>4. marks[t] = Head(list)
  BY <1>3, FramesAreOwners
<1>5. Behind(list, marks[t], g)
  BY <1>3, <1>4
<1> QED BY <1>1, <1>5 DEF ListInv, Nested, MarksDivide

\* A block's prologue: its slot, when it declares one, is put at the head, and
\* the head is noted as its mark.
LEMMA ListEnters ==
  ASSUME NEW list \in Seq(Owner), NEW marks, NEW S, NEW D, NEW b \in Nat,
         ListInv(list, marks, S, D, b), b < Depth, S \cap Frame \subseteq 1 .. b,
         marks \in [Frame -> Owner \cup {Nil}],
         NEW P, NEW part, NEW D2, D2 \cap (1 .. b) = D \cap (1 .. b), (b + 1 \in D2 <=> part \in P)
  PROVE  LET u == Push(part \in P, b + 1, list)
             marks2 == [marks EXCEPT ![b + 1] = HeadOf(u)]
         IN ListInv(u, marks2, S \cup {b + 1}, D2, b + 1)
<1> DEFINE u == Push(part \in P, b + 1, list)
           marks2 == [marks EXCEPT ![b + 1] = HeadOf(u)]
<1>1. b + 1 \in Frame /\ 1 .. b + 1 \subseteq Frame /\ b + 1 \in Owner
  BY PasUnwindAssumption, FramesAreOwners DEF Frame
<1>2. b + 1 \notin ToSet(list) /\ IsInjective(list)
  BY <1>1 DEF ListInv, Listed
<1>3. /\ u \in Seq(Owner) /\ IsInjective(u)
      /\ ToSet(u) = IF part \in P THEN ToSet(list) \cup {b + 1} ELSE ToSet(list)
      /\ \A m, o : m # b + 1 => (Behind(u, m, o) <=> Behind(list, m, o))
  <2>1. CASE part \in P
    BY <2>1, <1>1, <1>2, PushFacts DEF Push
  <2>2. CASE part \notin P
    BY <2>2, <1>2 DEF Push
  <2> QED BY <2>1, <2>2
<1>4. \A f \in 1 .. b : marks2[f] = marks[f] /\ marks[f] # b + 1
  <2>1. \A f \in 1 .. b : marks[f] # b + 1
    BY <1>2, FramesAreOwners, <1>1 DEF ListInv, Nested, MarksListed
  <2> QED BY <2>1, <1>1
<1>5. marks2[b + 1] = HeadOf(u)
  BY <1>1
<1>6. \A o \in ToSet(u) : Behind(u, HeadOf(u), o)
  <2> SUFFICES ASSUME NEW o \in ToSet(u) PROVE Behind(u, HeadOf(u), o)
    OBVIOUS
  <2>1. u # <<>>
    BY DEF ToSet
  <2> HIDE DEF u
  <2> QED BY <2>1, <1>3, HeadFacts
<1>7. HeadOf(u) = Nil \/ HeadOf(u) \in ToSet(u)
  <2>1. CASE u = <<>>
    BY <2>1 DEF HeadOf
  <2>2. CASE u # <<>>
    <3> HIDE DEF u
    <3> QED BY <2>2, <1>3, HeadFacts
  <2> QED BY <2>1, <2>2
<1>8. \A g \in Frame : g \in ToSet(u) => g <= b + 1
  BY <1>1, <1>3 DEF ListInv, Listed
<1>9. \A f \in 1 .. b + 1 : f = b + 1 \/ f \in 1 .. b
  OBVIOUS
<1> HIDE DEF u, marks2
<1>10. Listed(u, S \cup {b + 1}, D2, b + 1)
  <2>1. ToSet(u) \subseteq S \cup {b + 1}
    BY <1>3 DEF ListInv, Listed
  <2>2. ToSet(u) \cap Frame \subseteq D2
    <3>1. \A g \in Frame : g \in ToSet(list) => g \in D /\ g \in 1 .. b
      BY DEF ListInv, Listed
    <3> QED BY <3>1, <1>3
  <2>3. D2 \cap (1 .. b + 1) \subseteq ToSet(u)
    <3>1. \A g \in 1 .. b : g \in D => g \in ToSet(list)
      BY DEF ListInv, Listed
    <3> QED BY <3>1, <1>3, <1>9
  <2> QED BY <2>1, <2>2, <2>3, <1>3 DEF Listed
<1>11. MarksListed(u, marks2, b + 1)
  BY <1>3, <1>4, <1>5, <1>7, <1>9 DEF ListInv, Nested, MarksListed
<1>12. MarksDivide(u, marks2, b + 1)
  <2> SUFFICES ASSUME NEW f \in 1 .. b + 1, NEW g \in Frame, g \in ToSet(u)
               PROVE  g <= f <=> Behind(u, marks2[f], g)
    BY DEF MarksDivide
  <2>1. CASE f = b + 1
    BY <2>1, <1>5, <1>6, <1>8
  <2>2. CASE f \in 1 .. b /\ g \in ToSet(list)
    BY <2>2, <1>3, <1>4 DEF ListInv, Nested, MarksDivide
  <2>3. CASE f \in 1 .. b /\ g \notin ToSet(list)
    <3>1. g = b + 1 /\ ~ (g <= f)
      BY <2>3, <1>3
    <3>2. ~ Behind(list, marks[f], g)
      BY <2>3 DEF Behind, ToSet
    <3> QED BY <3>1, <3>2, <2>3, <1>3, <1>4
  <2> QED BY <2>1, <2>2, <2>3, <1>9
<1>13. MarksOrdered(u, marks2, b + 1)
  <2> SUFFICES ASSUME NEW f \in 1 .. b + 1, NEW g \in 1 .. b + 1, NEW o \in Owner,
                      f <= g, Behind(u, marks2[f], o)
               PROVE  Behind(u, marks2[g], o)
    BY DEF MarksOrdered
  <2>1. o \in ToSet(u)
    BY DEF Behind, ToSet
  <2>2. CASE g = b + 1
    BY <2>1, <2>2, <1>5, <1>6
  <2>3. CASE g \in 1 .. b
    <3>1. f \in 1 .. b
      BY <2>3
    <3> QED BY <3>1, <2>3, <1>3, <1>4 DEF ListInv, Nested, MarksOrdered
  <2> QED BY <2>2, <2>3, <1>9
<1> QED BY <1>10, <1>11, <1>12, <1>13 DEF ListInv, Nested, u, marks2
-----------------------------------------------------------------------------
(* The invariant holds at the start.                                       *)

\* The program block's prologue, on a list that is empty.
LEMMA FirstList ==
  ASSUME NEW P, NEW part, NEW D, \A f \in Frame : f \in D <=> f = 1 /\ part \in P,
         NEW S, NEW list \in Seq(S), IsInjective(list),
         \A o : o \in ToSet(list) <=> o = 1 /\ part \in P,
         NEW marks, \A f \in Frame : marks[f] = IF f = 1 /\ part \in P THEN 1 ELSE Nil
  PROVE  ListInv(list, marks, 1 .. 1, D, 1)
<1>1. 1 \in Frame /\ Nil \notin Frame /\ 1 .. 1 = {1}
  BY PasUnwindAssumption, FramesAreOwners DEF Frame
<1>2. \A m \in ToSet(list) : Behind(list, m, m)
  BY DEF Behind, ToSet
<1>3. Listed(list, 1 .. 1, D, 1)
  BY <1>1 DEF Listed
<1>4. MarksListed(list, marks, 1)
  BY <1>1 DEF MarksListed
<1>5. MarksDivide(list, marks, 1)
  BY <1>1, <1>2 DEF MarksDivide
<1>6. MarksOrdered(list, marks, 1)
  BY <1>1 DEF MarksOrdered
<1> QED BY <1>3, <1>4, <1>5, <1>6 DEF ListInv, Nested

\* What is on such a list.
LEMMA FirstEntry ==
  ASSUME NEW S, 1 \in S, NEW P, NEW part
  PROVE  LET list == IF part \in P THEN <<1>> ELSE <<>>
         IN /\ list \in Seq(S) /\ IsInjective(list)
            /\ \A o : o \in ToSet(list) <=> o = 1 /\ part \in P
<1>1. <<>> \in Seq(S) /\ <<1>> \in Seq(S)
  OBVIOUS
<1>2. IsInjective(<<>>) /\ IsInjective(<<1>>)
  BY DEF IsInjective
<1>3. \A o : o \notin ToSet(<<>>)
  BY DEF ToSet
<1>4. \A o : o \in ToSet(<<1>>) <=> o = 1
  BY DEF ToSet
<1> QED BY <1>1, <1>2, <1>3, <1>4

LEMMA InitUnwind == Init => UnwindInv
<1> SUFFICES ASSUME Init PROVE UnwindInv
  OBVIOUS
<1>1. 1 \in Frame /\ Depth \in Nat /\ Frame \subseteq Owner /\ Nil \notin Owner
  BY PasUnwindAssumption, FramesAreOwners DEF Frame
<1>2. PICK D \in SUBSET Part :
         /\ declares = [f \in Frame |-> IF f = 1 THEN D ELSE {}]
         /\ files = (IF "file" \in D THEN <<1>> ELSE <<>>)
         /\ handles = (IF "handle" \in D THEN <<1>> ELSE <<>>)
         /\ defers = (IF "defer" \in D THEN <<1>> ELSE <<>>)
         /\ mark = [f \in Frame |-> IF f = 1 /\ "file" \in D THEN 1 ELSE Nil]
         /\ hmark = [f \in Frame |-> IF f = 1 /\ "handle" \in D THEN 1 ELSE Nil]
         /\ dmark = [f \in Frame |-> IF f = 1 /\ "defer" \in D THEN 1 ELSE Nil]
         /\ fileUp = [o \in Owner |-> o = 1 /\ "file" \in D]
  BY DEF Init
<1>3. \A p \in Part : \A f \in Frame : f \in Declaring(p) <=> f = 1 /\ p \in D
  BY <1>2 DEF Declaring
<1>4. Slots = 1 .. 1 /\ Bound = 1
  BY DEF Slots, Bound, Init
<1>5. /\ files \in Seq(Owner) /\ mark \in [Frame -> Owner \cup {Nil}]
      /\ \A o : o \in ToSet(files) <=> o = 1 /\ "file" \in D
      /\ FilesInv
  <2>1. \A f \in Frame : f \in Declaring("file") <=> f = 1 /\ "file" \in D
    BY <1>3 DEF Part
  <2>2. \A f \in Frame : mark[f] = IF f = 1 /\ "file" \in D THEN 1 ELSE Nil
    BY <1>2
  <2>3. /\ files \in Seq(Owner) /\ IsInjective(files)
        /\ \A o : o \in ToSet(files) <=> o = 1 /\ "file" \in D
    BY <1>1, <1>2, FirstEntry
  <2>4. ListInv(files, mark, 1 .. 1, Declaring("file"), 1)
    BY <2>1, <2>2, <2>3, FirstList
  <2> QED BY <2>3, <2>4, <1>1, <1>2, <1>4 DEF FilesInv
<1>6. /\ handles \in Seq(Owner) /\ hmark \in [Frame -> Owner \cup {Nil}]
      /\ \A o : o \in ToSet(handles) <=> o = 1 /\ "handle" \in D
      /\ HandlesInv
  <2>1. \A f \in Frame : f \in Declaring("handle") <=> f = 1 /\ "handle" \in D
    BY <1>3 DEF Part
  <2>2. \A f \in Frame : hmark[f] = IF f = 1 /\ "handle" \in D THEN 1 ELSE Nil
    BY <1>2
  <2>3. /\ handles \in Seq(Owner) /\ IsInjective(handles)
        /\ \A o : o \in ToSet(handles) <=> o = 1 /\ "handle" \in D
    BY <1>1, <1>2, FirstEntry
  <2>4. ListInv(handles, hmark, 1 .. 1, Declaring("handle"), 1)
    BY <2>1, <2>2, <2>3, FirstList
  <2> QED BY <2>3, <2>4, <1>1, <1>2, <1>4 DEF HandlesInv
<1>7. defers \in Seq(Frame) /\ dmark \in [Frame -> Frame \cup {Nil}] /\ DefersInv
  <2>1. \A f \in Frame : f \in Declaring("defer") <=> f = 1 /\ "defer" \in D
    BY <1>3 DEF Part
  <2>2. \A f \in Frame : dmark[f] = IF f = 1 /\ "defer" \in D THEN 1 ELSE Nil
    BY <1>2
  <2>3. /\ defers \in Seq(Frame) /\ IsInjective(defers)
        /\ \A o : o \in ToSet(defers) <=> o = 1 /\ "defer" \in D
    BY <1>1, <1>2, FirstEntry
  <2>4. ListInv(defers, dmark, 1 .. 1, Declaring("defer"), 1)
    BY <2>1, <2>2, <2>3, FirstList
  <2> QED BY <2>3, <2>4, <1>1, <1>2, <1>4 DEF DefersInv, Init
<1>8. declares \in [Frame -> SUBSET Part] /\ fileUp \in [Owner -> BOOLEAN]
  BY <1>2
<1>9. FileSlots
  BY <1>1, <1>2, <1>5 DEF FileSlots
<1>10. TypeOK
  <2>1. depth \in 0 .. Depth
    BY <1>1 DEF Frame, Init
  <2>2. armed \in [Frame -> BOOLEAN] /\ active \in [Frame -> BOOLEAN]
    BY DEF Init
  <2>3. value \in [Owner -> Value \cup {Nil}] /\ closes \in [Value -> 0 .. 1]
    BY DEF Init
  <2> QED BY <2>1, <2>2, <2>3, <1>5, <1>6, <1>7, <1>8 DEF TypeOK, Init
<1>11. PcInv /\ HandleSlots /\ DeferSlots
  BY <1>1 DEF PcInv, HandleSlots, DeferSlots, Owner, Init
<1>12. ResourceInv
  BY DEF ResourceInv, Init
<1> QED BY <1>5, <1>6, <1>7, <1>9, <1>10, <1>11, <1>12 DEF UnwindInv

-----------------------------------------------------------------------------
(* What several steps share.                                               *)

LEMMA BoundFacts ==
  ASSUME TypeOK, PcInv
  PROVE  Bound \in 0 .. Depth /\ Bound <= depth /\ depth \in Nat /\ Depth \in Nat
BY PasUnwindAssumption DEF TypeOK, PcInv, Bound, Frame

\* Where no block comes or goes, a list that nothing happens to stays in order
\* while the bound does not rise ...
LEMMA ListsStay ==
  ASSUME Bound \in Int, Bound' \in Int, Bound' <= Bound, UNCHANGED <<frameState, heap>>
  PROVE  /\ FilesInv /\ UNCHANGED files => FilesInv'
         /\ HandlesInv /\ UNCHANGED handles => HandlesInv'
         /\ DefersInv /\ UNCHANGED defers /\ blockPc' # "leave" => DefersInv'
<1>1. /\ Slots' = Slots /\ mark' = mark /\ hmark' = hmark /\ dmark' = dmark
      /\ \A p \in Part : Declaring(p)' = Declaring(p)
  BY DEF frameState, Slots, Declaring
<1>2. \A list, marks, D : ListInv(list, marks, Slots, D, Bound) =>
                          ListInv(list, marks, Slots, D, Bound')
  <2> SUFFICES ASSUME NEW list, NEW marks, NEW D, ListInv(list, marks, Slots, D, Bound)
               PROVE  ListInv(list, marks, Slots, D, Bound')
    OBVIOUS
  <2>1. ToSet(list) \subseteq Slots /\ ToSet(list) \cap Frame \subseteq D
    BY DEF ListInv, Listed
  <2> QED BY <2>1, ListKept
<1> QED BY <1>1, <1>2 DEF FilesInv, HandlesInv, DefersInv, Part

\* ... and so does one from which a slot x beyond the bound is unlinked that
\* no mark names.
LEMMA ListsUnlink ==
  ASSUME TypeOK, Bound \in Int, Bound' \in Int, Bound' <= Bound, UNCHANGED <<frameState, heap>>,
         NEW x, x \notin 1 .. Bound'
  PROVE  /\ FilesInv /\ files' = Unlinked(files, x) /\ (\A f \in 1 .. Bound' : mark[f] # x)
              => FilesInv'
         /\ HandlesInv /\ handles' = Unlinked(handles, x)
              /\ (\A f \in 1 .. Bound' : hmark[f] # x) => HandlesInv'
         /\ DefersInv /\ defers' = Unlinked(defers, x) /\ (\A f \in 1 .. Bound' : dmark[f] # x)
              /\ (blockPc' = "leave" => x = depth') => DefersInv'
<1>1. /\ Slots' = Slots /\ mark' = mark /\ hmark' = hmark /\ dmark' = dmark
      /\ \A p \in Part : Declaring(p)' = Declaring(p)
  BY DEF frameState, Slots, Declaring
<1>2. \A list \in Seq(Owner) : \A marks, D :
        ListInv(list, marks, Slots, D, Bound) /\ (\A f \in 1 .. Bound' : marks[f] # x) =>
        /\ ListInv(Unlinked(list, x), marks, Slots, D, Bound')
        /\ x \notin ToSet(Unlinked(list, x))
  <2> SUFFICES ASSUME NEW list \in Seq(Owner), NEW marks, NEW D,
                      ListInv(list, marks, Slots, D, Bound), \A f \in 1 .. Bound' : marks[f] # x
               PROVE  /\ ListInv(Unlinked(list, x), marks, Slots, D, Bound')
                      /\ x \notin ToSet(Unlinked(list, x))
    OBVIOUS
  <2>1. ToSet(list) \subseteq Slots /\ ToSet(list) \cap Frame \subseteq D /\ IsInjective(list)
    BY DEF ListInv, Listed
  <2>2. ListInv(list, marks, Slots, D, Bound')
    BY <2>1, ListKept
  <2>3. ToSet(Unlinked(list, x)) = ToSet(list) \ {x}
    BY <2>1, UnlinkedFacts
  <2> QED BY <2>2, <2>3, ListUnlinks
<1>3. files \in Seq(Owner) /\ handles \in Seq(Owner) /\ defers \in Seq(Owner)
  BY FramesAreOwners DEF TypeOK
<1> QED BY <1>1, <1>2, <1>3 DEF FilesInv, HandlesInv, DefersInv, Part

\* Slots are released: their resources are closed, each for the first time.
LEMMA ReleaseFacts ==
  ASSUME TypeOK, ResourceInv, NEW S \in SUBSET Owner, Released(S), UNCHANGED opened
  PROVE  /\ ResourceInv'
         /\ value' \in [Owner -> Value \cup {Nil}] /\ closes' \in [Value -> 0 .. 1]
         /\ \A o \in Owner : value'[o] = IF o \in S THEN Nil ELSE value[o]
<1>1. /\ value' = [o \in Owner |-> IF o \in S THEN Nil ELSE value[o]]
      /\ closes' = [v \in Value |-> closes[v] + Cardinality({o \in S : value[o] = v})]
      /\ value \in [Owner -> Value \cup {Nil}] /\ closes \in [Value -> 0 .. 1]
      /\ Nil \notin Value
  BY PasUnwindAssumption DEF Released, TypeOK
<1>2. ASSUME NEW v \in Value
      PROVE  closes'[v] = IF \E o \in S : value[o] = v THEN 1 ELSE closes[v]
  <2>1. CASE \E o \in S : value[o] = v
    <3>1. PICK h \in S : value[h] = v
      BY <2>1
    <3>2. \A o \in S : value[o] = v => o = h
      BY <3>1, <1>1 DEF ResourceInv
    <3>3. {o \in S : value[o] = v} = {h}
      BY <3>1, <3>2
    <3>4. Cardinality({h}) = 1
      BY FS_Singleton
    <3>5. closes[v] = 0
      BY <3>1, <1>1 DEF ResourceInv
    <3> QED BY <3>1, <3>3, <3>4, <3>5, <1>1
  <2>2. CASE ~ \E o \in S : value[o] = v
    <3>1. {o \in S : value[o] = v} = {}
      BY <2>2
    <3>2. Cardinality({}) = 0
      BY FS_EmptySet
    <3> QED BY <2>2, <3>1, <3>2, <1>1
  <2> QED BY <2>1, <2>2
<1>3. \A o \in Owner : value'[o] = IF o \in S THEN Nil ELSE value[o]
  BY <1>1
<1>4. value' \in [Owner -> Value \cup {Nil}]
  BY <1>1
<1>5. closes' \in [Value -> 0 .. 1]
  <2>1. \A v \in Value : closes'[v] \in 0 .. 1
    BY <1>1, <1>2
  <2> QED BY <2>1, <1>1
<1>6. ResourceInv'
  <2>1. \A o, p \in Owner : value'[o] # Nil /\ value'[o] = value'[p] => o = p
    BY <1>3 DEF ResourceInv
  <2>2. ASSUME NEW o \in Owner, value'[o] # Nil
        PROVE  value'[o] \in opened' /\ closes'[value'[o]] = 0
    <3>1. o \notin S /\ value'[o] = value[o] /\ value[o] \in Value
      BY <2>2, <1>1, <1>3
    <3>2. ~ \E p \in S : value[p] = value[o]
      BY <3>1, <2>2 DEF ResourceInv
    <3> QED BY <3>1, <3>2, <2>2, <1>2 DEF ResourceInv
  <2>3. ASSUME NEW v \in Value, closes'[v] = 1 PROVE v \in opened'
    BY <2>3, <1>1, <1>2 DEF ResourceInv
  <2>4. ASSUME NEW v \in opened'
        PROVE  closes'[v] = 1 \/ \E o \in Owner : value'[o] = v
    <3>1. v \in opened /\ v \in Value
      BY DEF TypeOK
    <3>2. CASE closes[v] = 1
      BY <3>1, <3>2, <1>2
    <3>3. CASE closes[v] # 1
      <4>1. PICK o \in Owner : value[o] = v
        BY <3>1, <3>3 DEF ResourceInv
      <4>2. CASE o \in S
        BY <4>1, <4>2, <3>1, <1>2
      <4>3. CASE o \notin S
        BY <4>1, <4>3, <1>3
      <4> QED BY <4>2, <4>3
    <3> QED BY <3>2, <3>3
  <2> QED BY <2>1, <2>2, <2>3, <2>4 DEF ResourceInv
<1> QED BY <1>3, <1>4, <1>5, <1>6
\* What is on the lists exists and is declared ...
LEMMA ListedIsLive ==
  ASSUME UnwindInv
  PROVE  /\ \A f \in Frame : f \in ToSet(files) => f <= depth /\ "file" \in declares[f]
         /\ \A f \in Frame : f \in ToSet(handles) => f <= depth /\ "handle" \in declares[f]
         /\ \A f \in Frame : f \in ToSet(defers) => f <= depth /\ "defer" \in declares[f]
         /\ \A c \in Cell : c \in ToSet(files) \cup ToSet(handles) => c \in heap
         /\ IsInjective(files) /\ IsInjective(handles) /\ IsInjective(defers)
<1>1. /\ \A f \in Frame : f \in Slots => f <= depth
      /\ \A c \in Cell : c \in Slots => c \in heap
  <2>1. depth \in 0 .. Depth /\ heap \subseteq Cell /\ Cell \cap Frame = {}
        /\ Depth \in Nat
    BY PasUnwindAssumption DEF UnwindInv, TypeOK
  <2> QED BY <2>1 DEF Slots, Frame
<1> QED
  BY <1>1 DEF UnwindInv, FilesInv, HandlesInv, DefersInv, ListInv, Listed, Declaring

\* ... and what the blocks up to the bound declare is on the lists.
LEMMA DeclaredIsListed ==
  ASSUME UnwindInv, NEW f \in 1 .. Bound
  PROVE  /\ f \in Frame
         /\ "file" \in declares[f] => f \in ToSet(files)
         /\ "handle" \in declares[f] => f \in ToSet(handles)
         /\ "defer" \in declares[f] => f \in ToSet(defers)
<1>1. f \in Frame
  BY BoundFacts DEF UnwindInv, Frame
<1> QED
  BY <1>1 DEF UnwindInv, FilesInv, HandlesInv, DefersInv, ListInv, Listed, Declaring

-----------------------------------------------------------------------------
(* Steps of a block that runs.                                             *)

LEMMA ArmStep == ASSUME UnwindInv, Arm PROVE UnwindInv'
<1> USE DEF Arm
<1>1. depth \in Frame /\ depth \in 1 .. Bound /\ Bound \in Int
  BY BoundFacts DEF UnwindInv, PcInv, Bound, Frame
<1>2. Bound' = Bound
  BY DEF Bound, frameState
<1>3. TypeOK' /\ PcInv'
  BY DEF UnwindInv, TypeOK, PcInv, frameState, lists, slots
<1>4. FilesInv' /\ HandlesInv' /\ DefersInv'
  BY <1>1, <1>2, ListsStay DEF UnwindInv, lists
<1>5. FileSlots' /\ HandleSlots' /\ ResourceInv'
  BY DEF UnwindInv, FileSlots, HandleSlots, ResourceInv, lists, slots
<1>6. DeferSlots'
  <2>1. depth \in ToSet(defers) /\ ("file" \in declares[depth] => depth \in ToSet(files))
    BY <1>1, DeclaredIsListed
  <2>2. \A f \in Frame : armed'[f] => f = depth \/ armed[f]
    BY DEF UnwindInv, TypeOK
  <2> QED BY <2>1, <2>2 DEF UnwindInv, DeferSlots, frameState, lists
<1> QED BY <1>3, <1>4, <1>5, <1>6 DEF UnwindInv

LEMMA CompleteStep == ASSUME UnwindInv, CompleteSequence PROVE UnwindInv'
<1> USE DEF CompleteSequence
<1>1. depth \in Frame /\ depth \in Owner /\ Bound \in Nat /\ Bound <= depth
  BY BoundFacts, FramesAreOwners DEF UnwindInv, PcInv, Bound, Frame
<1>2. blockPc' \in {"run", "halt"} /\ Bound' \in Int /\ Bound' <= Bound
  BY <1>1 DEF Bound, frameState
<1>3. /\ ResourceInv' /\ value' \in [Owner -> Value \cup {Nil}] /\ closes' \in [Value -> 0 .. 1]
      /\ \A o \in Owner : value'[o] \in {Nil, value[o]}
  <2>1. CASE Released({depth})
    BY <2>1, <1>1, ReleaseFacts DEF UnwindInv
  <2>2. CASE UNCHANGED <<value, closes>>
    BY <2>2 DEF UnwindInv, TypeOK, ResourceInv
  <2> QED BY <2>1, <2>2
<1>4. TypeOK'
  BY <1>2, <1>3 DEF UnwindInv, TypeOK, frameState, lists
<1>5. PcInv'
  BY <1>2 DEF UnwindInv, PcInv, frameState, lists
<1>6. FilesInv' /\ HandlesInv' /\ DefersInv'
  BY <1>1, <1>2, ListsStay DEF UnwindInv, lists
<1>7. FileSlots' /\ HandleSlots'
  BY <1>3, FramesAreOwners DEF UnwindInv, FileSlots, HandleSlots, lists
<1>8. DeferSlots'
  <2>1. \A f \in Frame : armed'[f] => armed[f]
    BY DEF UnwindInv, TypeOK
  <2> QED BY <2>1 DEF UnwindInv, DeferSlots, frameState, lists
<1> QED BY <1>3, <1>4, <1>5, <1>6, <1>7, <1>8 DEF UnwindInv

\* An assignment to a handle, a move and a release: nothing but who holds what
\* changes, and a slot that exists is the one that comes to hold something.
LEMMA HandleKeeps ==
  ASSUME UnwindInv, UNCHANGED <<frameState, armed, lists, fileUp, heap, blockPc, blockTarget>>,
         blockPc = "run",
         value' \in [Owner -> Value \cup {Nil}], closes' \in [Value -> 0 .. 1],
         opened' \in SUBSET Value, ResourceInv',
         \A o \in Owner : value'[o] # Nil => value[o] # Nil \/ HasHandle(o)
  PROVE  UnwindInv'
<1>1. Bound' = Bound /\ Bound \in Int
  BY BoundFacts DEF UnwindInv, Bound, frameState
<1>2. TypeOK' /\ PcInv'
  BY DEF UnwindInv, TypeOK, PcInv, frameState, lists
<1>3. FilesInv' /\ HandlesInv' /\ DefersInv'
  BY <1>1, ListsStay DEF UnwindInv, lists
<1>4. FileSlots' /\ DeferSlots'
  BY DEF UnwindInv, FileSlots, DeferSlots, lists, frameState
<1>5. HandleSlots'
  <2>1. ASSUME NEW f \in Frame, value'[f] # Nil PROVE f \in ToSet(handles)
    <3>1. f \in Owner /\ f \notin Cell
      BY FramesAreOwners, PasUnwindAssumption
    <3>2. CASE value[f] # Nil
      BY <3>2 DEF UnwindInv, HandleSlots
    <3>3. CASE HasHandle(f)
      <4>1. f \in 1 .. Bound /\ "handle" \in declares[f]
        BY <3>1, <3>3 DEF HasHandle, Bound, Frame
      <4> QED BY <4>1, DeclaredIsListed
    <3> QED BY <3>1, <3>2, <3>3, <2>1
  <2>2. ASSUME NEW c \in Cell, value'[c] # Nil PROVE c \in heap
    BY <2>2, FramesAreOwners DEF HasHandle, UnwindInv, HandleSlots
  <2> QED BY <2>1, <2>2 DEF HandleSlots, lists
<1> QED BY <1>2, <1>3, <1>4, <1>5 DEF UnwindInv

LEMMA HandleSetStep ==
  ASSUME UnwindInv, NEW o \in Owner, NEW v \in Value, HandleSet(o, v)
  PROVE  UnwindInv'
<1> USE DEF HandleSet
<1>1. /\ value \in [Owner -> Value \cup {Nil}] /\ closes \in [Value -> 0 .. 1]
      /\ opened \subseteq Value /\ Nil \notin Value
  BY PasUnwindAssumption DEF UnwindInv, TypeOK
<1>2. /\ value' \in [Owner -> Value \cup {Nil}]
      /\ \A p \in Owner : value'[p] = IF p = o THEN v ELSE value[p]
  BY <1>1
<1>3. /\ \A w \in Value : closes'[w] = IF value[o] = w THEN 1 ELSE closes[w]
      /\ closes' \in [Value -> 0 .. 1]
  <2>1. \A w \in Value : value[o] = w => closes[w] = 0
    BY <1>1 DEF UnwindInv, ResourceInv
  <2>2. \A w \in Value : closes'[w] = IF value[o] = w THEN 1 ELSE closes[w]
    BY <2>1, <1>1
  <2> QED BY <2>2, <1>1
<1>4. \A p \in Owner : value[p] # v
  BY <1>1 DEF UnwindInv, ResourceInv
<1>5. ResourceInv'
  <2>1. \A p, q \in Owner : value'[p] # Nil /\ value'[p] = value'[q] => p = q
    BY <1>2, <1>4 DEF UnwindInv, ResourceInv
  <2>2. ASSUME NEW p \in Owner, value'[p] # Nil
        PROVE  value'[p] \in opened' /\ closes'[value'[p]] = 0
    <3>1. CASE p = o
      <4>1. value'[p] = v /\ value[o] # v
        BY <3>1, <1>2, <1>4
      <4>2. closes[v] = 0
        BY <1>1 DEF UnwindInv, ResourceInv
      <4> QED BY <4>1, <4>2, <1>3
    <3>2. CASE p # o
      <4>1. value'[p] = value[p] /\ value[p] \in Value /\ value[o] # value[p]
        BY <3>2, <2>2, <1>1, <1>2 DEF UnwindInv, ResourceInv
      <4> QED BY <4>1, <2>2, <1>3 DEF UnwindInv, ResourceInv
    <3> QED BY <3>1, <3>2
  <2>3. ASSUME NEW w \in Value, closes'[w] = 1 PROVE w \in opened'
    BY <2>3, <1>1, <1>3 DEF UnwindInv, ResourceInv
  <2>4. ASSUME NEW w \in opened'
        PROVE  closes'[w] = 1 \/ \E p \in Owner : value'[p] = w
    <3>1. CASE w = v
      BY <3>1, <1>2
    <3>2. CASE w # v /\ w \in opened
      <4>1. w \in Value
        BY <3>2, <1>1
      <4>2. CASE value[o] = w
        BY <4>1, <4>2, <1>3
      <4>3. CASE value[o] # w
        <5>1. closes[w] = 1 \/ \E p \in Owner : value[p] = w
          BY <3>2 DEF UnwindInv, ResourceInv
        <5> QED BY <5>1, <4>1, <4>3, <1>2, <1>3
      <4> QED BY <4>2, <4>3
    <3> QED BY <3>1, <3>2
  <2> QED BY <2>1, <2>2, <2>3, <2>4 DEF ResourceInv
<1>6. \A p \in Owner : value'[p] # Nil => value[p] # Nil \/ HasHandle(p)
  BY <1>2
<1>7. opened' \in SUBSET Value
  BY <1>1
<1> QED BY <1>2, <1>3, <1>5, <1>6, <1>7, HandleKeeps

LEMMA HandleMoveStep ==
  ASSUME UnwindInv, NEW s \in Owner, NEW d \in Owner, HandleMove(s, d)
  PROVE  UnwindInv'
<1> USE DEF HandleMove
<1>1. /\ value \in [Owner -> Value \cup {Nil}] /\ closes \in [Value -> 0 .. 1]
      /\ opened \subseteq Value /\ Nil \notin Value /\ value[s] # Nil
  BY PasUnwindAssumption DEF UnwindInv, TypeOK
<1>2. /\ value' \in [Owner -> Value \cup {Nil}]
      /\ \A p \in Owner : value'[p] = IF p = d THEN value[s] ELSE IF p = s THEN Nil ELSE value[p]
  BY <1>1
<1>3. /\ \A w \in Value : closes'[w] = IF s # d /\ value[d] = w THEN 1 ELSE closes[w]
      /\ closes' \in [Value -> 0 .. 1]
  <2>1. \A w \in Value : value[d] = w => closes[w] = 0
    BY <1>1 DEF UnwindInv, ResourceInv
  <2>2. \A w \in Value : closes'[w] = closes[w] + IF s # d /\ value[d] = w THEN 1 ELSE 0
    BY <1>1
  <2>3. \A w \in Value : closes'[w] = IF s # d /\ value[d] = w THEN 1 ELSE closes[w]
    BY <2>1, <2>2, <1>1
  <2> QED BY <2>3, <1>1
<1>4. ResourceInv'
  <2>1. \A p, q \in Owner : value'[p] # Nil /\ value'[p] = value'[q] => p = q
    BY <1>1, <1>2 DEF UnwindInv, ResourceInv
  <2>2. ASSUME NEW p \in Owner, value'[p] # Nil
        PROVE  value'[p] \in opened' /\ closes'[value'[p]] = 0
    <3>1. PICK q \in Owner : value'[p] = value[q] /\ (q = s \/ q # d)
      BY <2>2, <1>2
    <3>2. value[q] \in Value /\ value[q] \in opened /\ closes[value[q]] = 0
      BY <3>1, <2>2, <1>1 DEF UnwindInv, ResourceInv
    <3>3. ~ (s # d /\ value[d] = value[q])
      BY <3>1, <3>2, <1>1 DEF UnwindInv, ResourceInv
    <3> QED BY <3>1, <3>2, <3>3, <1>3
  <2>3. ASSUME NEW w \in Value, closes'[w] = 1 PROVE w \in opened'
    BY <2>3, <1>1, <1>3 DEF UnwindInv, ResourceInv
  <2>4. ASSUME NEW w \in opened'
        PROVE  closes'[w] = 1 \/ \E p \in Owner : value'[p] = w
    <3>1. w \in opened /\ w \in Value
      BY <1>1
    <3>2. closes[w] = 1 \/ \E p \in Owner : value[p] = w
      BY <3>1 DEF UnwindInv, ResourceInv
    <3>3. CASE closes[w] = 1
      BY <3>1, <3>3, <1>3
    <3>4. CASE \E p \in Owner : value[p] = w
      <4>1. PICK p \in Owner : value[p] = w
        BY <3>4
      <4>2. CASE p = s
        BY <4>1, <4>2, <1>2
      <4>3. CASE p = d /\ p # s
        BY <4>1, <4>3, <3>1, <1>3
      <4>4. CASE p # d /\ p # s
        BY <4>1, <4>4, <1>2
      <4> QED BY <4>2, <4>3, <4>4
    <3> QED BY <3>2, <3>3, <3>4
  <2> QED BY <2>1, <2>2, <2>3, <2>4 DEF ResourceInv
<1>5. \A p \in Owner : value'[p] # Nil => value[p] # Nil \/ HasHandle(p)
  BY <1>2
<1>6. opened' \in SUBSET Value
  BY <1>1
<1> QED BY <1>2, <1>3, <1>4, <1>5, <1>6, HandleKeeps

LEMMA HandleReleaseStep ==
  ASSUME UnwindInv, NEW o \in Owner, HandleRelease(o)
  PROVE  UnwindInv'
<1>1. /\ ResourceInv' /\ value' \in [Owner -> Value \cup {Nil}] /\ closes' \in [Value -> 0 .. 1]
      /\ \A p \in Owner : value'[p] \in {Nil, value[p]}
  BY ReleaseFacts DEF UnwindInv, HandleRelease
<1>2. opened' \in SUBSET Value
  BY DEF UnwindInv, TypeOK, HandleRelease
<1> QED BY <1>1, <1>2, HandleKeeps DEF HandleRelease
-----------------------------------------------------------------------------
(* Steps on a way out.                                                     *)

\* The control moves on with the bound no higher, and nothing else changes.
LEMMA TurnStep ==
  ASSUME UnwindInv, UNCHANGED <<frameState, armed, lists, slots, heap>>,
         TypeOK', PcInv', Bound' <= Bound,
         blockPc' = "leave" => depth \notin ToSet(defers)
  PROVE  UnwindInv'
<1>1. Bound \in Int /\ Bound' \in Int
  BY PasUnwindAssumption, BoundFacts DEF UnwindInv, TypeOK, PcInv, Bound, Frame
<1>2. FilesInv' /\ HandlesInv'
  BY <1>1, ListsStay DEF UnwindInv, lists
<1>3. DefersInv'
  <2>1. Slots' = Slots /\ Declaring("defer")' = Declaring("defer") /\ UNCHANGED <<defers, dmark>>
    BY DEF Slots, Declaring, frameState, lists
  <2>2. ListInv(defers, dmark, Slots, Declaring("defer"), Bound)
    BY DEF UnwindInv, DefersInv
  <2>3. ToSet(defers) \subseteq Slots /\ ToSet(defers) \cap Frame \subseteq Declaring("defer")
    BY <2>2 DEF ListInv, Listed
  <2>4. ListInv(defers, dmark, Slots, Declaring("defer"), Bound')
    BY <2>2, <2>3, <1>1, ListKept
  <2> QED BY <2>1, <2>4 DEF DefersInv, frameState, lists
<1>4. FileSlots' /\ HandleSlots' /\ DeferSlots' /\ ResourceInv'
  BY DEF UnwindInv, FileSlots, HandleSlots, DeferSlots, ResourceInv, frameState, lists, slots
<1> QED BY <1>2, <1>3, <1>4 DEF UnwindInv

LEMMA GotoStep == ASSUME UnwindInv, NEW t \in Frame, Goto(t) PROVE UnwindInv'
<1>1. TypeOK' /\ PcInv'
  BY DEF UnwindInv, TypeOK, PcInv, Goto, frameState, lists, slots
<1>2. Bound' <= Bound /\ blockPc' # "leave"
  BY DEF UnwindInv, TypeOK, Bound, Goto, frameState, Frame
<1> QED BY <1>1, <1>2, TurnStep DEF Goto

LEMMA HaltStep == ASSUME UnwindInv, Halt PROVE UnwindInv'
<1>1. TypeOK' /\ PcInv'
  BY DEF UnwindInv, TypeOK, PcInv, Halt, frameState, lists, slots
<1>2. Bound' <= Bound /\ blockPc' # "leave"
  BY BoundFacts DEF UnwindInv, Bound, Halt, frameState
<1> QED BY <1>1, <1>2, TurnStep DEF Halt

\* pas_defer_done, wherever it is called: the statement's entry is unlinked
\* before the statement runs, so that nothing armed is ever off the list.
LEMMA DeferDoneStep ==
  ASSUME UnwindInv, NEW f \in Frame, NEW go \in {"leave", "jump", "halt"}, DeferDone(f, go),
         UNCHANGED <<frameState, files, handles, fileUp, opened, heap, blockTarget>>,
         PcInv', Bound' <= Bound, f \notin 1 .. Bound',
         \A g \in 1 .. Bound' : dmark[g] # f,
         go = "leave" => f = depth
  PROVE  UnwindInv'
<1>1. f \in Owner /\ defers \in Seq(Frame) /\ IsInjective(defers) /\ armed \in [Frame -> BOOLEAN]
  BY FramesAreOwners, ListedIsLive DEF UnwindInv, TypeOK
<1>2. defers' = Unlinked(defers, f) /\ armed' = [armed EXCEPT ![f] = FALSE]
  BY DEF DeferDone
<1>3. blockPc' \in {go, "halt"}
  BY DEF DeferDone
<1>4. /\ ResourceInv' /\ value' \in [Owner -> Value \cup {Nil}] /\ closes' \in [Value -> 0 .. 1]
      /\ \A o \in Owner : value'[o] \in {Nil, value[o]}
  <2>1. CASE Released({f})
    BY <2>1, <1>1, ReleaseFacts DEF UnwindInv
  <2>2. CASE UNCHANGED <<value, closes>>
    BY <2>2 DEF UnwindInv, TypeOK, ResourceInv
  <2> QED BY <2>1, <2>2 DEF DeferDone
<1>5. defers' \in Seq(Frame) /\ ToSet(defers') = ToSet(defers) \ {f}
  BY <1>1, <1>2, UnlinkedFacts
<1>6. TypeOK'
  <2>1. armed' \in [Frame -> BOOLEAN]
    BY <1>1, <1>2
  <2> QED BY <2>1, <1>3, <1>4, <1>5 DEF UnwindInv, TypeOK, frameState
<1>7. Bound \in Int /\ Bound' \in Int
  BY <1>6, PasUnwindAssumption, BoundFacts DEF UnwindInv, TypeOK, PcInv, Bound, Frame
<1>8. TypeOK /\ FilesInv /\ HandlesInv /\ DefersInv /\ depth' = depth
  BY DEF UnwindInv, frameState
<1>9. FilesInv' /\ HandlesInv'
  BY <1>7, <1>8, ListsStay
<1>10. DefersInv'
  BY <1>2, <1>3, <1>7, <1>8, ListsUnlink
<1>11. FileSlots' /\ HandleSlots'
  BY <1>4, FramesAreOwners DEF UnwindInv, FileSlots, HandleSlots
<1>12. DeferSlots'
  <2>1. \A g \in Frame : armed'[g] => g # f /\ armed[g]
    BY <1>1, <1>2
  <2> QED BY <2>1, <1>5 DEF UnwindInv, DeferSlots, frameState
<1> QED BY <1>4, <1>6, <1>9, <1>10, <1>11, <1>12 DEF UnwindInv

LEMMA LeaveStep == ASSUME UnwindInv, Leave PROVE UnwindInv'
<1>1. depth \in Frame /\ depth \in Nat /\ blockPc = "run" /\ Bound = depth
  BY BoundFacts DEF UnwindInv, PcInv, Bound, Leave
<1>2. UNCHANGED <<frameState, files, handles, fileUp, opened, heap, blockTarget>> /\ depth' = depth
  BY DEF Leave, frameState
<1>3. CASE "defer" \in declares[depth]
  <2>1. DeferDone(depth, "leave")
    BY <1>3 DEF Leave
  <2>2. blockPc' \in {"leave", "halt"}
    BY <2>1 DEF DeferDone
  <2>3. PcInv'
    BY <1>1, <1>2, <2>2 DEF UnwindInv, PcInv
  <2>4. Bound' \in {0, depth - 1} /\ Bound' \in Int /\ Bound' <= Bound /\ depth > Bound'
    BY <1>1, <1>2, <2>2 DEF Bound, Frame
  <2>5. \A g \in 1 .. Bound' : dmark[g] # depth
    <3>1. ListInv(defers, dmark, Slots, Declaring("defer"), Bound) /\ Bound \in Int
      BY <1>1 DEF UnwindInv, DefersInv
    <3>2. ToSet(defers) \subseteq Slots /\ ToSet(defers) \cap Frame \subseteq Declaring("defer")
      BY <3>1 DEF ListInv, Listed
    <3>3. ListInv(defers, dmark, Slots, Declaring("defer"), Bound')
      BY <3>1, <3>2, <2>4, ListKept
    <3>4. defers \in Seq(Owner)
      BY FramesAreOwners DEF UnwindInv, TypeOK
    <3> QED BY <3>3, <3>4, <2>4, <1>1, MarksAreOld
  <2>6. depth \notin 1 .. Bound'
    BY <2>4, <1>1
  <2> QED BY <1>1, <1>2, <2>1, <2>3, <2>4, <2>5, <2>6, DeferDoneStep
<1>4. CASE "defer" \notin declares[depth]
  <2>1. blockPc' = "leave" /\ UNCHANGED <<armed, defers, value, closes>>
    BY <1>4 DEF Leave
  <2>2. TypeOK' /\ PcInv'
    BY <1>1, <1>2, <2>1 DEF UnwindInv, TypeOK, PcInv, frameState
  <2>3. Bound' <= Bound
    BY <1>1, <1>2, <2>1 DEF Bound
  <2>4. depth \notin ToSet(defers)
    BY <1>1, <1>4, ListedIsLive
  <2>5. UNCHANGED <<frameState, armed, lists, slots, heap>>
    BY <1>2, <2>1 DEF lists, slots
  <2> QED BY <2>2, <2>3, <2>4, <2>5, TurnStep
<1> QED BY <1>3, <1>4

LEMMA JumpDefersStep == ASSUME UnwindInv, JumpDefers PROVE UnwindInv'
<1>1. /\ blockPc = "jump" /\ blockTarget \in Frame /\ blockTarget < depth /\ depth \in Nat
      /\ Bound = blockTarget /\ blockTarget \in Int /\ Depth \in Nat
  BY PasUnwindAssumption, BoundFacts DEF UnwindInv, PcInv, Bound, JumpDefers, Frame
<1>2. /\ UNCHANGED <<frameState, files, handles, fileUp, opened, heap, blockTarget>>
      /\ depth' = depth /\ DeferDone(Head(defers), "jump")
      /\ HeadOf(defers) \notin {Nil, dmark[blockTarget]}
  BY DEF JumpDefers, frameState
<1>3. defers \in Seq(Owner) /\ defers \in Seq(Frame)
  BY FramesAreOwners DEF UnwindInv, TypeOK
<1>4. ListInv(defers, dmark, Slots, Declaring("defer"), blockTarget)
  BY <1>1 DEF UnwindInv, DefersInv
<1>5. /\ defers # <<>> /\ Head(defers) \notin 1 .. blockTarget
      /\ \A g \in 1 .. blockTarget : dmark[g] # Head(defers)
  BY <1>1, <1>2, <1>3, <1>4, WalkTakes
<1>6. Head(defers) \in Frame
  BY <1>3, <1>5
<1>7. blockPc' \in {"jump", "halt"}
  BY <1>2 DEF DeferDone
<1>8. PcInv'
  BY <1>1, <1>2, <1>7 DEF UnwindInv, PcInv
<1>9. Bound' \in {0, blockTarget} /\ Bound' <= Bound
  BY <1>1, <1>2, <1>7 DEF Bound, Frame
<1>10. Head(defers) \notin 1 .. Bound' /\ \A g \in 1 .. Bound' : dmark[g] # Head(defers)
  BY <1>1, <1>5, <1>9
<1> QED BY <1>2, <1>6, <1>8, <1>9, <1>10, DeferDoneStep

LEMMA HaltDefersStep == ASSUME UnwindInv, HaltDefers PROVE UnwindInv'
<1>1. /\ UNCHANGED <<frameState, files, handles, fileUp, opened, heap, blockTarget>>
      /\ blockPc = "halt" /\ defers # <<>> /\ DeferDone(Head(defers), "halt")
  BY DEF HaltDefers
<1>2. Head(defers) \in Frame
  BY <1>1 DEF UnwindInv, TypeOK
<1>3. blockPc' = "halt"
  BY <1>1 DEF DeferDone
<1>4. PcInv' /\ Bound' = 0 /\ Bound = 0
  BY <1>1, <1>3 DEF PcInv, Bound
<1> QED BY <1>1, <1>2, <1>4, DeferDoneStep

\* Every handle still held is released at halt, and every file closed.
LEMMA EmptyList ==
  ASSUME NEW marks, NEW S, NEW D
  PROVE  ListInv(<<>>, marks, S, D, 0) /\ ToSet(<<>>) = {}
<1>1. ToSet(<<>>) = {} /\ IsInjective(<<>>)
  BY DEF ToSet, IsInjective
<1>2. 1 .. 0 = {}
  OBVIOUS
<1>3. Listed(<<>>, S, D, 0)
  BY <1>1, <1>2 DEF Listed
<1>4. Nested(<<>>, marks, 0)
  BY <1>2 DEF Nested, MarksListed, MarksDivide, MarksOrdered
<1> QED BY <1>1, <1>3, <1>4 DEF ListInv

LEMMA HaltClosesStep == ASSUME UnwindInv, HaltCloses PROVE UnwindInv'
<1> USE DEF HaltCloses
<1>1. handles \in Seq(Owner) /\ files \in Seq(Owner) /\ defers \in Seq(Frame)
  BY DEF UnwindInv, TypeOK
<1>2. ToSet(handles) \in SUBSET Owner
  BY <1>1 DEF ToSet
<1>3. /\ ResourceInv' /\ value' \in [Owner -> Value \cup {Nil}] /\ closes' \in [Value -> 0 .. 1]
      /\ \A o \in Owner : value'[o] = IF o \in ToSet(handles) THEN Nil ELSE value[o]
  BY <1>2, ReleaseFacts DEF UnwindInv
<1>4. TypeOK'
  <2>1. <<>> \in Seq(Owner) /\ <<>> \in Seq(Frame)
    OBVIOUS
  <2>2. fileUp' \in [Owner -> BOOLEAN]
    OBVIOUS
  <2> QED BY <2>1, <2>2, <1>3 DEF UnwindInv, TypeOK, frameState
<1>5. Bound' = 0 /\ ToSet(files') = {} /\ ToSet(handles') = {} /\ ToSet(defers) = {}
  BY EmptyList DEF Bound
<1>6. FilesInv' /\ HandlesInv' /\ DefersInv'
  <2>1. files' = <<>> /\ handles' = <<>> /\ defers' = <<>> /\ blockPc' # "leave"
    OBVIOUS
  <2> QED BY <2>1, <1>5, EmptyList DEF FilesInv, HandlesInv, DefersInv
<1>7. PcInv'
  BY <1>5 DEF PcInv
<1>8. FileSlots'
  BY <1>5 DEF UnwindInv, FileSlots
<1>9. HandleSlots'
  BY <1>3, FramesAreOwners DEF UnwindInv, HandleSlots
<1>10. DeferSlots'
  BY <1>5 DEF UnwindInv, DeferSlots
<1> QED BY <1>3, <1>4, <1>6, <1>7, <1>8, <1>9, <1>10 DEF UnwindInv

LEMMA JumpFilesStep == ASSUME UnwindInv, JumpFiles PROVE UnwindInv'
<1> USE DEF JumpFiles, DefersWalked, FileDone
<1>1. /\ blockPc = "jump" /\ blockTarget \in Frame /\ Bound = blockTarget /\ Bound \in Int
      /\ Bound' = Bound /\ 1 .. blockTarget \subseteq Frame
  BY PasUnwindAssumption, BoundFacts DEF UnwindInv, PcInv, Bound, frameState, Frame
<1>2. ListInv(files, mark, Slots, Declaring("file"), blockTarget) /\ files \in Seq(Owner)
  BY <1>1 DEF UnwindInv, FilesInv, TypeOK
<1> DEFINE o == Head(files)
<1>3. /\ o \in Owner /\ o \notin 1 .. blockTarget
      /\ \A g \in 1 .. blockTarget : mark[g] # o
  BY <1>1, <1>2, WalkTakes
<1>4. files' \in Seq(Owner) /\ ToSet(files') = ToSet(files) \ {o}
  BY <1>2, ListedIsLive, UnlinkedFacts
<1>5. fileUp' \in [Owner -> BOOLEAN] /\ \A p \in Owner : fileUp'[p] = (p # o /\ fileUp[p])
  BY <1>3 DEF UnwindInv, TypeOK
<1> HIDE DEF o
<1>6. TypeOK' /\ PcInv'
  BY <1>4, <1>5 DEF UnwindInv, TypeOK, PcInv, frameState
<1>7. FilesInv' /\ HandlesInv' /\ DefersInv'
  <2>1. /\ TypeOK /\ FilesInv /\ HandlesInv /\ DefersInv /\ UNCHANGED <<frameState, heap>>
        /\ blockPc' # "leave" /\ files' = Unlinked(files, o)
    BY <1>1 DEF UnwindInv, o
  <2>2. HandlesInv' /\ DefersInv'
    BY <2>1, <1>1, ListsStay
  <2>3. FilesInv'
    BY <2>1, <1>1, <1>3, ListsUnlink
  <2> QED BY <2>2, <2>3
<1>8. FileSlots'
  BY <1>4, <1>5 DEF UnwindInv, FileSlots
<1>9. HandleSlots' /\ ResourceInv'
  BY DEF UnwindInv, HandleSlots, ResourceInv
<1>10. DeferSlots'
  \* The armed statements that are left are of blocks the jump does not abandon.
  <2>1. defers \in Seq(Owner)
    BY FramesAreOwners DEF UnwindInv, TypeOK
  <2>2. ListInv(defers, dmark, Slots, Declaring("defer"), blockTarget)
    BY <1>1 DEF UnwindInv, DefersInv
  <2>3. \A g \in Frame : g \in ToSet(defers) => g <= blockTarget
    BY <2>1, <2>2, <1>1, WalkEnds
  <2>4. ASSUME NEW g \in Frame, armed[g] PROVE g # o
    <3>1. g \in 1 .. blockTarget
      BY <2>3, <2>4 DEF UnwindInv, DeferSlots, Frame
    <3> QED BY <3>1, <1>3
  <2> QED BY <2>4, <1>4 DEF UnwindInv, DeferSlots, frameState
<1> QED BY <1>6, <1>7, <1>8, <1>9, <1>10 DEF UnwindInv

LEMMA JumpHandlesStep == ASSUME UnwindInv, JumpHandles PROVE UnwindInv'
<1> USE DEF JumpHandles, DefersWalked, HandleDone
<1>1. /\ blockPc = "jump" /\ blockTarget \in Frame /\ Bound = blockTarget /\ Bound \in Int
      /\ Bound' = Bound
  BY PasUnwindAssumption, BoundFacts DEF UnwindInv, PcInv, Bound, frameState
<1>2. ListInv(handles, hmark, Slots, Declaring("handle"), blockTarget) /\ handles \in Seq(Owner)
  BY <1>1 DEF UnwindInv, HandlesInv, TypeOK
<1> DEFINE o == Head(handles)
<1>3. /\ o \in Owner /\ o \notin 1 .. blockTarget
      /\ \A g \in 1 .. blockTarget : hmark[g] # o
  BY <1>1, <1>2, WalkTakes
<1>4. handles' \in Seq(Owner) /\ ToSet(handles') = ToSet(handles) \ {o}
  BY <1>2, ListedIsLive, UnlinkedFacts
<1>5. Released({o})
  OBVIOUS
<1> HIDE DEF o
<1>6. /\ ResourceInv' /\ value' \in [Owner -> Value \cup {Nil}] /\ closes' \in [Value -> 0 .. 1]
      /\ \A p \in Owner : value'[p] = IF p \in {o} THEN Nil ELSE value[p]
  BY <1>3, <1>5, ReleaseFacts DEF UnwindInv
<1>7. TypeOK' /\ PcInv'
  BY <1>4, <1>6 DEF UnwindInv, TypeOK, PcInv, frameState
<1>8. FilesInv' /\ HandlesInv' /\ DefersInv'
  <2>1. /\ TypeOK /\ FilesInv /\ HandlesInv /\ DefersInv /\ UNCHANGED <<frameState, heap>>
        /\ blockPc' # "leave" /\ handles' = Unlinked(handles, o)
    BY <1>1 DEF UnwindInv, o
  <2>2. FilesInv' /\ DefersInv'
    BY <2>1, <1>1, ListsStay
  <2>3. HandlesInv'
    BY <2>1, <1>1, <1>3, ListsUnlink
  <2> QED BY <2>2, <2>3
<1>9. FileSlots' /\ DeferSlots'
  BY DEF UnwindInv, FileSlots, DeferSlots, frameState
<1>10. HandleSlots'
  BY <1>4, <1>6, FramesAreOwners DEF UnwindInv, HandleSlots
<1> QED BY <1>6, <1>7, <1>8, <1>9, <1>10 DEF UnwindInv

\* The frames beyond e are given up, when no list holds one any more.
LEMMA ListCuts ==
  ASSUME NEW list, NEW marks, NEW H, NEW d \in Int, NEW D, NEW e \in Int, e <= d, H \subseteq Cell,
         d <= Depth, ListInv(list, marks, H \cup (1 .. d), D, e),
         \A g \in Frame : g \in ToSet(list) => g <= e,
         NEW marks2, \A f \in Frame : f <= e => marks2[f] = marks[f],
         NEW D2, \A f \in Frame : f \in D2 <=> f \in D /\ f <= e, D2 \subseteq Frame
  PROVE  ListInv(list, marks2, H \cup (1 .. e), D2, e)
<1>1. \A f \in 1 .. e : f \in Frame /\ f <= e
  BY PasUnwindAssumption DEF Frame
<1>2. \A f \in 1 .. d : f \in Frame
  BY PasUnwindAssumption DEF Frame
<1>3. ToSet(list) \subseteq H \cup (1 .. e)
  <2>1. \A o \in ToSet(list) : o \in H \/ o \in 1 .. d
    BY DEF ListInv, Listed
  <2> QED BY <2>1, <1>2
<1>4. ToSet(list) \cap Frame \subseteq D2
  BY DEF ListInv, Listed
<1>5. D2 \cap (1 .. e) \subseteq D
  OBVIOUS
<1>6. \A f \in 1 .. e : marks2[f] = marks[f]
  BY <1>1
<1> QED BY <1>3, <1>4, <1>5, <1>6, ListKept

\* What CutTo says of what the lists are measured against.
LEMMA CutFacts ==
  ASSUME TypeOK, NEW d \in 0 .. Depth, d <= depth, CutTo(d)
  PROVE  /\ depth' = d /\ declares' \in [Frame -> SUBSET Part]
         /\ mark' \in [Frame -> Owner \cup {Nil}] /\ hmark' \in [Frame -> Owner \cup {Nil}]
         /\ dmark' \in [Frame -> Frame \cup {Nil}] /\ active' \in [Frame -> BOOLEAN]
         /\ \A f \in Frame : f <= d =>
              mark'[f] = mark[f] /\ hmark'[f] = hmark[f] /\ dmark'[f] = dmark[f]
         /\ \A f \in Frame, p \in Part : p \in declares'[f] <=> p \in declares[f] /\ f <= d
         /\ \A p \in Part : /\ \A f \in Frame : f \in Declaring(p)' <=> f \in Declaring(p) /\ f <= d
                            /\ Declaring(p)' \subseteq Frame
<1> USE DEF CutTo
<1>1. depth' = d /\ declares' \in [Frame -> SUBSET Part] /\ active' \in [Frame -> BOOLEAN]
  BY DEF TypeOK
<1>2. /\ mark' \in [Frame -> Owner \cup {Nil}] /\ hmark' \in [Frame -> Owner \cup {Nil}]
      /\ dmark' \in [Frame -> Frame \cup {Nil}]
  BY DEF TypeOK
<1>3. \A f \in Frame : f <= d =>
        mark'[f] = mark[f] /\ hmark'[f] = hmark[f] /\ dmark'[f] = dmark[f]
  OBVIOUS
<1>4. \A f \in Frame, p \in Part : p \in declares'[f] <=> p \in declares[f] /\ f <= d
  OBVIOUS
<1>5. \A p \in Part : /\ \A f \in Frame : f \in Declaring(p)' <=> f \in Declaring(p) /\ f <= d
                      /\ Declaring(p)' \subseteq Frame
  BY <1>4 DEF Declaring
<1> QED BY <1>1, <1>2, <1>3, <1>4, <1>5

LEMMA LongJmpStep == ASSUME UnwindInv, LongJmp PROVE UnwindInv'
<1> DEFINE t == blockTarget
<1>1. /\ blockPc = "jump" /\ t \in Frame /\ Bound = t /\ t < depth /\ depth \in Int
      /\ t \in 0 .. Depth /\ depth <= Depth /\ heap \subseteq Cell
  BY PasUnwindAssumption, BoundFacts
     DEF UnwindInv, TypeOK, PcInv, Bound, LongJmp, DefersWalked, Frame
<1>2. /\ TypeOK /\ CutTo(t) /\ blockPc' = "run" /\ blockTarget' = Nil
      /\ UNCHANGED <<armed, lists, slots, heap>>
  BY DEF UnwindInv, LongJmp
<1>3. /\ depth' = t /\ declares' \in [Frame -> SUBSET Part]
      /\ mark' \in [Frame -> Owner \cup {Nil}] /\ hmark' \in [Frame -> Owner \cup {Nil}]
      /\ dmark' \in [Frame -> Frame \cup {Nil}] /\ active' \in [Frame -> BOOLEAN]
      /\ \A f \in Frame : f <= t =>
           mark'[f] = mark[f] /\ hmark'[f] = hmark[f] /\ dmark'[f] = dmark[f]
      /\ \A f \in Frame, p \in Part : p \in declares'[f] <=> p \in declares[f] /\ f <= t
      /\ \A p \in Part : /\ \A f \in Frame : f \in Declaring(p)' <=> f \in Declaring(p) /\ f <= t
                         /\ Declaring(p)' \subseteq Frame
  BY <1>1, <1>2, CutFacts
<1>4. Bound' = t /\ Slots = heap \cup (1 .. depth) /\ Slots' = heap \cup (1 .. t)
  BY <1>2, <1>3 DEF Bound, Slots
<1>5. files \in Seq(Owner) /\ handles \in Seq(Owner) /\ defers \in Seq(Owner)
  BY FramesAreOwners DEF UnwindInv, TypeOK
<1>6. /\ ListInv(files, mark, Slots, Declaring("file"), t)
      /\ ListInv(handles, hmark, Slots, Declaring("handle"), t)
      /\ ListInv(defers, dmark, Slots, Declaring("defer"), t)
  BY <1>1 DEF UnwindInv, FilesInv, HandlesInv, DefersInv
<1>7. /\ HeadOf(files) \in {Nil, mark[t]} /\ HeadOf(handles) \in {Nil, hmark[t]}
      /\ HeadOf(defers) \in {Nil, dmark[t]}
  BY DEF LongJmp, DefersWalked
<1> HIDE DEF t
<1>8. /\ \A g \in Frame : g \in ToSet(files) => g <= t
      /\ \A g \in Frame : g \in ToSet(handles) => g <= t
      /\ \A g \in Frame : g \in ToSet(defers) => g <= t
  BY <1>1, <1>5, <1>6, <1>7, WalkEnds
<1>9. FilesInv'
  <2>1. /\ \A f \in Frame : f <= t => mark'[f] = mark[f]
        /\ \A f \in Frame : f \in Declaring("file")' <=> f \in Declaring("file") /\ f <= t
        /\ Declaring("file")' \subseteq Frame
    BY <1>3 DEF Part
  <2>2. /\ ListInv(files, mark, heap \cup (1 .. depth), Declaring("file"), t)
        /\ \A g \in Frame : g \in ToSet(files) => g <= t
    BY <1>4, <1>6, <1>8
  <2>3. t \in Int /\ t <= depth
    BY <1>1
  <2>4. ListInv(files, mark', heap \cup (1 .. t), Declaring("file")', t)
    BY <2>1, <2>2, <2>3, <1>1, ListCuts
  <2> QED BY <2>4, <1>2, <1>4 DEF FilesInv, lists
<1>10. HandlesInv'
  <2>1. /\ \A f \in Frame : f <= t => hmark'[f] = hmark[f]
        /\ \A f \in Frame : f \in Declaring("handle")' <=> f \in Declaring("handle") /\ f <= t
        /\ Declaring("handle")' \subseteq Frame
    BY <1>3 DEF Part
  <2>2. /\ ListInv(handles, hmark, heap \cup (1 .. depth), Declaring("handle"), t)
        /\ \A g \in Frame : g \in ToSet(handles) => g <= t
    BY <1>4, <1>6, <1>8
  <2>3. t \in Int /\ t <= depth
    BY <1>1
  <2>4. ListInv(handles, hmark', heap \cup (1 .. t), Declaring("handle")', t)
    BY <2>1, <2>2, <2>3, <1>1, ListCuts
  <2> QED BY <2>4, <1>2, <1>4 DEF HandlesInv, lists
<1>11. DefersInv'
  <2>1. /\ \A f \in Frame : f <= t => dmark'[f] = dmark[f]
        /\ \A f \in Frame : f \in Declaring("defer")' <=> f \in Declaring("defer") /\ f <= t
        /\ Declaring("defer")' \subseteq Frame
    BY <1>3 DEF Part
  <2>2. /\ ListInv(defers, dmark, heap \cup (1 .. depth), Declaring("defer"), t)
        /\ \A g \in Frame : g \in ToSet(defers) => g <= t
    BY <1>4, <1>6, <1>8
  <2>3. t \in Int /\ t <= depth
    BY <1>1
  <2>4. ListInv(defers, dmark', heap \cup (1 .. t), Declaring("defer")', t)
    BY <2>1, <2>2, <2>3, <1>1, ListCuts
  <2> QED BY <2>4, <1>2, <1>4 DEF DefersInv, lists
<1>12. TypeOK' /\ PcInv'
  BY <1>1, <1>2, <1>3 DEF TypeOK, PcInv, lists, slots
<1>13. FileSlots' /\ HandleSlots' /\ ResourceInv'
  BY <1>2 DEF UnwindInv, FileSlots, HandleSlots, ResourceInv, lists, slots
<1>14. DeferSlots'
  BY <1>2, <1>3 DEF UnwindInv, DeferSlots, lists, Part
<1> QED BY <1>9, <1>10, <1>11, <1>12, <1>13, <1>14 DEF UnwindInv
\* The epilogue takes a block's slot from the list, when the block has one.
LEMMA ListLeft ==
  ASSUME NEW list \in Seq(Owner), NEW marks, NEW S, NEW D, NEW d \in Frame,
         ListInv(list, marks, S, D, d - 1),
         NEW list2, list2 = Unlinked(list, d) \/ (list2 = list /\ d \notin ToSet(list))
  PROVE  /\ list2 \in Seq(Owner) /\ ToSet(list2) = ToSet(list) \ {d}
         /\ ListInv(list2, marks, S, D, d - 1)
<1>1. d \in Nat /\ d - 1 \in Int /\ d > d - 1 /\ d \notin 1 .. d - 1 /\ IsInjective(list)
  BY PasUnwindAssumption DEF Frame, ListInv, Listed
<1>2. CASE list2 = Unlinked(list, d)
  <2>1. \A f \in 1 .. d - 1 : marks[f] # d
    BY <1>1, MarksAreOld
  <2>2. ListInv(list2, marks, S, D, d - 1)
    BY <2>1, <1>1, <1>2, ListUnlinks
  <2>3. list2 \in Seq(Owner) /\ ToSet(list2) = ToSet(list) \ {d}
    BY <1>1, <1>2, UnlinkedFacts
  <2> QED BY <2>2, <2>3
<1>3. CASE list2 = list /\ d \notin ToSet(list)
  BY <1>3
<1> QED BY <1>2, <1>3

LEMMA LeftStep == ASSUME UnwindInv, Left PROVE UnwindInv'
<1> DEFINE e == depth - 1
<1>1. /\ blockPc = "leave" /\ depth \in Frame /\ depth \in Owner /\ depth \notin Cell
      /\ depth \in Int /\ Bound = e /\ e \in 0 .. Depth /\ e \in Int
      /\ e <= depth /\ depth <= Depth /\ heap \subseteq Cell /\ Depth \in Nat
  <2>1. blockPc = "leave" /\ depth \in Frame /\ heap \subseteq Cell /\ Depth \in Nat
    BY PasUnwindAssumption DEF UnwindInv, TypeOK, PcInv, Left
  <2>2. Bound = e
    BY <2>1 DEF Bound
  <2>3. depth \in Owner /\ depth \notin Cell
    BY <2>1, PasUnwindAssumption, FramesAreOwners
  <2>4. /\ depth \in Int /\ e \in 0 .. Depth /\ e \in Int /\ e <= depth /\ depth <= Depth
    BY <2>1 DEF Frame
  <2> QED BY <2>1, <2>2, <2>3, <2>4
<1>2. /\ CutTo(e) /\ blockPc' = (IF depth = 1 THEN "ended" ELSE "run")
      /\ UNCHANGED <<armed, defers, opened, heap, blockTarget>>
      /\ TypeOK
  BY DEF UnwindInv, Left
<1>3. /\ depth' = e /\ declares' \in [Frame -> SUBSET Part]
      /\ mark' \in [Frame -> Owner \cup {Nil}] /\ hmark' \in [Frame -> Owner \cup {Nil}]
      /\ dmark' \in [Frame -> Frame \cup {Nil}] /\ active' \in [Frame -> BOOLEAN]
      /\ \A f \in Frame : f <= e =>
           mark'[f] = mark[f] /\ hmark'[f] = hmark[f] /\ dmark'[f] = dmark[f]
      /\ \A f \in Frame, p \in Part : p \in declares'[f] <=> p \in declares[f] /\ f <= e
      /\ \A p \in Part : /\ \A f \in Frame : f \in Declaring(p)' <=> f \in Declaring(p) /\ f <= e
                         /\ Declaring(p)' \subseteq Frame
  BY <1>1, <1>2, CutFacts
<1>4. Bound' = e /\ Slots = heap \cup (1 .. depth) /\ Slots' = heap \cup (1 .. e)
  BY <1>1, <1>2, <1>3 DEF Bound, Slots
<1>5. files \in Seq(Owner) /\ handles \in Seq(Owner) /\ defers \in Seq(Owner)
  BY FramesAreOwners DEF UnwindInv, TypeOK
<1>6. /\ ListInv(files, mark, Slots, Declaring("file"), depth - 1)
      /\ ListInv(handles, hmark, Slots, Declaring("handle"), depth - 1)
      /\ ListInv(defers, dmark, Slots, Declaring("defer"), depth - 1)
      /\ depth \notin ToSet(defers)
  BY <1>1 DEF UnwindInv, FilesInv, HandlesInv, DefersInv
<1>7. /\ files' = Unlinked(files, depth) \/ (files' = files /\ depth \notin ToSet(files))
      /\ handles' = Unlinked(handles, depth) \/ (handles' = handles /\ depth \notin ToSet(handles))
  BY <1>1, ListedIsLive DEF Left, FileDone, HandleDone
<1>8. /\ files' \in Seq(Owner) /\ ToSet(files') = ToSet(files) \ {depth}
      /\ ListInv(files', mark, Slots, Declaring("file"), e)
  BY <1>1, <1>5, <1>6, <1>7, ListLeft
<1>9. /\ handles' \in Seq(Owner) /\ ToSet(handles') = ToSet(handles) \ {depth}
      /\ ListInv(handles', hmark, Slots, Declaring("handle"), e)
  BY <1>1, <1>5, <1>6, <1>7, ListLeft
<1>10. /\ \A g \in Frame : g \in ToSet(files') => g <= e
       /\ \A g \in Frame : g \in ToSet(handles') => g <= e
       /\ \A g \in Frame : g \in ToSet(defers) => g <= e
  <2>1. \A g \in Frame : g <= depth /\ g # depth => g <= e
    BY <1>1 DEF Frame
  <2> QED BY <2>1, <1>6, <1>8, <1>9, ListedIsLive
<1>11. /\ fileUp' \in [Owner -> BOOLEAN]
       /\ \A o \in Owner : fileUp'[o] <=> fileUp[o] /\ o # depth
  <2>1. fileUp \in [Owner -> BOOLEAN] /\ (fileUp[depth] <=> depth \in ToSet(files))
    BY <1>1 DEF UnwindInv, TypeOK, FileSlots
  <2>2. CASE "file" \in declares[depth]
    BY <2>1, <2>2, <1>1 DEF Left, FileDone
  <2>3. CASE "file" \notin declares[depth]
    <3>1. fileUp' = fileUp
      BY <2>3 DEF Left
    <3>2. ~ fileUp[depth]
      BY <2>1, <2>3, <1>1, ListedIsLive
    <3> QED BY <3>1, <3>2, <2>1
  <2> QED BY <2>2, <2>3
<1>12. /\ ResourceInv' /\ value' \in [Owner -> Value \cup {Nil}] /\ closes' \in [Value -> 0 .. 1]
       /\ \A o \in Owner : value'[o] = IF o = depth THEN Nil ELSE value[o]
  <2>1. CASE "handle" \in declares[depth]
    <3>1. Released({depth}) /\ UNCHANGED opened
      BY <2>1 DEF Left, HandleDone
    <3>2. \A o : o \in {depth} <=> o = depth
      OBVIOUS
    <3> QED BY <3>1, <3>2, <1>1, ReleaseFacts DEF UnwindInv
  <2>2. CASE "handle" \notin declares[depth]
    <3>1. UNCHANGED <<value, closes, opened>>
      BY <2>2 DEF Left
    <3>2. value[depth] = Nil
      BY <2>2, <1>1, ListedIsLive DEF UnwindInv, HandleSlots
    <3> QED BY <3>1, <3>2 DEF UnwindInv, ResourceInv, TypeOK
  <2> QED BY <2>1, <2>2
<1> HIDE DEF e
<1>13. FilesInv'
  <2>1. /\ \A f \in Frame : f <= e => mark'[f] = mark[f]
        /\ \A f \in Frame : f \in Declaring("file")' <=> f \in Declaring("file") /\ f <= e
        /\ Declaring("file")' \subseteq Frame
    BY <1>3 DEF Part
  <2>2. /\ ListInv(files', mark, heap \cup (1 .. depth), Declaring("file"), e)
        /\ \A g \in Frame : g \in ToSet(files') => g <= e
    BY <1>4, <1>8, <1>10
  <2>3. ListInv(files', mark', heap \cup (1 .. e), Declaring("file")', e)
    BY <2>1, <2>2, <1>1, ListCuts
  <2> QED BY <2>3, <1>4 DEF FilesInv
<1>14. HandlesInv'
  <2>1. /\ \A f \in Frame : f <= e => hmark'[f] = hmark[f]
        /\ \A f \in Frame : f \in Declaring("handle")' <=> f \in Declaring("handle") /\ f <= e
        /\ Declaring("handle")' \subseteq Frame
    BY <1>3 DEF Part
  <2>2. /\ ListInv(handles', hmark, heap \cup (1 .. depth), Declaring("handle"), e)
        /\ \A g \in Frame : g \in ToSet(handles') => g <= e
    BY <1>4, <1>9, <1>10
  <2>3. ListInv(handles', hmark', heap \cup (1 .. e), Declaring("handle")', e)
    BY <2>1, <2>2, <1>1, ListCuts
  <2> QED BY <2>3, <1>4 DEF HandlesInv
<1>15. DefersInv'
  <2>1. /\ \A f \in Frame : f <= e => dmark'[f] = dmark[f]
        /\ \A f \in Frame : f \in Declaring("defer")' <=> f \in Declaring("defer") /\ f <= e
        /\ Declaring("defer")' \subseteq Frame
    BY <1>3 DEF Part
  <2>2. /\ ListInv(defers, dmark, heap \cup (1 .. depth), Declaring("defer"), e)
        /\ \A g \in Frame : g \in ToSet(defers) => g <= e
    BY <1>4, <1>6, <1>10 DEF e
  <2>3. ListInv(defers, dmark', heap \cup (1 .. e), Declaring("defer")', e)
    BY <2>1, <2>2, <1>1, ListCuts
  <2> QED BY <2>3, <1>2, <1>4 DEF DefersInv
<1>16. TypeOK'
  BY <1>1, <1>2, <1>3, <1>8, <1>9, <1>11, <1>12 DEF TypeOK
<1>17. PcInv'
  <2>1. blockPc' = "run" => e \in Frame
    BY <1>1, <1>2 DEF Frame, e
  <2>2. blockPc' = "ended" => \A f \in Frame : f \notin ToSet(handles')
    BY <1>1, <1>2, <1>10 DEF Frame, e
  <2> QED BY <2>1, <2>2, <1>2, <1>3 DEF PcInv
<1>18. FileSlots'
  BY <1>8, <1>11 DEF UnwindInv, FileSlots
<1>19. HandleSlots'
  BY <1>1, <1>2, <1>9, <1>12, FramesAreOwners DEF UnwindInv, HandleSlots
<1>20. DeferSlots'
  <2>1. \A f \in Frame : armed[f] => f # depth
    BY <1>6 DEF UnwindInv, DeferSlots
  <2> QED BY <2>1, <1>2, <1>3, <1>8 DEF UnwindInv, DeferSlots, Part
<1> QED
  BY <1>12, <1>13, <1>14, <1>15, <1>16, <1>17, <1>18, <1>19, <1>20 DEF UnwindInv

-----------------------------------------------------------------------------
(* Blocks and heap variables that come and go.                             *)

\* A list onto which a block's slot is pushed, or is not.
LEMMA PushTyped ==
  ASSUME NEW S, NEW list \in Seq(S), NEW x \in S, x \notin ToSet(list), IsInjective(list),
         NEW P, NEW part
  PROVE  /\ Push(part \in P, x, list) \in Seq(S)
         /\ \A o : o \in ToSet(Push(part \in P, x, list)) <=>
                   o \in ToSet(list) \/ (o = x /\ part \in P)
<1>1. CASE part \in P
  BY <1>1, PushFacts DEF Push
<1>2. CASE part \notin P
  BY <1>2 DEF Push
<1> QED BY <1>1, <1>2

LEMMA HeadTyped ==
  ASSUME NEW S, NEW list \in Seq(S)
  PROVE  HeadOf(list) \in S \cup {Nil}
<1>1. CASE list = <<>>
  BY <1>1 DEF HeadOf
<1>2. CASE list # <<>>
  BY <1>2, HeadFacts
<1> QED BY <1>1, <1>2

LEMMA EnterStep == ASSUME UnwindInv, NEW P \in SUBSET Part, Enter(P) PROVE UnwindInv'
<1> DEFINE f == depth + 1
<1>1. /\ blockPc = "run" /\ depth \in Nat /\ depth < Depth /\ f \in Frame /\ f \in Owner
      /\ f \notin Cell /\ Bound = depth /\ f \in 0 .. Depth /\ Depth \in Nat
      /\ heap \subseteq Cell /\ Cell \cap Frame = {}
  <2>1. /\ blockPc = "run" /\ depth \in Nat /\ depth < Depth /\ Depth \in Nat
        /\ heap \subseteq Cell /\ Cell \cap Frame = {}
    BY PasUnwindAssumption, BoundFacts DEF UnwindInv, TypeOK, Enter
  <2>2. Bound = depth
    BY <2>1 DEF Bound
  <2>3. f \in Frame /\ f \in 0 .. Depth
    BY <2>1 DEF Frame
  <2>4. f \in Owner /\ f \notin Cell
    BY <2>1, <2>3, FramesAreOwners
  <2> QED BY <2>1, <2>2, <2>3, <2>4
<1>2. /\ depth' = f /\ declares' = [declares EXCEPT ![f] = P]
      /\ files' = Push("file" \in P, f, files)
      /\ handles' = Push("handle" \in P, f, handles)
      /\ defers' = Push("defer" \in P, f, defers)
      /\ fileUp' = [fileUp EXCEPT ![f] = "file" \in P]
      /\ value' = [value EXCEPT ![f] = Nil]
      /\ mark' = [mark EXCEPT ![f] = HeadOf(files')]
      /\ hmark' = [hmark EXCEPT ![f] = HeadOf(handles')]
      /\ dmark' = [dmark EXCEPT ![f] = HeadOf(defers')]
      /\ active' = [active EXCEPT ![f] = TRUE]
      /\ UNCHANGED <<armed, opened, closes, heap, blockPc, blockTarget>>
  BY DEF Enter
<1>3. /\ files \in Seq(Owner) /\ handles \in Seq(Owner)
      /\ defers \in Seq(Frame) /\ defers \in Seq(Owner)
      /\ IsInjective(files) /\ IsInjective(handles) /\ IsInjective(defers)
      /\ mark \in [Frame -> Owner \cup {Nil}] /\ hmark \in [Frame -> Owner \cup {Nil}]
      /\ dmark \in [Frame -> Frame \cup {Nil}] /\ dmark \in [Frame -> Owner \cup {Nil}]
  BY FramesAreOwners, ListedIsLive DEF UnwindInv, TypeOK
<1>4. f \notin ToSet(files) /\ f \notin ToSet(handles) /\ f \notin ToSet(defers)
  BY <1>1, ListedIsLive
<1>5. value[f] = Nil /\ ~ fileUp[f] /\ ~ armed[f]
  BY <1>1, <1>4 DEF UnwindInv, FileSlots, HandleSlots, DeferSlots
<1>6. value' = value
  BY <1>1, <1>2, <1>5 DEF UnwindInv, TypeOK
<1>7. Bound' = depth + 1 /\ Slots' = Slots \cup {depth + 1} /\ Slots \cap Frame \subseteq 1 .. depth
  <2>1. 1 .. depth + 1 = (1 .. depth) \cup {depth + 1}
    BY <1>1
  <2> QED BY <2>1, <1>1, <1>2 DEF Bound, Slots
<1>8. \A p \in Part : /\ Declaring(p)' \cap (1 .. depth) = Declaring(p) \cap (1 .. depth)
                      /\ depth + 1 \in Declaring(p)' <=> p \in P
  <2>1. \A g \in Frame : declares'[g] = IF g = f THEN P ELSE declares[g]
    BY <1>1, <1>2 DEF UnwindInv, TypeOK
  <2>2. \A g \in 1 .. depth : g \in Frame /\ g # f
    BY <1>1 DEF Frame
  <2> QED BY <2>1, <2>2, <1>1 DEF Declaring
<1>9. /\ files' \in Seq(Owner)
      /\ \A o : o \in ToSet(files') <=> o \in ToSet(files) \/ (o = f /\ "file" \in P)
  <2> HIDE DEF f
  <2>1. /\ Push("file" \in P, f, files) \in Seq(Owner)
        /\ \A o : o \in ToSet(Push("file" \in P, f, files)) <=>
                  o \in ToSet(files) \/ (o = f /\ "file" \in P)
    BY <1>1, <1>3, <1>4, PushTyped
  <2> QED BY <2>1, <1>2
<1>10. /\ handles' \in Seq(Owner)
       /\ \A o : o \in ToSet(handles') <=> o \in ToSet(handles) \/ (o = f /\ "handle" \in P)
  <2> HIDE DEF f
  <2>1. /\ Push("handle" \in P, f, handles) \in Seq(Owner)
        /\ \A o : o \in ToSet(Push("handle" \in P, f, handles)) <=>
                  o \in ToSet(handles) \/ (o = f /\ "handle" \in P)
    BY <1>1, <1>3, <1>4, PushTyped
  <2> QED BY <2>1, <1>2
<1>11. /\ defers' \in Seq(Frame)
       /\ \A o : o \in ToSet(defers') <=> o \in ToSet(defers) \/ (o = f /\ "defer" \in P)
  <2> HIDE DEF f
  <2>1. /\ Push("defer" \in P, f, defers) \in Seq(Frame)
        /\ \A o : o \in ToSet(Push("defer" \in P, f, defers)) <=>
                  o \in ToSet(defers) \/ (o = f /\ "defer" \in P)
    BY <1>1, <1>3, <1>4, PushTyped
  <2> QED BY <2>1, <1>2
<1>12. FilesInv'
  <2>1. ListInv(files, mark, Slots, Declaring("file"), depth)
    BY <1>1 DEF UnwindInv, FilesInv
  <2>2. /\ Declaring("file")' \cap (1 .. depth) = Declaring("file") \cap (1 .. depth)
        /\ depth + 1 \in Declaring("file")' <=> "file" \in P
    BY <1>8 DEF Part
  <2>3. ListInv(files', mark', Slots \cup {depth + 1}, Declaring("file")', depth + 1)
    BY <2>1, <2>2, <1>1, <1>2, <1>3, <1>7, ListEnters
  <2> QED BY <2>3, <1>7 DEF FilesInv
<1>13. HandlesInv'
  <2>1. ListInv(handles, hmark, Slots, Declaring("handle"), depth)
    BY <1>1 DEF UnwindInv, HandlesInv
  <2>2. /\ Declaring("handle")' \cap (1 .. depth) = Declaring("handle") \cap (1 .. depth)
        /\ depth + 1 \in Declaring("handle")' <=> "handle" \in P
    BY <1>8 DEF Part
  <2>3. ListInv(handles', hmark', Slots \cup {depth + 1}, Declaring("handle")', depth + 1)
    BY <2>1, <2>2, <1>1, <1>2, <1>3, <1>7, ListEnters
  <2> QED BY <2>3, <1>7 DEF HandlesInv
<1>14. DefersInv'
  <2>1. ListInv(defers, dmark, Slots, Declaring("defer"), depth)
    BY <1>1 DEF UnwindInv, DefersInv
  <2>2. /\ Declaring("defer")' \cap (1 .. depth) = Declaring("defer") \cap (1 .. depth)
        /\ depth + 1 \in Declaring("defer")' <=> "defer" \in P
    BY <1>8 DEF Part
  <2>3. ListInv(defers', dmark', Slots \cup {depth + 1}, Declaring("defer")', depth + 1)
    BY <2>1, <2>2, <1>1, <1>2, <1>3, <1>7, ListEnters
  <2> QED BY <2>3, <1>1, <1>2, <1>7 DEF DefersInv
<1> HIDE DEF f
<1>15. TypeOK'
  <2>1. /\ HeadOf(files') \in Owner \cup {Nil} /\ HeadOf(handles') \in Owner \cup {Nil}
        /\ HeadOf(defers') \in Frame \cup {Nil}
    BY <1>9, <1>10, <1>11, HeadTyped
  <2>2. /\ mark' \in [Frame -> Owner \cup {Nil}] /\ hmark' \in [Frame -> Owner \cup {Nil}]
        /\ dmark' \in [Frame -> Frame \cup {Nil}]
    BY <2>1, <1>2, <1>3
  <2>3. /\ declares' \in [Frame -> SUBSET Part] /\ active' \in [Frame -> BOOLEAN]
        /\ fileUp' \in [Owner -> BOOLEAN]
    <3>1. declares \in [Frame -> SUBSET Part] /\ fileUp \in [Owner -> BOOLEAN]
          /\ active \in [Frame -> BOOLEAN]
      BY DEF UnwindInv, TypeOK
    <3>2. ("file" \in P) \in BOOLEAN
      OBVIOUS
    <3>3. declares' \in [Frame -> SUBSET Part] /\ active' \in [Frame -> BOOLEAN]
      BY <3>1, <1>2
    <3>4. fileUp' \in [Owner -> BOOLEAN]
      BY <3>1, <3>2, <1>2, Zenon
    <3> QED BY <3>3, <3>4
  <2>4. TypeOK
    BY DEF UnwindInv
  <2> QED BY <2>2, <2>3, <2>4, <1>1, <1>2, <1>6, <1>9, <1>10, <1>11 DEF TypeOK
<1>16. PcInv'
  BY <1>1, <1>2 DEF PcInv
<1>17. FileSlots'
  <2>1. \A o \in Owner : fileUp'[o] <=> (IF o = f THEN "file" \in P ELSE fileUp[o])
    BY <1>1, <1>2 DEF UnwindInv, TypeOK
  <2> QED BY <2>1, <1>4, <1>9 DEF UnwindInv, FileSlots
<1>18. HandleSlots'
  BY <1>2, <1>6, <1>10 DEF UnwindInv, HandleSlots
<1>19. DeferSlots'
  <2>1. \A g \in Frame : armed[g] => declares'[g] = declares[g]
    BY <1>2, <1>5 DEF UnwindInv, TypeOK
  <2> QED BY <2>1, <1>2, <1>9, <1>11 DEF UnwindInv, DeferSlots
<1>20. ResourceInv'
  BY <1>2, <1>6 DEF UnwindInv, ResourceInv
<1> QED
  BY <1>12, <1>13, <1>14, <1>15, <1>16, <1>17, <1>18, <1>19, <1>20 DEF UnwindInv

LEMMA NewStep == ASSUME UnwindInv, NEW c \in Cell, New(c) PROVE UnwindInv'
<1>1. /\ blockPc = "run" /\ c \notin heap /\ c \in Owner /\ c \notin Frame
      /\ Bound \in Int /\ Bound <= Depth
  BY PasUnwindAssumption, FramesAreOwners, BoundFacts DEF UnwindInv, New
<1>2. /\ heap' = heap \cup {c} /\ files' = <<c>> \o files /\ handles' = <<c>> \o handles
      /\ fileUp' = [fileUp EXCEPT ![c] = TRUE] /\ value' = [value EXCEPT ![c] = Nil]
      /\ UNCHANGED <<frameState, armed, defers, opened, closes, blockPc, blockTarget>>
  BY DEF New
<1>3. /\ TypeOK /\ files \in Seq(Owner) /\ handles \in Seq(Owner)
      /\ IsInjective(files) /\ IsInjective(handles)
      /\ c \notin ToSet(files) /\ c \notin ToSet(handles)
  BY <1>1, ListedIsLive DEF UnwindInv, TypeOK
<1>4. value' = value
  BY <1>1, <1>2 DEF UnwindInv, HandleSlots, TypeOK
<1>5. /\ Bound' = Bound /\ Slots' = Slots \cup {c}
      /\ mark' = mark /\ hmark' = hmark /\ dmark' = dmark
      /\ \A p \in Part : Declaring(p)' = Declaring(p)
  BY <1>2 DEF Bound, Slots, Declaring, frameState
<1>6. /\ files' \in Seq(Owner) /\ ToSet(files') = ToSet(files) \cup {c}
      /\ handles' \in Seq(Owner) /\ ToSet(handles') = ToSet(handles) \cup {c}
  BY <1>1, <1>2, <1>3, PushFacts
<1>7. FilesInv'
  <2>1. ListInv(<<c>> \o files, mark, Slots \cup {c}, Declaring("file"), Bound)
    BY <1>1, <1>3, ListPushes DEF UnwindInv, FilesInv
  <2> QED BY <2>1, <1>2, <1>5 DEF FilesInv, Part
<1>8. HandlesInv'
  <2>1. ListInv(<<c>> \o handles, hmark, Slots \cup {c}, Declaring("handle"), Bound)
    BY <1>1, <1>3, ListPushes DEF UnwindInv, HandlesInv
  <2> QED BY <2>1, <1>2, <1>5 DEF HandlesInv, Part
<1>9. DefersInv'
  <2>1. ListInv(defers, dmark, Slots, Declaring("defer"), Bound)
    BY DEF UnwindInv, DefersInv
  <2>2. /\ ToSet(defers) \subseteq Slots \cup {c}
        /\ ToSet(defers) \cap Frame \subseteq Declaring("defer")
    BY <2>1 DEF ListInv, Listed
  <2>3. ListInv(defers, dmark, Slots \cup {c}, Declaring("defer"), Bound)
    BY <2>1, <2>2, <1>1, ListKept
  <2> QED BY <2>3, <1>1, <1>2, <1>5 DEF DefersInv, Part
<1>10. TypeOK'
  <2>1. fileUp' \in [Owner -> BOOLEAN]
    BY <1>2, <1>3 DEF TypeOK
  <2> QED BY <2>1, <1>2, <1>3, <1>4, <1>6 DEF TypeOK, frameState
<1>11. PcInv'
  BY <1>1, <1>2 DEF UnwindInv, PcInv, frameState
<1>12. FileSlots'
  <2>1. \A o \in Owner : fileUp'[o] <=> o = c \/ fileUp[o]
    BY <1>1, <1>2, <1>3 DEF TypeOK
  <2> QED BY <2>1, <1>6 DEF UnwindInv, FileSlots
<1>13. HandleSlots' /\ ResourceInv'
  BY <1>2, <1>4, <1>6 DEF UnwindInv, HandleSlots, ResourceInv
<1>14. DeferSlots'
  BY <1>2, <1>6 DEF UnwindInv, DeferSlots, frameState
<1> QED BY <1>7, <1>8, <1>9, <1>10, <1>11, <1>12, <1>13, <1>14 DEF UnwindInv

\* dispose of a variable that no mark names: this is where the assumption of a
\* careful program is used.
LEMMA DisposeStep ==
  ASSUME UnwindInv, NEW c \in Cell, ~ Marked(c), Dispose(c)
  PROVE  UnwindInv'
<1>1. /\ blockPc = "run" /\ c \in heap /\ c \in Owner /\ c \notin Frame
      /\ Bound \in Int /\ 1 .. Bound \subseteq Frame
      /\ 1 .. depth \subseteq Frame
  <2>1. /\ blockPc = "run" /\ c \in heap /\ c \in Owner /\ c \notin Frame
    BY PasUnwindAssumption, FramesAreOwners DEF Dispose
  <2>2. Bound \in 0 .. Depth /\ depth \in 0 .. Depth /\ Depth \in Nat
    BY BoundFacts DEF UnwindInv, TypeOK
  <2> QED BY <2>1, <2>2 DEF Frame
<1>2. /\ heap' = heap \ {c} /\ files' = Unlinked(files, c) /\ handles' = Unlinked(handles, c)
      /\ fileUp' = [fileUp EXCEPT ![c] = FALSE] /\ Released({c})
      /\ UNCHANGED <<frameState, armed, defers, opened, blockPc, blockTarget>>
  BY DEF Dispose, FileDone, HandleDone
<1>3. /\ TypeOK /\ files \in Seq(Owner) /\ handles \in Seq(Owner)
      /\ IsInjective(files) /\ IsInjective(handles)
  BY ListedIsLive DEF UnwindInv, TypeOK
<1>4. /\ ResourceInv' /\ value' \in [Owner -> Value \cup {Nil}] /\ closes' \in [Value -> 0 .. 1]
      /\ \A o \in Owner : value'[o] = IF o \in {c} THEN Nil ELSE value[o]
  BY <1>1, <1>2, ReleaseFacts DEF UnwindInv
<1>5. /\ Bound' = Bound /\ Slots' = Slots \ {c}
      /\ mark' = mark /\ hmark' = hmark /\ dmark' = dmark
      /\ \A p \in Part : Declaring(p)' = Declaring(p)
  <2>1. Slots' = Slots \ {c}
    BY <1>1, <1>2 DEF Slots, frameState
  <2> QED BY <2>1, <1>2 DEF Bound, Declaring, frameState
<1>6. /\ files' \in Seq(Owner) /\ ToSet(files') = ToSet(files) \ {c}
      /\ handles' \in Seq(Owner) /\ ToSet(handles') = ToSet(handles) \ {c}
  BY <1>2, <1>3, UnlinkedFacts
<1>7. c \notin 1 .. Bound /\ \A f \in 1 .. Bound : mark[f] # c /\ hmark[f] # c
  BY <1>1 DEF Marked
<1>8. FilesInv'
  <2>1. ListInv(files', mark, Slots, Declaring("file"), Bound)
    BY <1>1, <1>2, <1>3, <1>7, ListUnlinks DEF UnwindInv, FilesInv
  <2>2. ToSet(files') \subseteq Slots \ {c} /\ ToSet(files') \cap Frame \subseteq Declaring("file")
    BY <2>1, <1>6 DEF ListInv, Listed
  <2>3. ListInv(files', mark, Slots \ {c}, Declaring("file"), Bound)
    BY <2>1, <2>2, <1>1, ListKept
  <2> QED BY <2>3, <1>5 DEF FilesInv, Part
<1>9. HandlesInv'
  <2>1. ListInv(handles', hmark, Slots, Declaring("handle"), Bound)
    BY <1>1, <1>2, <1>3, <1>7, ListUnlinks DEF UnwindInv, HandlesInv
  <2>2. /\ ToSet(handles') \subseteq Slots \ {c}
        /\ ToSet(handles') \cap Frame \subseteq Declaring("handle")
    BY <2>1, <1>6 DEF ListInv, Listed
  <2>3. ListInv(handles', hmark, Slots \ {c}, Declaring("handle"), Bound)
    BY <2>1, <2>2, <1>1, ListKept
  <2> QED BY <2>3, <1>5 DEF HandlesInv, Part
<1>10. DefersInv'
  <2>1. ListInv(defers, dmark, Slots, Declaring("defer"), Bound)
    BY DEF UnwindInv, DefersInv
  <2>2. ToSet(defers) \subseteq Frame
    <3>1. defers \in Seq(Frame)
      BY <1>3 DEF TypeOK
    <3> QED BY <3>1 DEF ToSet
  <2>3. /\ ToSet(defers) \subseteq Slots \ {c}
        /\ ToSet(defers) \cap Frame \subseteq Declaring("defer")
    BY <2>1, <2>2, <1>1 DEF ListInv, Listed
  <2>4. ListInv(defers, dmark, Slots \ {c}, Declaring("defer"), Bound)
    BY <2>1, <2>3, <1>1, ListKept
  <2> QED BY <2>4, <1>1, <1>2, <1>5 DEF DefersInv, Part
<1>11. TypeOK'
  <2>1. fileUp' \in [Owner -> BOOLEAN] /\ heap' \in SUBSET Cell
    BY <1>2, <1>3 DEF TypeOK
  <2> QED BY <2>1, <1>2, <1>3, <1>4, <1>6 DEF TypeOK, frameState
<1>12. PcInv'
  BY <1>1, <1>2 DEF UnwindInv, PcInv, frameState
<1>13. FileSlots'
  <2>1. \A o \in Owner : fileUp'[o] <=> o # c /\ fileUp[o]
    BY <1>1, <1>2, <1>3 DEF TypeOK
  <2> QED BY <2>1, <1>6 DEF UnwindInv, FileSlots
<1>14. HandleSlots'
  BY <1>1, <1>2, <1>4, <1>6, FramesAreOwners DEF UnwindInv, HandleSlots
<1>15. DeferSlots'
  BY <1>1, <1>2, <1>6 DEF UnwindInv, DeferSlots, frameState
<1> QED
  BY <1>4, <1>8, <1>9, <1>10, <1>11, <1>12, <1>13, <1>14, <1>15 DEF UnwindInv

-----------------------------------------------------------------------------
(* The theorems.                                                           *)

LEMMA NextUnwind == UnwindInv /\ [CarefulNext]_blockVars => UnwindInv'
<1> SUFFICES ASSUME UnwindInv, [CarefulNext]_blockVars PROVE UnwindInv'
  OBVIOUS
<1>1. CASE Unwinding
  BY <1>1, LeftStep, JumpDefersStep, JumpFilesStep, JumpHandlesStep, LongJmpStep,
     HaltDefersStep, HaltClosesStep DEF Unwinding
<1>2. CASE Running
  <2>1. ASSUME NEW P \in SUBSET Part, Enter(P) PROVE UnwindInv'
    BY <2>1, EnterStep
  <2>2. CASE Arm \/ CompleteSequence \/ Leave \/ Halt
    BY <2>2, ArmStep, CompleteStep, LeaveStep, HaltStep
  <2>3. ASSUME NEW o \in Owner, HandleRelease(o) PROVE UnwindInv'
    BY <2>3, HandleReleaseStep
  <2>4. ASSUME NEW o \in Owner, NEW v \in Value, HandleSet(o, v) PROVE UnwindInv'
    BY <2>4, HandleSetStep
  <2>5. ASSUME NEW s \in Owner, NEW d \in Owner, HandleMove(s, d) PROVE UnwindInv'
    BY <2>5, HandleMoveStep
  <2>6. ASSUME NEW c \in Cell, New(c) PROVE UnwindInv'
    BY <2>6, NewStep
  <2>7. ASSUME NEW t \in Frame, Goto(t) PROVE UnwindInv'
    BY <2>7, GotoStep
  <2> QED BY <1>2, <2>1, <2>2, <2>3, <2>4, <2>5, <2>6, <2>7 DEF Running
<1>3. ASSUME NEW c \in Cell, ~ Marked(c), Dispose(c) PROVE UnwindInv'
  BY <1>3, DisposeStep
<1>4. CASE UNCHANGED blockVars
  <2>1. TypeOK' /\ PcInv'
    BY <1>4 DEF UnwindInv, TypeOK, PcInv, blockVars, frameState, lists, slots
  <2>2. Bound' = Bound /\ Bound \in Int
    BY <1>4, BoundFacts DEF UnwindInv, Bound, blockVars, frameState
  <2>3. blockPc' = "leave" => depth \notin ToSet(defers)
    BY <1>4 DEF UnwindInv, DefersInv, blockVars
  <2>4. UNCHANGED <<frameState, armed, lists, slots, heap>>
    BY <1>4 DEF blockVars
  <2> QED BY <2>1, <2>2, <2>3, <2>4, TurnStep
<1> QED BY <1>1, <1>2, <1>3, <1>4 DEF CarefulNext

\* The lists, the marks, the slots and the resources of a thread agree, on
\* every way into and out of its blocks.
THEOREM UnwindInvariant == CarefulSpec => []UnwindInv
<1>1. Init => UnwindInv
  BY InitUnwind
<1>2. UnwindInv /\ [CarefulNext]_blockVars => UnwindInv'
  BY NextUnwind
<1> QED BY <1>1, <1>2, PTL DEF CarefulSpec

\* pas_handle_set, take, release and done, and the walks of goto and halt,
\* call the closer of every resource at most once, and never while a second
\* slot still holds it.
THEOREM ResourcesCloseOnce == CarefulSpec => []ClosedOnce
<1>1. UnwindInv => ClosedOnce
  <2> SUFFICES ASSUME UnwindInv, NEW v \in Value
               PROVE  /\ closes[v] <= 1
                      /\ Cardinality({o \in Owner : value[o] = v}) <= 1 - closes[v]
    BY DEF ClosedOnce
  <2>1. closes[v] \in 0 .. 1 /\ v # Nil
    BY PasUnwindAssumption DEF UnwindInv, TypeOK
  <2>2. CASE \E o \in Owner : value[o] = v
    <3>1. PICK h \in Owner : value[h] = v
      BY <2>2
    <3>2. closes[v] = 0 /\ \A o \in Owner : value[o] = v => o = h
      BY <3>1, <2>1 DEF UnwindInv, ResourceInv
    <3>3. {o \in Owner : value[o] = v} = {h}
      BY <3>1, <3>2
    <3>4. Cardinality({h}) = 1
      BY FS_Singleton
    <3> QED BY <3>2, <3>3, <3>4
  <2>3. CASE ~ \E o \in Owner : value[o] = v
    <3>1. {o \in Owner : value[o] = v} = {}
      BY <2>3
    <3>2. Cardinality({}) = 0
      BY FS_EmptySet
    <3> QED BY <3>1, <3>2, <2>1
  <2> QED BY <2>2, <2>3
<1> QED BY <1>1, UnwindInvariant, PTL

\* The lists that goto and halt walk hold no slot of a frame that is gone or
\* of a variable disposed of, none twice, and every armed statement.
THEOREM ListsAreSound == CarefulSpec => []ListsHoldLiveSlots
<1>1. UnwindInv => ListsHoldLiveSlots
  <2> SUFFICES ASSUME UnwindInv PROVE ListsHoldLiveSlots
    OBVIOUS
  <2>1. ArmedIsListed
    BY ListedIsLive DEF UnwindInv, DeferSlots, ArmedIsListed
  <2>2. /\ files \in Seq(Owner) /\ handles \in Seq(Owner) /\ defers \in Seq(Frame)
    BY DEF UnwindInv, TypeOK
  <2>3. /\ \A o \in ToSet(files) \cup ToSet(handles) : o \in Frame \/ o \in Cell
        /\ \A f \in ToSet(defers) : f \in Frame
    BY <2>2 DEF ToSet, Owner
  <2>4. \A f \in Frame : f \notin Cell
    BY PasUnwindAssumption
  <2> QED BY <2>1, <2>3, <2>4, ListedIsLive DEF ListsHoldLiveSlots, Live
<1> QED BY <1>1, UnwindInvariant, PTL

\* After a non-local goto, as at any time a block runs, the files of every
\* block that is still active are open for it: the walk closed no other.
THEOREM LiveFilesStay == CarefulSpec => []LiveFilesUsable
<1>1. UnwindInv => LiveFilesUsable
  <2> SUFFICES ASSUME UnwindInv, blockPc = "run", NEW f \in 1 .. depth, "file" \in declares[f]
               PROVE  fileUp[f]
    BY DEF LiveFilesUsable
  <2>1. f \in Frame /\ f \in ToSet(files)
    BY DeclaredIsListed DEF Bound
  <2> QED BY <2>1, FramesAreOwners DEF UnwindInv, FileSlots
<1> QED BY <1>1, UnwindInvariant, PTL

\* Nothing is left open: at the end of the program every resource was closed or
\* stands in a heap variable, and a block that was left holds nothing.
THEOREM NothingStaysOpen == CarefulSpec => []NothingLeftOpen
<1>1. UnwindInv => NothingLeftOpen
  <2> SUFFICES ASSUME UnwindInv PROVE NothingLeftOpen
    OBVIOUS
  <2>1. ASSUME blockPc = "ended", NEW v \in opened
        PROVE  closes[v] = 1 \/ \E c \in heap : value[c] = v
    <3>1. CASE closes[v] = 1
      BY <3>1
    <3>2. CASE \E o \in Owner : value[o] = v
      <4>1. PICK o \in Owner : value[o] = v
        BY <3>2
      <4>2. value[o] # Nil
        BY <4>1, PasUnwindAssumption DEF UnwindInv, TypeOK
      <4>3. o \notin Frame
        BY <4>2, <2>1 DEF UnwindInv, HandleSlots, PcInv
      <4>4. o \in heap
        BY <4>2, <4>3 DEF Owner, UnwindInv, HandleSlots
      <4> QED BY <4>1, <4>4
    <3> QED BY <3>1, <3>2 DEF UnwindInv, ResourceInv
  <2>2. ASSUME NEW f \in Frame, f > depth PROVE value[f] = Nil /\ ~ fileUp[f] /\ ~ armed[f]
    <3>1. ~ (f <= depth)
      BY <2>2 DEF UnwindInv, TypeOK, Frame
    <3>2. f \notin ToSet(files) /\ f \notin ToSet(handles) /\ f \notin ToSet(defers)
      BY <3>1, ListedIsLive
    <3> QED BY <3>2, FramesAreOwners DEF UnwindInv, FileSlots, HandleSlots, DeferSlots
  <2> QED BY <2>1, <2>2 DEF NothingLeftOpen, AbandonedIsReleased
<1> QED BY <1>1, UnwindInvariant, PTL

\* CloseFiles, pas_jump_go and pas_halt run an armed statement while the file
\* of its block is still there.
THEOREM DefersFindTheirFile == CarefulSpec => DefersSeeTheirBlock
<1>1. UnwindInv => \A f \in Frame : armed[f] /\ "file" \in declares[f] => fileUp[f]
  BY FramesAreOwners DEF UnwindInv, DeferSlots, FileSlots
<1>2. UnwindInv =>
        [\A f \in Frame :
           armed[f] /\ ~armed'[f] /\ "file" \in declares[f] => fileUp[f]]_blockVars
  BY <1>1
<1> QED BY <1>2, UnwindInvariant, PTL DEF DefersSeeTheirBlock
=============================================================================
