-------------------------- MODULE PasValuesProofs --------------------------
(***************************************************************************)
(* Proofs about the values: the strings of PasString, for every string of  *)
(* bytes, the decoder and the table searches of PasUnicode, and the        *)
(* numbers, dates and writestr buffers of PasNumber.                       *)
(***************************************************************************)
EXTENDS MCPasValues, TLAPS, SequenceTheorems, WellFoundedInduction

Byte == 0 .. 255

-----------------------------------------------------------------------------
(* The least and the greatest of a set.                                    *)

LEMMA LeastNatural ==
  ASSUME NEW T, T \subseteq Nat, T # {}
  PROVE  \E x \in T : \A y \in T : x <= y
<1>1. PICK x \in T : \A y \in T : <<y, x>> \notin OpToRel(<, Nat)
  BY WFMin, NatLessThanWellFounded
<1>2. \A y \in T : ~(y < x)
  BY <1>1 DEF OpToRel
<1>. QED BY <1>2

LEMMA LeastIs ==
  ASSUME NEW T, T \subseteq Nat, T # {}
  PROVE  Str!Min(T) \in T /\ \A y \in T : Str!Min(T) <= y
<1>1. PICK x \in T : \A y \in T : x <= y
  BY LeastNatural
<1>. QED BY <1>1, Zenon DEF Str!Min

LEMMA GreatestNatural ==
  ASSUME NEW n \in Nat, NEW T, T \subseteq 0 .. n, T # {}
  PROVE  \E x \in T : \A y \in T : x >= y
<1>. DEFINE U == {n - x : x \in T}
<1>5. \A x \in T : n - x \in Nat
  OBVIOUS
<1>1. U \subseteq Nat /\ U # {}
  BY <1>5, Zenon
<1>2. PICK u \in U : \A v \in U : u <= v
  BY <1>1, LeastNatural
<1>3. PICK x \in T : u = n - x
  OBVIOUS
<1>4. \A y \in T : x >= y
  <2>1. SUFFICES ASSUME NEW y \in T PROVE x >= y
    OBVIOUS
  <2>2. n - y \in U
    OBVIOUS
  <2>3. u <= n - y
    BY <1>2, <2>2
  <2>4. x \in Int /\ y \in Int
    OBVIOUS
  <2>. QED BY <1>3, <2>3, <2>4
<1>. QED BY <1>4

LEMMA GreatestIs ==
  ASSUME NEW n \in Nat, NEW T, T \subseteq 0 .. n, T # {}
  PROVE  Str!Max(T) \in T /\ \A y \in T : Str!Max(T) >= y
<1>1. PICK x \in T : \A y \in T : x >= y
  BY GreatestNatural
<1>. QED BY <1>1, Zenon DEF Str!Max

LEMMA LongerIs ==
  ASSUME NEW a \in Seq(Byte), NEW b \in Seq(Byte)
  PROVE  /\ Str!Longer(a, b) \in {Len(a), Len(b)}
         /\ Str!Longer(a, b) >= Len(a) /\ Str!Longer(a, b) >= Len(b)
         /\ Str!Shorter(a, b) \in {Len(a), Len(b)}
         /\ Str!Shorter(a, b) <= Len(a) /\ Str!Shorter(a, b) <= Len(b)
<1>1. Len(a) \in Nat /\ Len(b) \in Nat
  OBVIOUS
<1>2. {Len(a), Len(b)} \subseteq 0 .. Len(a) + Len(b)
  BY <1>1
<1>5. Len(a) + Len(b) \in Nat /\ {Len(a), Len(b)} # {}
  BY <1>1
<1>3. Str!Longer(a, b) \in {Len(a), Len(b)} /\ \A y \in {Len(a), Len(b)} : Str!Longer(a, b) >= y
  BY <1>2, <1>5, GreatestIs, Zenon DEF Str!Longer
<1>4. Str!Shorter(a, b) \in {Len(a), Len(b)} /\ \A y \in {Len(a), Len(b)} : Str!Shorter(a, b) <= y
  BY <1>1, LeastIs DEF Str!Shorter
<1>. QED BY <1>3, <1>4

-----------------------------------------------------------------------------
(* Comparison.                                                             *)

\* The first position at which two functions differ decides.
LEMMA FirstDecides ==
  ASSUME NEW n \in Nat, NEW f \in [1 .. n -> Int], NEW g \in [1 .. n -> Int],
         NEW i \in 1 .. n, f[i] # g[i], \A j \in 1 .. i - 1 : f[j] = g[j]
  PROVE  Str!FirstDifference(f, g) = IF f[i] < g[i] THEN -1 ELSE 1
<1>. DEFINE differs == {j \in DOMAIN f : f[j] # g[j]}
<1>1. DOMAIN f = 1 .. n
  OBVIOUS
<1>2. i \in differs /\ differs \subseteq Nat
  BY <1>1
<1>3. Str!Min(differs) \in differs /\ \A y \in differs : Str!Min(differs) <= y
  BY <1>2, LeastIs
<1>4. Str!Min(differs) = i
  <2>1. Str!Min(differs) \in 1 .. n /\ f[Str!Min(differs)] # g[Str!Min(differs)]
    BY <1>1, <1>3
  <2>2. Str!Min(differs) <= i
    BY <1>2, <1>3
  <2>3. Str!Min(differs) \notin 1 .. i - 1
    BY <2>1
  <2>. QED BY <2>1, <2>2, <2>3
<1>5. differs # {}
  BY <1>2
<1>. HIDE DEF differs
<1>6. Str!FirstDifference(f, g) =
        IF differs = {} THEN 0 ELSE IF f[Str!Min(differs)] < g[Str!Min(differs)] THEN -1 ELSE 1
  BY Zenon DEF Str!FirstDifference, differs
<1>. QED BY <1>4, <1>5, <1>6

LEMMA SameEverywhere ==
  ASSUME NEW n \in Nat, NEW f \in [1 .. n -> Int], NEW g \in [1 .. n -> Int],
         \A j \in 1 .. n : f[j] = g[j]
  PROVE  Str!FirstDifference(f, g) = 0
<1>1. {j \in DOMAIN f : f[j] # g[j]} = {}
  OBVIOUS
<1>. QED BY <1>1, Zenon DEF Str!FirstDifference

\* A string, extended with spaces as far as one looks.
Shown(a, i) == IF i <= Len(a) THEN a[i] ELSE Str!Space

LEMMA ShownIs ==
  ASSUME NEW a \in Seq(Byte), NEW i \in Nat \ {0}
  PROVE  Shown(a, i) \in Int
<1>1. ASSUME i <= Len(a) PROVE a[i] \in Byte
  BY <1>1
<1>2. \A x \in Byte : x \in Int
  BY DEF Byte
<1>3. 32 \in Int
  OBVIOUS
<1>. QED BY <1>1, <1>2, <1>3, Zenon DEF Shown, Str!Space

\* Of two strings, they look the same or there is a first difference.
LEMMA SameOrFirst ==
  ASSUME NEW a \in Seq(Byte), NEW b \in Seq(Byte)
  PROVE  \/ \A i \in Nat \ {0} : Shown(a, i) = Shown(b, i)
         \/ \E i \in Nat \ {0} : Shown(a, i) # Shown(b, i) /\ \A j \in 1 .. i - 1 : Shown(a, j) = Shown(b, j)
<1>. DEFINE T == {i \in Nat \ {0} : Shown(a, i) # Shown(b, i)}
<1>1. CASE T = {}
  BY <1>1
<1>2. CASE T # {}
  <2>1. PICK i \in T : \A y \in T : i <= y
    BY <1>2, LeastNatural
  <2>2. i \in Nat \ {0} /\ Shown(a, i) # Shown(b, i)
    BY <2>1
  <2>3. ASSUME NEW j \in 1 .. i - 1 PROVE Shown(a, j) = Shown(b, j)
    <3>1. j \in Nat \ {0} /\ ~(i <= j)
      BY <2>2
    <3>2. j \notin T
      BY <2>1, <3>1
    <3>. QED BY <3>1, <3>2
  <2>. QED BY <2>2, <2>3
<1>. QED BY <1>1, <1>2

LEMMA CompareDecides ==
  ASSUME NEW a \in Seq(Byte), NEW b \in Seq(Byte), NEW i \in Nat \ {0},
         Shown(a, i) # Shown(b, i), \A j \in 1 .. i - 1 : Shown(a, j) = Shown(b, j)
  PROVE  Str!pas_str_cmp_pad(a, b) = IF Shown(a, i) < Shown(b, i) THEN -1 ELSE 1
<1>. DEFINE n == Str!Longer(a, b)
            f == [j \in 1 .. n |-> Shown(a, j)]
            g == [j \in 1 .. n |-> Shown(b, j)]
<1>1. n \in Nat /\ n >= Len(a) /\ n >= Len(b)
  BY LongerIs
<1>2. i \in 1 .. n
  <2>1. CASE i > n
    <3>1. Shown(a, i) = Str!Space /\ Shown(b, i) = Str!Space
      BY <1>1, <2>1 DEF Shown
    <3>. QED BY <3>1
  <2>. QED BY <1>1, <2>1
<1>. HIDE DEF n
<1>3. \A j \in 1 .. n : Shown(a, j) \in Int /\ Shown(b, j) \in Int
  BY <1>1, ShownIs
<1>4. f \in [1 .. n -> Int] /\ g \in [1 .. n -> Int] /\ f[i] = Shown(a, i) /\ g[i] = Shown(b, i)
  BY <1>2, <1>3
<1>5. \A j \in 1 .. i - 1 : f[j] = g[j]
  BY <1>1, <1>2
<1>6. Str!pas_str_cmp_pad(a, b) = Str!FirstDifference(f, g)
  BY Zenon DEF Str!pas_str_cmp_pad, n, Shown
<1>. HIDE DEF f, g
<1>7. Str!FirstDifference(f, g) = IF f[i] < g[i] THEN -1 ELSE 1
  BY <1>1, <1>2, <1>4, <1>5, FirstDecides
<1>. QED BY <1>4, <1>6, <1>7

LEMMA CompareSame ==
  ASSUME NEW a \in Seq(Byte), NEW b \in Seq(Byte), \A i \in Nat \ {0} : Shown(a, i) = Shown(b, i)
  PROVE  Str!pas_str_cmp_pad(a, b) = 0
<1>. DEFINE n == Str!Longer(a, b)
            f == [j \in 1 .. n |-> Shown(a, j)]
            g == [j \in 1 .. n |-> Shown(b, j)]
<1>1. n \in Nat /\ n >= Len(a) /\ n >= Len(b)
  BY LongerIs
<1>. HIDE DEF n
<1>3. \A j \in 1 .. n : Shown(a, j) \in Int /\ Shown(b, j) \in Int
  BY <1>1, ShownIs
<1>4. f \in [1 .. n -> Int] /\ g \in [1 .. n -> Int] /\ \A j \in 1 .. n : f[j] = g[j]
  BY <1>1, <1>3
<1>6. Str!pas_str_cmp_pad(a, b) = Str!FirstDifference(f, g)
  BY Zenon DEF Str!pas_str_cmp_pad, n, Shown
<1>. HIDE DEF f, g
<1>. QED BY <1>1, <1>4, <1>6, SameEverywhere

\* The two orders of the operands answer opposite signs.
LEMMA CompareTurns ==
  ASSUME NEW a \in Seq(Byte), NEW b \in Seq(Byte)
  PROVE  Str!pas_str_cmp_pad(a, b) = -Str!pas_str_cmp_pad(b, a)
<1>1. CASE \A i \in Nat \ {0} : Shown(a, i) = Shown(b, i)
  <2>1. Str!pas_str_cmp_pad(a, b) = 0
    BY <1>1, CompareSame
  <2>2. \A i \in Nat \ {0} : Shown(b, i) = Shown(a, i)
    BY <1>1, Zenon
  <2>3. Str!pas_str_cmp_pad(b, a) = 0
    BY <2>2, CompareSame
  <2>4. \A x, y \in Int : x + y = 0 => x = -y
    OBVIOUS
  <2>5. 0 \in Int /\ 0 + 0 = 0
    OBVIOUS
  <2>. QED BY <2>1, <2>3, <2>4, <2>5, Zenon
<1>2. CASE \E i \in Nat \ {0} : Shown(a, i) # Shown(b, i) /\ \A j \in 1 .. i - 1 : Shown(a, j) = Shown(b, j)
  <2>1. PICK i \in Nat \ {0} : Shown(a, i) # Shown(b, i) /\ \A j \in 1 .. i - 1 : Shown(a, j) = Shown(b, j)
    BY <1>2
  <2>2. Str!pas_str_cmp_pad(a, b) = IF Shown(a, i) < Shown(b, i) THEN -1 ELSE 1
    BY <2>1, CompareDecides
  <2>3. Shown(b, i) # Shown(a, i) /\ \A j \in 1 .. i - 1 : Shown(b, j) = Shown(a, j)
    BY <2>1, Zenon
  <2>4. Str!pas_str_cmp_pad(b, a) = IF Shown(b, i) < Shown(a, i) THEN -1 ELSE 1
    BY <2>3, CompareDecides
  <2>5. Shown(a, i) \in Int /\ Shown(b, i) \in Int
    BY ShownIs
  <2>. QED BY <2>1, <2>2, <2>4, <2>5
<1>. QED BY <1>1, <1>2, SameOrFirst

\* What looks the same compares the same.
LEMMA CompareAlike ==
  ASSUME NEW a \in Seq(Byte), NEW c \in Seq(Byte), NEW b \in Seq(Byte),
         \A i \in Nat \ {0} : Shown(a, i) = Shown(c, i)
  PROVE  Str!pas_str_cmp_pad(c, b) = Str!pas_str_cmp_pad(a, b)
<1>1. CASE \A i \in Nat \ {0} : Shown(a, i) = Shown(b, i)
  <2>1. \A i \in Nat \ {0} : Shown(c, i) = Shown(b, i)
    BY <1>1, Zenon
  <2>. QED BY <1>1, <2>1, CompareSame
<1>2. CASE \E i \in Nat \ {0} : Shown(a, i) # Shown(b, i) /\ \A j \in 1 .. i - 1 : Shown(a, j) = Shown(b, j)
  <2>1. PICK i \in Nat \ {0} : Shown(a, i) # Shown(b, i) /\ \A j \in 1 .. i - 1 : Shown(a, j) = Shown(b, j)
    BY <1>2
  <2>2. Str!pas_str_cmp_pad(a, b) = IF Shown(a, i) < Shown(b, i) THEN -1 ELSE 1
    BY <2>1, CompareDecides
  <2>3. \A j \in 1 .. i - 1 : j \in Nat \ {0}
    OBVIOUS
  <2>4. Shown(c, i) # Shown(b, i) /\ Shown(c, i) = Shown(a, i) /\ \A j \in 1 .. i - 1 : Shown(c, j) = Shown(b, j)
    BY <2>1, <2>3, Zenon
  <2>5. Str!pas_str_cmp_pad(c, b) = IF Shown(c, i) < Shown(b, i) THEN -1 ELSE 1
    BY <2>4, CompareDecides
  <2>6. Shown(c, i) = Shown(a, i)
    BY <2>4
  <2>7. (Shown(c, i) < Shown(b, i)) <=> (Shown(a, i) < Shown(b, i))
    BY <2>6
  <2>. QED BY <2>2, <2>5, <2>7
<1>. QED BY <1>1, <1>2, SameOrFirst

\* A comparison answers 0 only of strings that look the same.
LEMMA ZeroIsSame ==
  ASSUME NEW a \in Seq(Byte), NEW b \in Seq(Byte), Str!pas_str_cmp_pad(a, b) = 0
  PROVE  \A i \in Nat \ {0} : Shown(a, i) = Shown(b, i)
<1>1. CASE \E i \in Nat \ {0} : Shown(a, i) # Shown(b, i) /\ \A j \in 1 .. i - 1 : Shown(a, j) = Shown(b, j)
  <2>1. PICK i \in Nat \ {0} : Shown(a, i) # Shown(b, i) /\ \A j \in 1 .. i - 1 : Shown(a, j) = Shown(b, j)
    BY <1>1
  <2>2. Str!pas_str_cmp_pad(a, b) = IF Shown(a, i) < Shown(b, i) THEN -1 ELSE 1
    BY <2>1, CompareDecides
  <2>3. (IF Shown(a, i) < Shown(b, i) THEN -1 ELSE 1) # 0
    OBVIOUS
  <2>. QED BY <2>2, <2>3, Zenon
<1>. QED BY <1>1, SameOrFirst, Zenon

-----------------------------------------------------------------------------
(* Trimmed, padded, cut and stored.                                        *)

Trim(s) == SubSeq(s, 1, Str!pas_str_trimlen(s))

LEMMA PrefixIs ==
  ASSUME NEW s \in Seq(Byte), NEW n \in 0 .. Len(s)
  PROVE  /\ SubSeq(s, 1, n) \in Seq(Byte) /\ Len(SubSeq(s, 1, n)) = n
         /\ \A i \in 1 .. n : SubSeq(s, 1, n)[i] = s[i]
<1>1. n \in Int /\ 1 \in Int /\ \A i \in 1 .. n : s[i] \in Byte
  OBVIOUS
<1>. QED BY <1>1, SubSeqProperties

LEMMA SuffixIs ==
  ASSUME NEW s \in Seq(Byte), NEW k \in 0 .. Len(s)
  PROVE  /\ SubSeq(s, k + 1, Len(s)) \in Seq(Byte) /\ Len(SubSeq(s, k + 1, Len(s))) = Len(s) - k
         /\ \A i \in 1 .. Len(s) - k : SubSeq(s, k + 1, Len(s))[i] = s[k + i]
<1>1. k + 1 \in Int /\ Len(s) \in Int /\ \A i \in k + 1 .. Len(s) : s[i] \in Byte
  OBVIOUS
<1>2. /\ SubSeq(s, k + 1, Len(s)) \in Seq(Byte)
      /\ Len(SubSeq(s, k + 1, Len(s))) = IF k + 1 <= Len(s) THEN Len(s) - (k + 1) + 1 ELSE 0
      /\ \A i \in 1 .. Len(s) - (k + 1) + 1 : SubSeq(s, k + 1, Len(s))[i] = s[(k + 1) + i - 1]
  BY <1>1, SubSeqProperties
<1>3. \A i \in 1 .. Len(s) - k : i \in 1 .. Len(s) - (k + 1) + 1 /\ (k + 1) + i - 1 = k + i
  OBVIOUS
<1>. QED BY <1>2, <1>3

\* Up to the last character that is not a space.
LEMMA TrimlenIs ==
  ASSUME NEW s \in Seq(Byte)
  PROVE  /\ Str!pas_str_trimlen(s) \in 0 .. Len(s)
         /\ \A i \in Nat \ {0} : i > Str!pas_str_trimlen(s) => Shown(s, i) = Str!Space
         /\ Str!pas_str_trimlen(s) > 0 => Shown(s, Str!pas_str_trimlen(s)) # Str!Space
<1>. DEFINE T == {0} \cup {i \in DOMAIN s : s[i] # Str!Space}
            t == Str!pas_str_trimlen(s)
<1>1. T \subseteq 0 .. Len(s) /\ T # {} /\ Len(s) \in Nat
  OBVIOUS
<1>2. t \in T /\ \A y \in T : t >= y
  BY <1>1, GreatestIs DEF Str!pas_str_trimlen
<1>3. t \in 0 .. Len(s)
  BY <1>1, <1>2
<1>. HIDE DEF t
<1>4. ASSUME NEW i \in Nat \ {0}, i > t PROVE Shown(s, i) = Str!Space
  <2>1. i \notin T
    <3>1. SUFFICES ASSUME i \in T PROVE FALSE
      OBVIOUS
    <3>2. t >= i
      BY <1>2, <3>1
    <3>. QED BY <1>3, <1>4, <3>2
  <2>2. i <= Len(s) => i \in DOMAIN s
    OBVIOUS
  <2>. QED BY <2>1, <2>2, Zenon DEF Shown
<1>5. ASSUME t > 0 PROVE Shown(s, t) # Str!Space
  <2>1. t # 0 /\ t <= Len(s)
    BY <1>3, <1>5
  <2>2. s[t] # Str!Space
    BY <1>2, <2>1, Zenon
  <2>. QED BY <2>1, <2>2, Zenon DEF Shown
<1>. QED BY <1>3, <1>4, <1>5, Zenon DEF t

\* Strings that look the same are equal trimmed, and conversely.
LEMMA SameTrimmed ==
  ASSUME NEW a \in Seq(Byte), NEW b \in Seq(Byte), \A i \in Nat \ {0} : Shown(a, i) = Shown(b, i)
  PROVE  Trim(a) = Trim(b)
<1>. DEFINE ta == Str!pas_str_trimlen(a)
            tb == Str!pas_str_trimlen(b)
<1>1. ta \in 0 .. Len(a) /\ tb \in 0 .. Len(b)
  BY TrimlenIs
<1>2. /\ \A i \in Nat \ {0} : i > ta => Shown(a, i) = Str!Space
      /\ \A i \in Nat \ {0} : i > tb => Shown(b, i) = Str!Space
      /\ ta > 0 => Shown(a, ta) # Str!Space
      /\ tb > 0 => Shown(b, tb) # Str!Space
  BY TrimlenIs, Zenon
<1>3. Len(Trim(a)) = ta /\ Len(Trim(b)) = tb /\ Trim(a) \in Seq(Byte) /\ Trim(b) \in Seq(Byte)
  BY <1>1, PrefixIs DEF Trim
<1>4. /\ \A i \in 1 .. ta : Trim(a)[i] = a[i]
      /\ \A i \in 1 .. tb : Trim(b)[i] = b[i]
  BY <1>1, PrefixIs DEF Trim
<1>. HIDE DEF ta, tb
<1>5. ~(ta < tb)
  <2>1. SUFFICES ASSUME ta < tb PROVE FALSE
    OBVIOUS
  <2>2. tb \in Nat \ {0} /\ tb > ta /\ tb > 0
    BY <1>1, <2>1
  <2>. QED BY <1>2, <2>2, Zenon
<1>6. ~(tb < ta)
  <2>1. SUFFICES ASSUME tb < ta PROVE FALSE
    OBVIOUS
  <2>2. ta \in Nat \ {0} /\ ta > tb /\ ta > 0
    BY <1>1, <2>1
  <2>. QED BY <1>2, <2>2, Zenon
<1>7. ta = tb
  BY <1>1, <1>5, <1>6
<1>8. ASSUME NEW i \in 1 .. ta PROVE Trim(a)[i] = Trim(b)[i]
  <2>1. i \in Nat \ {0} /\ i <= Len(a) /\ i <= Len(b) /\ i \in 1 .. tb
    BY <1>1, <1>7
  <2>2. Shown(a, i) = a[i] /\ Shown(b, i) = b[i]
    BY <2>1, Zenon DEF Shown
  <2>. QED BY <1>4, <2>1, <2>2, Zenon
<1>. HIDE DEF Trim
<1>. QED BY <1>3, <1>7, <1>8, SeqEqual

LEMMA TrimmedSame ==
  ASSUME NEW a \in Seq(Byte), NEW b \in Seq(Byte), Trim(a) = Trim(b)
  PROVE  \A i \in Nat \ {0} : Shown(a, i) = Shown(b, i)
<1>. DEFINE ta == Str!pas_str_trimlen(a)
            tb == Str!pas_str_trimlen(b)
<1>1. ta \in 0 .. Len(a) /\ tb \in 0 .. Len(b)
  BY TrimlenIs
<1>2. /\ \A i \in Nat \ {0} : i > ta => Shown(a, i) = Str!Space
      /\ \A i \in Nat \ {0} : i > tb => Shown(b, i) = Str!Space
  BY TrimlenIs, Zenon
<1>3. Len(Trim(a)) = ta /\ Len(Trim(b)) = tb
  BY <1>1, PrefixIs DEF Trim
<1>4. /\ \A i \in 1 .. ta : Trim(a)[i] = a[i]
      /\ \A i \in 1 .. tb : Trim(b)[i] = b[i]
  BY <1>1, PrefixIs DEF Trim
<1>. HIDE DEF ta, tb
<1>5. ta = tb
  BY <1>3
<1>6. SUFFICES ASSUME NEW i \in Nat \ {0} PROVE Shown(a, i) = Shown(b, i)
  OBVIOUS
<1>7. CASE i > ta
  BY <1>2, <1>5, <1>7, Zenon
<1>8. CASE i <= ta
  <2>1. i \in 1 .. ta /\ i \in 1 .. tb /\ i <= Len(a) /\ i <= Len(b)
    BY <1>1, <1>5, <1>8
  <2>2. Shown(a, i) = a[i] /\ Shown(b, i) = b[i]
    BY <2>1, Zenon DEF Shown
  <2>3. Trim(a)[i] = a[i] /\ Trim(b)[i] = b[i]
    BY <1>4, <2>1, Zenon
  <2>. QED BY <2>2, <2>3, Zenon
<1>9. i > ta \/ i <= ta
  BY <1>1
<1>. QED BY <1>7, <1>8, <1>9

LEMMA CompareIsTrimmed ==
  ASSUME NEW a \in Seq(Byte), NEW b \in Seq(Byte)
  PROVE  (Str!pas_str_cmp_pad(a, b) = 0) <=> (Trim(a) = Trim(b))
<1>1. ASSUME Str!pas_str_cmp_pad(a, b) = 0 PROVE Trim(a) = Trim(b)
  BY <1>1, ZeroIsSame, SameTrimmed
<1>2. ASSUME Trim(a) = Trim(b) PROVE Str!pas_str_cmp_pad(a, b) = 0
  BY <1>2, TrimmedSame, CompareSame
<1>. QED BY <1>1, <1>2

\* Spaces after a string are not seen.
LEMMA SpacesUnseen ==
  ASSUME NEW a \in Seq(Byte), NEW n \in Nat
  PROVE  /\ a \o Str!Spaces(n) \in Seq(Byte)
         /\ \A i \in Nat \ {0} : Shown(a, i) = Shown(a \o Str!Spaces(n), i)
<1>. DEFINE sp == Str!Spaces(n)
            c == a \o sp
<1>1. sp \in Seq(Byte) /\ Len(sp) = n /\ \A i \in 1 .. n : sp[i] = Str!Space
  BY DEF Str!Spaces, Str!Space, Byte
<1>. HIDE DEF sp
<1>2. c \in Seq(Byte) /\ Len(c) = Len(a) + n
  BY <1>1
<1>3. /\ \A i \in 1 .. Len(a) : c[i] = a[i]
      /\ \A i \in Len(a) + 1 .. Len(a) + n : c[i] = sp[i - Len(a)]
  BY <1>1
<1>. HIDE DEF c
<1>4. ASSUME NEW i \in Nat \ {0} PROVE Shown(a, i) = Shown(c, i)
  <2>1. CASE i <= Len(a)
    <3>1. i \in 1 .. Len(a) /\ i <= Len(c)
      BY <1>2, <2>1
    <3>. QED BY <1>3, <2>1, <3>1, Zenon DEF Shown
  <2>2. CASE ~(i <= Len(a)) /\ i <= Len(c)
    <3>1. i \in Len(a) + 1 .. Len(a) + n /\ i - Len(a) \in 1 .. n
      BY <1>2, <2>2
    <3>2. c[i] = Str!Space
      BY <1>1, <1>3, <3>1, Zenon
    <3>. QED BY <2>2, <3>2, Zenon DEF Shown
  <2>3. CASE ~(i <= Len(a)) /\ ~(i <= Len(c))
    BY <2>3, Zenon DEF Shown
  <2>. QED BY <2>1, <2>2, <2>3
<1>. QED BY <1>2, <1>4, Zenon DEF c, sp


\* A blank character-variable is a space.
LEMMA StoredCharSame ==
  ASSUME NEW a \in Seq(Byte), Len(a) <= 1
  PROVE  Str!pas_str_cmp_pad(Str!pas_str_store_char(a).value, a) = 0
<1>. DEFINE v == Str!pas_str_store_char(a).value
<1>1. v = IF Len(a) = 1 THEN a ELSE <<Str!Space>>
  BY DEF Str!pas_str_store_char, Str!pas_str_fits, Str!Taken
<1>. HIDE DEF v
<1>2. CASE Len(a) = 1
  <2>1. v = a
    BY <1>1, <1>2
  <2>. QED BY <2>1, CompareSame, Zenon DEF v
<1>3. CASE Len(a) # 1
  <2>1. a = <<>> /\ v = <<Str!Space>>
    BY <1>1, <1>3, EmptySeq
  <2>2. v \in Seq(Byte) /\ Len(v) = 1 /\ v[1] = Str!Space
    BY <2>1 DEF Str!Space, Byte
  <2>3. ASSUME NEW i \in Nat \ {0} PROVE Shown(v, i) = Shown(a, i)
    <3>1. ~(i <= Len(a)) /\ (i <= Len(v) => i = 1)
      BY <2>1, <2>2
    <3>. QED BY <2>2, <3>1, Zenon DEF Shown
  <2>. QED BY <2>2, <2>3, CompareSame, Zenon DEF v
<1>. QED BY <1>2, <1>3

\* Padding is spaces.
LEMMA PaddedSame ==
  ASSUME NEW a \in Seq(Byte), NEW m \in Nat, Len(a) <= m, NEW b \in Seq(Byte)
  PROVE  Str!pas_str_cmp_pad(Str!pas_str_pad(m, a).value, b) = Str!pas_str_cmp_pad(a, b)
<1>. DEFINE v == Str!pas_str_pad(m, a).value
<1>1. v = a \o Str!Spaces(m - Len(a))
  BY DEF Str!pas_str_pad, Str!pas_str_store_fixed, Str!pas_str_fits, Str!Taken
<1>2. m - Len(a) \in Nat
  OBVIOUS
<1>. HIDE DEF v
<1>3. v \in Seq(Byte) /\ \A i \in Nat \ {0} : Shown(a, i) = Shown(v, i)
  BY <1>1, <1>2, SpacesUnseen, Zenon
<1>. QED BY <1>3, CompareAlike, Zenon DEF v

\* Of strings of one length no space is added.
LEMMA ExactOfOneLength ==
  ASSUME NEW a \in Seq(Byte), NEW b \in Seq(Byte), Len(a) = Len(b)
  PROVE  Str!pas_str_cmp_pad(a, b) = Str!pas_str_cmp_exact(a, b)
<1>1. Str!Longer(a, b) = Len(a) /\ Str!Shorter(a, b) = Len(a)
  BY LongerIs
<1>2. Len(a) \in Nat
  OBVIOUS
<1>3. ASSUME NEW s \in Seq(Byte), Len(s) = Len(a)
      PROVE  /\ SubSeq(s, 1, Len(a)) = s
             /\ [i \in 1 .. Len(a) |-> IF i <= Len(s) THEN s[i] ELSE Str!Space] = s
  <2>1. SubSeq(s, 1, Len(a)) = s
    <3>1. /\ SubSeq(s, 1, Len(a)) \in Seq(Byte) /\ Len(SubSeq(s, 1, Len(a))) = Len(s)
          /\ \A i \in 1 .. Len(s) : SubSeq(s, 1, Len(a))[i] = s[i]
      BY <1>2, <1>3, PrefixIs
    <3>. QED BY <3>1, SeqEqual
  <2>2. [i \in 1 .. Len(a) |-> IF i <= Len(s) THEN s[i] ELSE Str!Space] = [i \in 1 .. Len(a) |-> s[i]]
    BY <1>3
  <2>3. [i \in 1 .. Len(a) |-> s[i]] = s
    BY <1>3
  <2>. QED BY <2>1, <2>2, <2>3
<1>4. Str!pas_str_cmp_pad(a, b) = Str!FirstDifference(a, b)
  BY <1>1, <1>3, Zenon DEF Str!pas_str_cmp_pad
<1>5. Str!FirstDifference(SubSeq(a, 1, Str!Shorter(a, b)), SubSeq(b, 1, Str!Shorter(a, b)))
        = Str!FirstDifference(a, b)
  BY <1>1, <1>3, Zenon
<1>. QED BY <1>4, <1>5, Zenon DEF Str!pas_str_cmp_exact

\* The end of a string is found in it, where it is or before, and cut out.
Found(s, k, b, at) ==
  /\ at \in 1 .. k + 1 /\ Str!pas_str_slice_check(at, Len(b), Len(s))
  /\ b # <<>> => ~Str!pas_str_slice_check(at + k + 1, Len(b), Len(s))
  /\ SubSeq(s, at, at + Len(b) - 1) = b
LEMMA IndexFinds ==
  ASSUME NEW s \in Seq(Byte), NEW k \in 0 .. Len(s)
  PROVE  Found(s, k, SubSeq(s, k + 1, Len(s)), Str!pas_str_index(s, SubSeq(s, k + 1, Len(s))))
<1>. DEFINE b == SubSeq(s, k + 1, Len(s))
            at == Str!pas_str_index(s, b)
<1>. HIDE DEF b, at
<1>1. b \in Seq(Byte) /\ Len(b) = Len(s) - k /\ Len(s) \in Nat /\ k \in Nat
  BY SuffixIs DEF b
<1>2. at \in 1 .. k + 1 /\ SubSeq(s, at, at + Len(b) - 1) = b
  <2>1. CASE b = <<>>
    <3>1. at = 1 /\ Len(b) = 0
      BY <2>1, Zenon DEF Str!pas_str_index, at
    <3>2. at \in 1 .. k + 1 /\ at + Len(b) - 1 = 0
      BY <1>1, <3>1
    <3>3. SubSeq(s, 1, 0) = <<>>
      OBVIOUS
    <3>. QED BY <2>1, <3>1, <3>2, <3>3
  <2>2. CASE b # <<>>
    <3>. DEFINE T == {i \in 1 .. Len(s) - Len(b) + 1 : SubSeq(s, i, i + Len(b) - 1) = b}
    <3>1. k + 1 \in 1 .. Len(s) - Len(b) + 1 /\ k + 1 + Len(b) - 1 = Len(s)
      BY <1>1
    <3>2. k + 1 \in T
      BY <3>1 DEF b
    <3>7. \A i \in 1 .. Len(s) - Len(b) + 1 : i \in Nat
      BY <1>1
    <3>3. T \subseteq Nat /\ T # {}
      BY <3>2, <3>7, Zenon
    <3>4. Str!Min(T) \in T /\ \A y \in T : Str!Min(T) <= y
      BY <3>3, LeastIs
    <3>5. at = Str!Min(T)
      BY <2>2, <3>3, Zenon DEF Str!pas_str_index, at
    <3>6. at \in T /\ at <= k + 1
      BY <3>2, <3>4, <3>5
    <3>. QED BY <1>1, <3>6
  <2>. QED BY <2>1, <2>2
<1>3. Str!pas_str_slice_check(at, Len(b), Len(s))
  BY <1>1, <1>2 DEF Str!pas_str_slice_check
<1>4. ~Str!pas_str_slice_check(at + k + 1, Len(b), Len(s))
  BY <1>1, <1>2 DEF Str!pas_str_slice_check
<1>. QED BY <1>2, <1>3, <1>4, Zenon DEF Found, b, at

\* A string that a foreign routine is given comes back.
LEMMA ForeignReturns ==
  ASSUME NEW a \in Seq(Byte), NEW m \in Nat, Len(a) <= m, 0 \notin Str!ToSet(a)
  PROVE  /\ Len(Str!pas_str_cstr(a).value) = Str!pas_str_cstr(a).takes
         /\ Str!pas_cstr_take(m, Str!pas_str_cstr(a).value).value = a
<1>. DEFINE v == Append(a, 0)
<1>2. Str!pas_str_cstr(a).value = v /\ Str!pas_str_cstr(a).takes = Len(a) + 1
  BY DEF Str!pas_str_cstr, Str!Taken
<1>3. 0 \in Byte
  BY DEF Byte
<1>4. /\ v \in Seq(Byte) /\ Len(v) = Len(a) + 1 /\ DOMAIN v = 1 .. Len(a) + 1
      /\ v[Len(a) + 1] = 0 /\ \A i \in 1 .. Len(a) : v[i] = a[i]
  BY <1>3
<1>5. \A i \in 1 .. Len(a) : a[i] # 0
  BY DEF Str!ToSet
<1>. HIDE DEF v
<1>6. Len(a) \in Nat
  OBVIOUS
<1>. DEFINE T == {i \in DOMAIN v : v[i] = 0} \cup {Len(v) + 1}
<1>7. Str!Min(T) = Len(a) + 1
  <2>1. T \subseteq Nat /\ Len(a) + 1 \in T
    BY <1>4, <1>6
  <2>2. \A i \in T : i \in Nat /\ i >= Len(a) + 1
    BY <1>4, <1>5, <1>6
  <2>3. Str!Min(T) \in T /\ \A y \in T : Str!Min(T) <= y
    BY <2>1, LeastIs
  <2>4. Str!Min(T) <= Len(a) + 1 /\ Str!Min(T) >= Len(a) + 1 /\ Str!Min(T) \in Nat
    BY <2>1, <2>2, <2>3, Zenon
  <2>. QED BY <1>6, <2>4
<1>8. Str!Min(T) - 1 = Len(a)
  BY <1>6, <1>7
<1>9. Str!CString(v) = SubSeq(v, 1, Len(a))
  BY <1>8, Zenon DEF Str!CString
<1>10. SubSeq(v, 1, Len(a)) = a
  <2>1. Len(a) \in 0 .. Len(v)
    BY <1>4, <1>6
  <2>2. /\ SubSeq(v, 1, Len(a)) \in Seq(Byte) /\ Len(SubSeq(v, 1, Len(a))) = Len(a)
        /\ \A i \in 1 .. Len(a) : SubSeq(v, 1, Len(a))[i] = v[i]
    BY <1>4, <2>1, PrefixIs
  <2>3. \A i \in 1 .. Len(a) : SubSeq(v, 1, Len(a))[i] = a[i]
    BY <1>4, <2>2, Zenon
  <2>. QED BY <2>2, <2>3, SeqEqual
<1>11. Str!pas_cstr_take(m, v).value = a
  BY <1>9, <1>10 DEF Str!pas_cstr_take, Str!pas_str_store_var, Str!pas_str_fits, Str!Taken
<1>. QED BY <1>2, <1>4, <1>11

LEMMA OneByte ==
  ASSUME NEW S, NEW c \in S
  PROVE  <<c>> \in Seq(S) /\ Len(<<c>>) = 1 /\ <<c>>[1] = c
OBVIOUS

\* What StringsCompareTrimmed says of the string s, cut after k characters.
Cut(s, m, a, b) ==
  /\ a \in Seq(Byte) /\ b \in Seq(Byte) /\ Len(a) <= m
  /\ Len(a) = 1 => Str!pas_str_concat(Str!pas_str_char(a[1]).value, b).value = s
LEMMA CutHolds ==
  ASSUME NEW s \in Seq(Byte), NEW m \in Nat, Len(s) <= m, NEW k \in 0 .. Len(s)
  PROVE  Cut(s, m, SubSeq(s, 1, k), SubSeq(s, k + 1, Len(s)))
<1>. DEFINE a == SubSeq(s, 1, k)
            b == SubSeq(s, k + 1, Len(s))
<1>1. k \in Nat /\ k <= Len(s) /\ Len(s) \in Nat
  OBVIOUS
<1>2. a \in Seq(Byte) /\ Len(a) = k /\ \A i \in 1 .. k : a[i] = s[i]
  BY PrefixIs
<1>3. b \in Seq(Byte) /\ Len(b) = Len(s) - k /\ \A i \in 1 .. Len(s) - k : b[i] = s[k + i]
  BY SuffixIs
<1>. HIDE DEF a, b
<1>4. ASSUME k = 1 PROVE <<a[1]>> \o b = s
  <2>1. a[1] \in Byte /\ a[1] = s[1]
    BY <1>2, <1>4
  <2>2. <<a[1]>> \in Seq(Byte) /\ Len(<<a[1]>>) = 1 /\ <<a[1]>>[1] = a[1]
    BY <2>1, OneByte
  <2>3. /\ <<a[1]>> \o b \in Seq(Byte) /\ Len(<<a[1]>> \o b) = Len(s)
        /\ \A i \in 1 .. Len(s) : (<<a[1]>> \o b)[i] = IF i = 1 THEN a[1] ELSE b[i - 1]
    BY <1>1, <1>3, <1>4, <2>2
  <2>4. ASSUME NEW i \in 1 .. Len(s) PROVE (<<a[1]>> \o b)[i] = s[i]
    <3>1. CASE i = 1
      BY <2>1, <2>3, <3>1
    <3>2. CASE i # 1
      <4>1. i - 1 \in 1 .. Len(s) - k /\ k + (i - 1) = i
        BY <1>1, <1>4, <3>2
      <4>2. b[i - 1] = s[i]
        BY <1>3, <4>1
      <4>. QED BY <2>3, <3>2, <4>2
    <3>. QED BY <3>1, <3>2
  <2>. HIDE DEF Byte
  <2>. QED BY <2>3, <2>4, SeqEqual
<1>5. Len(a) = 1 => Str!pas_str_concat(Str!pas_str_char(a[1]).value, b).value = s
  BY <1>2, <1>4 DEF Str!pas_str_concat, Str!pas_str_char, Str!Taken
<1>6. Len(a) <= m
  BY <1>1, <1>2
<1>. QED BY <1>2, <1>3, <1>5, <1>6, Zenon DEF Cut, a, b

\* The three checks of the bounds of a slice allow the same slices.
LEMMA SlicesAgree ==
  ASSUME NEW n \in Nat, NEW lo \in Int, NEW hi \in Int
  PROVE  /\ Str!pas_slice_check(lo, hi, n) = Str!pas_str_slice_check(lo, hi - lo + 1, n)
         /\ \A emptyok \in BOOLEAN :
              Str!pas_str_substr_check(lo, hi, n, emptyok)
                = (Str!pas_slice_check(lo, hi, n) /\ (hi >= lo \/ emptyok))
<1>1. Str!pas_slice_check(lo, hi, n) = Str!pas_str_slice_check(lo, hi - lo + 1, n)
  BY DEF Str!pas_slice_check, Str!pas_str_slice_check
<1>2. ASSUME NEW emptyok \in BOOLEAN
      PROVE  Str!pas_str_substr_check(lo, hi, n, emptyok)
               = (Str!pas_slice_check(lo, hi, n) /\ (hi >= lo \/ emptyok))
  BY DEF Str!pas_slice_check, Str!pas_str_substr_check
<1>. QED BY <1>1, <1>2, Zenon

LEMMA GivenCompares ==
  ASSUME given \in Seq(Byte), Len(given) <= MaxChars
  PROVE  StringsCompareTrimmed
<1>1. ASSUME NEW lo \in -1 .. Len(given) + 1, NEW hi \in -1 .. Len(given) + 1
      PROVE  /\ Str!pas_slice_check(lo, hi, Len(given))
                  = Str!pas_str_slice_check(lo, hi - lo + 1, Len(given))
             /\ \A emptyok \in BOOLEAN :
                  Str!pas_str_substr_check(lo, hi, Len(given), emptyok)
                    = (Str!pas_slice_check(lo, hi, Len(given)) /\ (hi >= lo \/ emptyok))
  <2>1. Len(given) \in Nat /\ lo \in Int /\ hi \in Int
    OBVIOUS
  <2>. QED BY <2>1, SlicesAgree, Zenon
<1>2. MaxChars \in Nat
  BY ValuesAssumption
<1>3. ASSUME NEW k \in 0 .. Len(given)
      PROVE LET a == SubSeq(given, 1, k)
                b == SubSeq(given, k + 1, Len(given))
                Trimmed(s) == SubSeq(s, 1, Str!pas_str_trimlen(s))
                padded == Str!pas_str_pad(MaxChars, a)
                at == Str!pas_str_index(given, b)
                foreign == Str!pas_str_cstr(a)
            IN /\ (Str!pas_str_cmp_pad(a, b) = 0) = (Trimmed(a) = Trimmed(b))
               /\ Str!pas_str_cmp_pad(a, b) = -Str!pas_str_cmp_pad(b, a)
               /\ Len(a) <= 1 => Str!pas_str_cmp_pad(Str!pas_str_store_char(a).value, a) = 0
               /\ Len(a) = 1 => Str!pas_str_concat(Str!pas_str_char(a[1]).value, b).value = given
               /\ Str!pas_str_cmp_pad(padded.value, b) = Str!pas_str_cmp_pad(a, b)
               /\ Len(a) = Len(b) => Str!pas_str_cmp_pad(a, b) = Str!pas_str_cmp_exact(a, b)
               /\ at \in 1 .. k + 1 /\ Str!pas_str_slice_check(at, Len(b), Len(given))
               /\ b # <<>> => ~Str!pas_str_slice_check(at + k + 1, Len(b), Len(given))
               /\ SubSeq(given, at, at + Len(b) - 1) = b
               /\ foreign.error = "" => Len(foreign.value) = foreign.takes
                                        /\ Str!pas_cstr_take(MaxChars, foreign.value).value = a
  <2>. DEFINE a == SubSeq(given, 1, k)
              b == SubSeq(given, k + 1, Len(given))
              at == Str!pas_str_index(given, b)
  <2>2. Found(given, k, b, at)
    BY IndexFinds, Zenon
  <2>9. Cut(given, MaxChars, a, b)
    BY <1>2, CutHolds, Zenon
  <2>. HIDE DEF a, b, at
  <2>1. /\ a \in Seq(Byte) /\ b \in Seq(Byte) /\ Len(a) <= MaxChars
        /\ Len(a) = 1 => Str!pas_str_concat(Str!pas_str_char(a[1]).value, b).value = given
    BY <2>9 DEF Cut
  <2>3. (Str!pas_str_cmp_pad(a, b) = 0) = (Trim(a) = Trim(b))
    BY <2>1, CompareIsTrimmed, Zenon
  <2>4. Str!pas_str_cmp_pad(a, b) = -Str!pas_str_cmp_pad(b, a)
    BY <2>1, CompareTurns, Zenon
  <2>5. Len(a) <= 1 => Str!pas_str_cmp_pad(Str!pas_str_store_char(a).value, a) = 0
    BY <2>1, StoredCharSame, Zenon
  <2>6. Str!pas_str_cmp_pad(Str!pas_str_pad(MaxChars, a).value, b) = Str!pas_str_cmp_pad(a, b)
    BY <1>2, <2>1, PaddedSame, Zenon
  <2>7. Len(a) = Len(b) => Str!pas_str_cmp_pad(a, b) = Str!pas_str_cmp_exact(a, b)
    BY <2>1, ExactOfOneLength, Zenon
  <2>8. ASSUME Str!pas_str_cstr(a).error = ""
        PROVE  /\ Len(Str!pas_str_cstr(a).value) = Str!pas_str_cstr(a).takes
               /\ Str!pas_cstr_take(MaxChars, Str!pas_str_cstr(a).value).value = a
    <3>1. Str!Fault("NUL").error # ""
      BY DEF Str!Fault
    <3>2. 0 \notin Str!ToSet(a)
      BY <2>8, <3>1, Zenon DEF Str!pas_str_cstr
    <3>. QED BY <1>2, <2>1, <3>2, ForeignReturns, Zenon
  <2>. QED
    BY <2>1, <2>2, <2>3, <2>4, <2>5, <2>6, <2>7, <2>8, Zenon DEF Found, Trim, a, b, at
<1>. QED BY <1>1, <1>3, Zenon DEF StringsCompareTrimmed

\* The strings a run is given are strings of bytes.
GivenStrings == about = "strings" => given \in Seq(Byte) /\ Len(given) <= MaxChars

\* Every string of bytes, however it is cut in two, compares as though it were
\* extended with spaces, is found by index and cut out by substr, and survives
\* a foreign routine (pas_str_cmp_pad, pas_str_index, pas_str_cstr): whatever
\* its length and its characters, and so for those of the specification.
THEOREM StringsAreCompared ==
  /\ given \in Seq(Byte) /\ Len(given) <= MaxChars => StringsCompareTrimmed
  /\ Spec => []StringsCompareTrimmed
<1>1. Init => GivenStrings
  <2>1. SUFFICES ASSUME Init PROVE given \in Seq(Byte) /\ Len(given) <= MaxChars
    BY DEF GivenStrings
  <2>2. given = <<>>
    BY <2>1 DEF Init
  <2>3. <<>> \in Seq(Byte) /\ Len(<<>>) = 0
    OBVIOUS
  <2>. QED BY <2>2, <2>3, ValuesAssumption
<1>2. GivenStrings /\ [Next]_vars => GivenStrings'
  <2>1. SUFFICES ASSUME GivenStrings, [Next]_vars, about' = "strings"
                 PROVE  given' \in Seq(Byte) /\ Len(given') <= MaxChars
    BY DEF GivenStrings
  <2>2. about = "strings"
    BY <2>1 DEF Next, vars
  <2>3. given \in Seq(Byte) /\ Len(given) <= MaxChars
    BY <2>1, <2>2 DEF GivenStrings
  <2>4. CASE UNCHANGED vars
    BY <2>3, <2>4 DEF vars
  <2>5. CASE Next
    <3>1. Lengthen(Chars, MaxChars)
      BY <2>2, <2>5, Zenon DEF Next
    <3>2. PICK c \in Chars : given' = Append(given, c)
      BY <3>1 DEF Lengthen
    <3>3. Len(given) < MaxChars
      BY <3>1 DEF Lengthen
    <3>4. c \in Byte
      BY DEF Chars, Byte
    <3>. QED BY <2>3, <3>2, <3>3, <3>4, ValuesAssumption
  <2>. QED BY <2>1, <2>4, <2>5
<1>3. GivenStrings => StringsCompareTrimmed
  <2>1. about = "strings" => (GivenStrings => StringsCompareTrimmed)
    BY GivenCompares, Zenon DEF GivenStrings
  <2>2. about # "strings" => StringsCompareTrimmed
    BY Zenon DEF StringsCompareTrimmed
  <2>. QED BY <2>1, <2>2
<1>4. Spec => []StringsCompareTrimmed
  BY <1>1, <1>2, <1>3, PTL DEF Spec
<1>. QED BY <1>4, GivenCompares

-----------------------------------------------------------------------------
(* The decoder.                                                            *)

\* The table of well-formed byte sequences, a row for each length: the lead
\* bytes, and the second bytes each may have.
Lead1 == 0 .. \h7F
Lead2 == \hC2 .. \hDF
Lead3 == \hE0 .. \hEF
Lead4 == \hF0 .. \hF4
NoLead == (\h80 .. \hC1) \cup (\hF5 .. \hFF)
Trail == \h80 .. \hBF
Second(c) ==
  IF c = \hE0 THEN \hA0 .. \hBF
  ELSE IF c = \hED THEN \h80 .. \h9F
  ELSE IF c = \hF0 THEN \h90 .. \hBF
  ELSE IF c = \hF4 THEN \h80 .. \h8F
  ELSE Trail
WellFormed(b, m) ==
  \/ m = 1 /\ b[1] \in Lead1
  \/ m = 2 /\ b[1] \in Lead2 /\ b[2] \in Second(b[1])
  \/ m = 3 /\ b[1] \in Lead3 /\ b[2] \in Second(b[1]) /\ b[3] \in Trail
  \/ m = 4 /\ b[1] \in Lead4 /\ b[2] \in Second(b[1]) /\ b[3] \in Trail /\ b[4] \in Trail

\* The rows begin with bytes of their own.
LEMMA LeadsApart ==
  ASSUME NEW c \in Byte
  PROVE  /\ c \in Lead1 \/ c \in Lead2 \/ c \in Lead3 \/ c \in Lead4 \/ c \in NoLead
         /\ c \in Lead1 => c \notin Lead2 /\ c \notin Lead3 /\ c \notin Lead4
         /\ c \in Lead2 => c \notin Lead1 /\ c \notin Lead3 /\ c \notin Lead4
         /\ c \in Lead3 => c \notin Lead1 /\ c \notin Lead2 /\ c \notin Lead4
         /\ c \in Lead4 => c \notin Lead1 /\ c \notin Lead2 /\ c \notin Lead3
         /\ c \in NoLead => c \notin Lead1 /\ c \notin Lead2 /\ c \notin Lead3 /\ c \notin Lead4
BY SMT DEF Byte, Lead1, Lead2, Lead3, Lead4, NoLead

\* What a lead byte says.
LEMMA LeadByteIs ==
  ASSUME NEW c \in Byte
  PROVE  /\ c \in Lead1 => LeadByte(c).k = 1
         /\ c \in Lead2 => LeadByte(c).k = 2 /\ LeadByte(c).second = Second(c)
         /\ c \in Lead3 => LeadByte(c).k = 3 /\ LeadByte(c).second = Second(c)
         /\ c \in Lead4 => LeadByte(c).k = 4 /\ LeadByte(c).second = Second(c)
         /\ c \in NoLead => LeadByte(c).k = 0
<1>1. c \in Lead1 => LeadByte(c).k = 1
  BY SMT DEF LeadByte, Byte, Lead1
<1>2. c \in Lead2 => LeadByte(c).k = 2 /\ LeadByte(c).second = Second(c)
  BY SMT DEF LeadByte, Byte, Lead2, Second, Trail
<1>3. c \in Lead3 => LeadByte(c).k = 3 /\ LeadByte(c).second = Second(c)
  BY SMT DEF LeadByte, Byte, Lead3, Second, Trail
<1>4. c \in Lead4 => LeadByte(c).k = 4 /\ LeadByte(c).second = Second(c)
  BY SMT DEF LeadByte, Byte, Lead4, Second, Trail
<1>5. c \in NoLead => LeadByte(c).k = 0
  BY SMT DEF LeadByte, Byte, NoLead
<1>. QED BY <1>1, <1>2, <1>3, <1>4, <1>5, Zenon

LEMMA LeadLength ==
  ASSUME NEW c \in Byte
  PROVE  LeadByte(c).k \in 0 .. 4
BY SMT DEF LeadByte, Byte

\* What u8dec tests after the lead byte.
Sound(s, i, lead) ==
  /\ lead.k # 0 /\ i + lead.k <= Len(s)
  /\ lead.k > 1 => s[i + 2] \in lead.second
  /\ \A j \in 2 .. lead.k - 1 : s[i + j + 1] \in Trail

LEMMA ScalarLength ==
  ASSUME NEW s, NEW i, NEW lead
  PROVE  Scalar(s, i, lead).k = IF Sound(s, i, lead) THEN lead.k ELSE 0
<1>1. CASE Sound(s, i, lead)
  BY <1>1, Zenon DEF Scalar, Sound, Trail
<1>2. CASE ~Sound(s, i, lead)
  BY <1>2, Zenon DEF Scalar, Sound, Trail
<1>. QED BY <1>1, <1>2

LEMMA DecodedFits ==
  ASSUME NEW s \in Seq(Byte), NEW i \in 0 .. Len(s) - 1
  PROVE  u8dec(s, i).k \in 0 .. 4 /\ i + u8dec(s, i).k <= Len(s)
<1>. DEFINE lead == LeadByte(s[i + 1])
<1>1. i + 1 \in 1 .. Len(s) /\ i \in Nat /\ Len(s) \in Nat
  OBVIOUS
<1>2. lead.k \in 0 .. 4
  BY <1>1, LeadLength
<1>3. u8dec(s, i).k = IF Sound(s, i, lead) THEN lead.k ELSE 0
  BY ScalarLength, Zenon DEF u8dec
<1>. HIDE DEF lead
<1>4. Sound(s, i, lead) => i + lead.k <= Len(s)
  BY DEF Sound
<1>. QED BY <1>1, <1>2, <1>3, <1>4

LEMMA SoundOf ==
  ASSUME NEW s, NEW lead, Len(s) \in Nat
  PROVE  /\ lead.k = 0 => ~Sound(s, 0, lead)
         /\ lead.k = 1 /\ Len(s) >= 1 => Sound(s, 0, lead)
         /\ lead.k = 2 => (Sound(s, 0, lead) <=> Len(s) >= 2 /\ s[2] \in lead.second)
         /\ lead.k = 3 => (Sound(s, 0, lead) <=>
                             Len(s) >= 3 /\ s[2] \in lead.second /\ s[3] \in Trail)
         /\ lead.k = 4 => (Sound(s, 0, lead) <=>
                             /\ Len(s) >= 4 /\ s[2] \in lead.second
                             /\ s[3] \in Trail /\ s[4] \in Trail)
<1>1. ASSUME lead.k = 0 PROVE ~Sound(s, 0, lead)
  BY <1>1, Zenon DEF Sound
<1>2. 0 + 2 = 2
  OBVIOUS
<1>3. ASSUME lead.k = 1, Len(s) >= 1 PROVE Sound(s, 0, lead)
  <2>1. lead.k # 0 /\ 0 + lead.k <= Len(s) /\ ~(lead.k > 1) /\ \A j \in 2 .. lead.k - 1 : FALSE
    BY <1>3
  <2>. QED BY <2>1, Zenon DEF Sound
<1>4. ASSUME lead.k = 2 PROVE Sound(s, 0, lead) <=> Len(s) >= 2 /\ s[2] \in lead.second
  <2>1. /\ lead.k # 0 /\ (0 + lead.k <= Len(s) <=> Len(s) >= 2) /\ lead.k > 1
        /\ \A j \in 2 .. lead.k - 1 : FALSE
    BY <1>4
  <2>. QED BY <1>2, <2>1, Zenon DEF Sound
<1>5. ASSUME lead.k = 3
      PROVE  Sound(s, 0, lead) <=> Len(s) >= 3 /\ s[2] \in lead.second /\ s[3] \in Trail
  <2>1. /\ lead.k # 0 /\ (0 + lead.k <= Len(s) <=> Len(s) >= 3) /\ lead.k > 1
        /\ 2 \in 2 .. lead.k - 1 /\ (\A j \in 2 .. lead.k - 1 : j = 2) /\ 0 + 2 + 1 = 3
    BY <1>5
  <2>. QED BY <1>2, <2>1, Zenon DEF Sound
<1>6. ASSUME lead.k = 4
      PROVE  Sound(s, 0, lead) <=> /\ Len(s) >= 4 /\ s[2] \in lead.second
                                   /\ s[3] \in Trail /\ s[4] \in Trail
  <2>1. /\ lead.k # 0 /\ (0 + lead.k <= Len(s) <=> Len(s) >= 4) /\ lead.k > 1
        /\ 2 \in 2 .. lead.k - 1 /\ 3 \in 2 .. lead.k - 1
        /\ (\A j \in 2 .. lead.k - 1 : j = 2 \/ j = 3) /\ 0 + 2 + 1 = 3 /\ 0 + 3 + 1 = 4
    BY <1>6
  <2>. QED BY <1>2, <2>1, Zenon DEF Sound
<1>. QED BY <1>1, <1>3, <1>4, <1>5, <1>6, Zenon

\* The tests of u8dec are those of the table.
LEMMA DecodedIs ==
  ASSUME NEW s \in Seq(Byte), NEW m \in 1 .. Len(s)
  PROVE  u8dec(s, 0).k = m <=> WellFormed(s, m)
<1>. DEFINE lead == LeadByte(s[1])
<1>1. s[1] \in Byte /\ Len(s) \in Nat /\ Len(s) >= 1
  OBVIOUS
<1>2. /\ 0 + 1 = 1 /\ m # 0 /\ (m = 2 => Len(s) >= 2) /\ (m = 3 => Len(s) >= 3)
      /\ (m = 4 => Len(s) >= 4)
  OBVIOUS
<1>3. u8dec(s, 0).k = IF Sound(s, 0, lead) THEN lead.k ELSE 0
  BY <1>2, ScalarLength, Zenon DEF u8dec
<1>. HIDE DEF lead
<1>4. CASE s[1] \in Lead1
  <2>1. lead.k = 1
    BY <1>1, <1>4, LeadByteIs, Zenon DEF lead
  <2>2. u8dec(s, 0).k = 1
    BY <1>1, <1>3, <2>1, SoundOf, Zenon
  <2>3. s[1] \notin Lead2 /\ s[1] \notin Lead3 /\ s[1] \notin Lead4
    BY <1>1, <1>4, LeadsApart, Zenon
  <2>. QED BY <1>4, <2>2, <2>3, Zenon DEF WellFormed
<1>5. CASE s[1] \in Lead2
  <2>1. lead.k = 2 /\ lead.second = Second(s[1])
    BY <1>1, <1>5, LeadByteIs, Zenon DEF lead
  <2>2. u8dec(s, 0).k = IF Len(s) >= 2 /\ s[2] \in Second(s[1]) THEN 2 ELSE 0
    BY <1>1, <1>3, <2>1, SoundOf, Zenon
  <2>3. s[1] \notin Lead1 /\ s[1] \notin Lead3 /\ s[1] \notin Lead4
    BY <1>1, <1>5, LeadsApart, Zenon
  <2>. QED BY <1>2, <1>5, <2>2, <2>3, Zenon DEF WellFormed
<1>6. CASE s[1] \in Lead3
  <2>1. lead.k = 3 /\ lead.second = Second(s[1])
    BY <1>1, <1>6, LeadByteIs, Zenon DEF lead
  <2>2. u8dec(s, 0).k = IF Len(s) >= 3 /\ s[2] \in Second(s[1]) /\ s[3] \in Trail THEN 3 ELSE 0
    BY <1>1, <1>3, <2>1, SoundOf, Zenon
  <2>3. s[1] \notin Lead1 /\ s[1] \notin Lead2 /\ s[1] \notin Lead4
    BY <1>1, <1>6, LeadsApart, Zenon
  <2>. QED BY <1>2, <1>6, <2>2, <2>3, Zenon DEF WellFormed
<1>7. CASE s[1] \in Lead4
  <2>1. lead.k = 4 /\ lead.second = Second(s[1])
    BY <1>1, <1>7, LeadByteIs, Zenon DEF lead
  <2>2. u8dec(s, 0).k =
          IF Len(s) >= 4 /\ s[2] \in Second(s[1]) /\ s[3] \in Trail /\ s[4] \in Trail THEN 4 ELSE 0
    BY <1>1, <1>3, <2>1, SoundOf, Zenon
  <2>3. s[1] \notin Lead1 /\ s[1] \notin Lead2 /\ s[1] \notin Lead3
    BY <1>1, <1>7, LeadsApart, Zenon
  <2>. QED BY <1>2, <1>7, <2>2, <2>3, Zenon DEF WellFormed
<1>8. CASE s[1] \in NoLead
  <2>1. lead.k = 0
    BY <1>1, <1>8, LeadByteIs, Zenon DEF lead
  <2>2. u8dec(s, 0).k = 0
    BY <1>1, <1>3, <2>1, SoundOf, Zenon
  <2>3. s[1] \notin Lead1 /\ s[1] \notin Lead2 /\ s[1] \notin Lead3 /\ s[1] \notin Lead4
    BY <1>1, <1>8, LeadsApart, Zenon
  <2>. QED BY <1>2, <2>2, <2>3, Zenon DEF WellFormed
<1>. QED BY <1>1, <1>4, <1>5, <1>6, <1>7, <1>8, LeadsApart, Zenon

\* The table's rows are the encodings of the scalars, length by length.
LEMMA EncodingOne ==
  ASSUME NEW b \in Seq(Byte), Len(b) = 1
  PROVE  IsEncoding(b) <=> b[1] \in Lead1
<1>1. b[1] \in Byte
  OBVIOUS
<1>2. \A j \in 2 .. Len(b) : FALSE
  OBVIOUS
<1>3. IsEncoding(b) <=> /\ b[1] \in 0 .. \h7F /\ u8len(b[1]) = 1
                        /\ b[1] <= \h10FFFF /\ b[1] \notin \hD800 .. \hDFFF
  BY <1>2, SMT DEF IsEncoding, Shortest
<1>. DEFINE x == b[1]
<1>4. x \in Byte
  BY <1>1
<1>. HIDE DEF x
<1>5. (x \in 0 .. \h7F /\ u8len(x) = 1 /\ x <= \h10FFFF /\ x \notin \hD800 .. \hDFFF)
        <=> x \in Lead1
  BY <1>4, SMTT(60) DEF u8len, Lead1, Byte
<1>. QED BY <1>3, <1>5 DEF x

LEMMA EncodingTwo ==
  ASSUME NEW b \in Seq(Byte), Len(b) = 2
  PROVE  IsEncoding(b) <=> b[1] \in Lead2 /\ b[2] \in Second(b[1])
<1>1. b[1] \in Byte /\ b[2] \in Byte
  BY SMTT(60)
<1>2. (\A j \in 2 .. Len(b) : b[j] \in \h80 .. \hBF) <=> b[2] \in Trail
  BY DEF Trail
<1>3. IsEncoding(b) <=>
        LET v == (b[1] - \hC0) * 64 + (b[2] - \h80)
        IN /\ b[1] \in \hC0 .. \hDF /\ b[2] \in Trail
           /\ u8len(v) = 2 /\ v <= \h10FFFF /\ v \notin \hD800 .. \hDFFF
  BY <1>2, SMT DEF IsEncoding, Shortest
<1>. DEFINE x == b[1]
            y == b[2]
<1>4. x \in Byte /\ y \in Byte
  BY <1>1
<1>. HIDE DEF x, y
<1>5. (LET v == (x - \hC0) * 64 + (y - \h80)
       IN /\ x \in \hC0 .. \hDF /\ y \in Trail
          /\ u8len(v) = 2 /\ v <= \h10FFFF /\ v \notin \hD800 .. \hDFFF)
      <=> x \in Lead2 /\ y \in Second(x)
  BY <1>4, SMTT(60) DEF u8len, Lead2, Second, Trail, Byte
<1>. QED BY <1>3, <1>5 DEF x, y

LEMMA EncodingThree ==
  ASSUME NEW b \in Seq(Byte), Len(b) = 3
  PROVE  IsEncoding(b) <=> b[1] \in Lead3 /\ b[2] \in Second(b[1]) /\ b[3] \in Trail
<1>1. b[1] \in Byte /\ b[2] \in Byte /\ b[3] \in Byte
  OBVIOUS
<1>2. (\A j \in 2 .. Len(b) : b[j] \in \h80 .. \hBF) <=> b[2] \in Trail /\ b[3] \in Trail
  BY SMTT(60) DEF Trail
<1>3. IsEncoding(b) <=>
        LET v == (b[1] - \hE0) * 4096 + (b[2] - \h80) * 64 + (b[3] - \h80)
        IN /\ b[1] \in \hE0 .. \hEF /\ b[2] \in Trail /\ b[3] \in Trail
           /\ u8len(v) = 3 /\ v <= \h10FFFF /\ v \notin \hD800 .. \hDFFF
  <2>. DEFINE v == (b[1] - \hE0) * 4096 + (b[2] - \h80) * 64 + (b[3] - \h80)
  <2>1. IsEncoding(b) <=>
          /\ b[1] \in \hE0 .. \hE0 + 16 - 1
          /\ \A j \in 2 .. Len(b) : b[j] \in \h80 .. \hBF
          /\ u8len(v) = Len(b) /\ v <= \h10FFFF /\ v \notin \hD800 .. \hDFFF
    BY SMT DEF IsEncoding, Shortest
  <2>2. \hE0 + 16 - 1 = \hEF
    BY SMT
  <2>. HIDE DEF v
  <2>3. IsEncoding(b) <=>
          /\ b[1] \in \hE0 .. \hEF /\ b[2] \in Trail /\ b[3] \in Trail
          /\ u8len(v) = 3 /\ v <= \h10FFFF /\ v \notin \hD800 .. \hDFFF
    BY <1>2, <2>1, <2>2, SMT
  <2>. QED BY <2>3 DEF v
<1>. DEFINE x == b[1]
            y == b[2]
            z == b[3]
<1>4. x \in Byte /\ y \in Byte /\ z \in Byte
  BY <1>1, SMTT(60)
<1>. HIDE DEF x, y, z
<1>5. (LET v == (x - \hE0) * 4096 + (y - \h80) * 64 + (z - \h80)
       IN /\ x \in \hE0 .. \hEF /\ y \in Trail /\ z \in Trail
          /\ u8len(v) = 3 /\ v <= \h10FFFF /\ v \notin \hD800 .. \hDFFF)
      <=> x \in Lead3 /\ y \in Second(x) /\ z \in Trail
  BY <1>4, SMT DEF u8len, Lead3, Second, Trail, Byte
<1>. QED BY <1>3, <1>5 DEF x, y, z

\* The value v of four bytes, the first of which is x, is a scalar that needs
\* four.
NeedsFour(x, v) ==
  x \in \hF0 .. \hF7 /\ u8len(v) = 4 /\ v <= \h10FFFF /\ v \notin \hD800 .. \hDFFF
RowFour(x, y) == x \in Lead4 /\ y \in Second(x)

TwelveBits == 0 .. 4095
ValueFour(x, y, r) == (x - \hF0) * 262144 + (y - \h80) * 4096 + r

LEMMA FourRange ==
  ASSUME NEW x \in Byte, NEW y \in Trail, NEW r \in TwelveBits
  PROVE  NeedsFour(x, ValueFour(x, y, r)) <=> RowFour(x, y)
<1>. DEFINE v == (x - \hF0) * 262144 + (y - \h80) * 4096 + r
            First == x = \hF0
            Middle == x \in \hF1 .. \hF3
            Final == x = \hF4
            Past == x \in \hF5 .. \hF7
            Other == x \notin \hF0 .. \hF7
            Same == NeedsFour(x, v) <=> RowFour(x, y)
<1>1. x \in Int /\ y \in \h80 .. \hBF /\ r \in 0 .. 4095
  BY SMT DEF Byte, Trail, TwelveBits
<1>2. u8len(v) = 4 <=> v >= 65536
  BY <1>1, SMT DEF u8len
<1>3. ASSUME First PROVE Same
  <2>1. v = (y - \h80) * 4096 + r
    BY <1>1, <1>3, SMT
  <2>. HIDE DEF v
  <2>2. v >= 65536 <=> y >= \h90
    BY <1>1, <2>1, SMTT(60)
  <2>3. v <= \h10FFFF /\ (v >= 65536 => v \notin \hD800 .. \hDFFF)
    BY <1>1, <2>1, SMT
  <2>4. y \in Second(x) <=> y >= \h90
    BY <1>1, <1>3, SMT DEF Second
  <2>5. x \in Lead4 /\ x \in \hF0 .. \hF7
    BY <1>3, SMT DEF Lead4
  <2>. QED BY <1>2, <2>2, <2>3, <2>4, <2>5, SMT DEF NeedsFour, RowFour
<1>4. ASSUME Middle PROVE Same
  <2>1. v >= 262144 /\ v <= \h10FFFF
    BY <1>1, <1>4, SMTT(60)
  <2>2. v >= 65536 /\ v \notin \hD800 .. \hDFFF
    BY <1>1, <2>1, SMT
  <2>3. y \in Second(x)
    BY <1>1, <1>4, SMT DEF Second, Trail
  <2>4. x \in Lead4 /\ x \in \hF0 .. \hF7
    BY <1>4, SMT DEF Lead4
  <2>. HIDE DEF v
  <2>. QED BY <1>2, <2>1, <2>2, <2>3, <2>4, SMT DEF NeedsFour, RowFour
<1>5. ASSUME Final PROVE Same
  <2>1. v = 1048576 + (y - \h80) * 4096 + r
    BY <1>1, <1>5, SMT
  <2>. HIDE DEF v
  <2>2. v <= \h10FFFF <=> y <= \h8F
    BY <1>1, <2>1, SMTT(60)
  <2>3. v >= 65536 /\ v \notin \hD800 .. \hDFFF
    BY <1>1, <2>1, SMT
  <2>4. y \in Second(x) <=> y <= \h8F
    BY <1>1, <1>5, SMT DEF Second
  <2>5. x \in Lead4 /\ x \in \hF0 .. \hF7
    BY <1>5, SMT DEF Lead4
  <2>. QED BY <1>2, <2>2, <2>3, <2>4, <2>5, SMT DEF NeedsFour, RowFour
<1>6. ASSUME Past PROVE Same
  <2>1. ~(v <= \h10FFFF)
    BY <1>1, <1>6, SMT
  <2>. HIDE DEF v
  <2>. QED BY <1>6, <2>1, SMT DEF Lead4, NeedsFour, RowFour
<1>7. ASSUME Other PROVE Same
  BY <1>7, SMT DEF Lead4, NeedsFour, RowFour
<1>8. First \/ Middle \/ Final \/ Past \/ Other
  BY <1>1, SMT
<1>. HIDE DEF First, Middle, Final, Past, Other, Same
<1>9. Same
  BY <1>3, <1>4, <1>5, <1>6, <1>7, <1>8, SMT
<1>. QED BY <1>9, SMT DEF Same, ValueFour

LEMMA SixBits ==
  ASSUME NEW z \in Trail, NEW w \in Trail
  PROVE  (z - \h80) * 64 + (w - \h80) \in TwelveBits
BY SMT DEF Trail, TwelveBits

LEMMA GroupBits ==
  ASSUME NEW x \in Byte, NEW y \in Trail, NEW z \in Trail, NEW w \in Trail
  PROVE  (x - \hF0) * 262144 + (y - \h80) * 4096 + (z - \h80) * 64 + (w - \h80)
           = ValueFour(x, y, (z - \h80) * 64 + (w - \h80))
BY SMT DEF Byte, Trail, ValueFour

LEMMA EncodingFour ==
  ASSUME NEW b \in Seq(Byte), Len(b) = 4
  PROVE  IsEncoding(b) <=>
           b[1] \in Lead4 /\ b[2] \in Second(b[1]) /\ b[3] \in Trail /\ b[4] \in Trail
<1>. DEFINE v == (b[1] - \hF0) * 262144 + (b[2] - \h80) * 4096 + (b[3] - \h80) * 64 + (b[4] - \h80)
            r == (b[3] - \h80) * 64 + (b[4] - \h80)
<1>1. \A j \in 1 .. 4 : b[j] \in Byte
  <2>1. \A j \in 1 .. Len(b) : b[j] \in Byte
    BY ElementOfSeq, Zenon
  <2>. QED BY <2>1, Zenon
<1>2. b[1] \in Byte /\ b[2] \in Byte /\ b[3] \in Byte /\ b[4] \in Byte
  BY <1>1, SMT
<1>3. (\A j \in 2 .. Len(b) : b[j] \in \h80 .. \hBF) <=>
        b[2] \in Trail /\ b[3] \in Trail /\ b[4] \in Trail
  BY SMT DEF Trail
<1>4. IsEncoding(b) <=>
        /\ b[1] \in \hF0 .. \hF0 + 8 - 1
        /\ \A j \in 2 .. Len(b) : b[j] \in \h80 .. \hBF
        /\ u8len(v) = Len(b) /\ v <= \h10FFFF /\ v \notin \hD800 .. \hDFFF
  BY SMT DEF IsEncoding, Shortest
<1>5. ASSUME b[2] \in Trail, b[3] \in Trail, b[4] \in Trail
      PROVE  r \in TwelveBits /\ v = ValueFour(b[1], b[2], r)
  BY <1>2, <1>5, SixBits, GroupBits, SMT
<1>. HIDE DEF v, r
<1>6. IsEncoding(b) <=>
        /\ b[1] \in \hF0 .. \hF7 /\ b[2] \in Trail /\ b[3] \in Trail /\ b[4] \in Trail
        /\ u8len(v) = 4 /\ v <= \h10FFFF /\ v \notin \hD800 .. \hDFFF
  <2>1. \hF0 + 8 - 1 = \hF7
    BY SMT
  <2>. QED BY <1>3, <1>4, <2>1, SMT
<1>7. ASSUME b[2] \in Trail, b[3] \in Trail, b[4] \in Trail
      PROVE  NeedsFour(b[1], v) <=> RowFour(b[1], b[2])
  BY <1>2, <1>5, <1>7, FourRange, Zenon
<1>8. \A c, d \in Byte : d \in Second(c) => d \in Trail
  BY SMT DEF Second, Trail, Byte
<1>9. IsEncoding(b) <=> NeedsFour(b[1], v) /\ b[2] \in Trail /\ b[3] \in Trail /\ b[4] \in Trail
  BY <1>6, SMT DEF NeedsFour
<1>. QED BY <1>2, <1>7, <1>8, <1>9, Zenon DEF RowFour

LEMMA EncodingLength ==
  ASSUME NEW b, Len(b) # 1, Len(b) # 2, Len(b) # 3, Len(b) # 4
  PROVE  ~IsEncoding(b)
BY SMT DEF IsEncoding

\* The first m bytes of s encode a scalar exactly when the table has them.
LEMMA EncodingIs ==
  ASSUME NEW s \in Seq(Byte), NEW m \in 1 .. Len(s)
  PROVE  IsEncoding(SubSeq(s, 1, m)) <=> WellFormed(s, m)
<1>. DEFINE b == SubSeq(s, 1, m)
<1>1. m \in 0 .. Len(s)
  OBVIOUS
<1>2. b \in Seq(Byte) /\ Len(b) = m /\ \A i \in 1 .. m : b[i] = s[i]
  BY <1>1, PrefixIs
<1>. HIDE DEF b
<1>3. CASE m = 1
  <2>1. b[1] = s[1] /\ Len(b) = 1 /\ m # 2 /\ m # 3 /\ m # 4
    BY <1>2, <1>3
  <2>. QED BY <1>2, <1>3, <2>1, EncodingOne, Zenon DEF WellFormed, b
<1>4. CASE m = 2
  <2>1. b[1] = s[1] /\ b[2] = s[2] /\ Len(b) = 2 /\ m # 1 /\ m # 3 /\ m # 4
    BY <1>2, <1>4
  <2>. QED BY <1>2, <1>4, <2>1, EncodingTwo, Zenon DEF WellFormed, b
<1>5. CASE m = 3
  <2>1. b[1] = s[1] /\ b[2] = s[2] /\ b[3] = s[3] /\ Len(b) = 3 /\ m # 1 /\ m # 2 /\ m # 4
    BY <1>2, <1>5
  <2>. QED BY <1>2, <1>5, <2>1, EncodingThree, Zenon DEF WellFormed, b
<1>6. CASE m = 4
  <2>1. /\ b[1] = s[1] /\ b[2] = s[2] /\ b[3] = s[3] /\ b[4] = s[4] /\ Len(b) = 4
        /\ m # 1 /\ m # 2 /\ m # 3
    BY <1>2, <1>6
  <2>. QED BY <1>2, <1>6, <2>1, EncodingFour, Zenon DEF WellFormed, b
<1>7. CASE m \notin 1 .. 4
  <2>1. m # 1 /\ m # 2 /\ m # 3 /\ m # 4
    BY <1>7
  <2>2. ~IsEncoding(b)
    BY <1>2, <2>1, EncodingLength, Zenon
  <2>. QED BY <2>1, <2>2, Zenon DEF WellFormed, b
<1>8. m \in 1 .. 4 => m = 1 \/ m = 2 \/ m = 3 \/ m = 4
  OBVIOUS
<1>. QED BY <1>3, <1>4, <1>5, <1>6, <1>7, <1>8


\* The bits of the bytes, one after another: what Bits is in u8dec.
BitStep(s, i, lead, f) ==
  [j \in 0 .. lead.k - 1 |->
     IF j = 0 THEN s[i + 1] % LeadBits[lead.k] ELSE f[j - 1] * 64 + (s[i + j + 1] % 64)]
BitsOf(s, i, lead) == CHOOSE f : f = BitStep(s, i, lead, f)

LEMMA ScalarValue ==
  ASSUME NEW s, NEW i, NEW lead, Sound(s, i, lead)
  PROVE  Scalar(s, i, lead).cp = BitsOf(s, i, lead)[lead.k - 1]
BY Zenon DEF Scalar, Sound, Trail, BitsOf, BitStep

ValueOf(s, j, first) ==
  IF j = 0 THEN first
  ELSE IF j = 1 THEN first * 64 + (s[2] % 64)
  ELSE IF j = 2 THEN (first * 64 + (s[2] % 64)) * 64 + (s[3] % 64)
  ELSE ((first * 64 + (s[2] % 64)) * 64 + (s[3] % 64)) * 64 + (s[4] % 64)

LEMMA BitsExist ==
  ASSUME NEW s, NEW lead, lead.k \in 1 .. 4
  PROVE  BitsOf(s, 0, lead) = BitStep(s, 0, lead, BitsOf(s, 0, lead))
<1>. DEFINE first == s[0 + 1] % LeadBits[lead.k]
            f == [j \in 0 .. lead.k - 1 |-> ValueOf(s, j, first)]
<1>1. ASSUME NEW j \in 0 .. lead.k - 1
      PROVE  ValueOf(s, j, first) =
               IF j = 0 THEN first ELSE f[j - 1] * 64 + (s[0 + j + 1] % 64)
  <2>. HIDE DEF first
  <2>1. CASE j = 0
    BY <2>1 DEF ValueOf
  <2>2. CASE j = 1
    <3>1. f[j - 1] = first /\ 0 + j + 1 = 2
      BY <2>2 DEF ValueOf
    <3>. QED BY <2>2, <3>1 DEF ValueOf
  <2>3. CASE j = 2
    <3>1. f[j - 1] = first * 64 + (s[2] % 64) /\ 0 + j + 1 = 3
      BY <2>3 DEF ValueOf
    <3>. QED BY <2>3, <3>1 DEF ValueOf
  <2>4. CASE j = 3
    <3>1. f[j - 1] = (first * 64 + (s[2] % 64)) * 64 + (s[3] % 64) /\ 0 + j + 1 = 4
      BY <2>4 DEF ValueOf
    <3>. QED BY <2>4, <3>1 DEF ValueOf
  <2>5. j = 0 \/ j = 1 \/ j = 2 \/ j = 3
    OBVIOUS
  <2>. QED BY <2>1, <2>2, <2>3, <2>4, <2>5
<1>2. f = BitStep(s, 0, lead, f)
  BY <1>1, Zenon DEF BitStep
<1>. HIDE DEF f
<1>. QED BY <1>2, Zenon DEF BitsOf

\* The scalar that u8dec answers.
LEMMA DecodedValue ==
  ASSUME NEW s \in Seq(Byte), NEW m \in 1 .. 4, m <= Len(s), u8dec(s, 0).k = m
  PROVE  u8dec(s, 0).cp = ValueOf(s, m - 1, s[1] % LeadBits[m])
<1>. DEFINE lead == LeadByte(s[1])
            f == BitsOf(s, 0, lead)
<1>1. s[1] \in Byte /\ 0 + 1 = 1 /\ m # 0
  OBVIOUS
<1>2. u8dec(s, 0).k = IF Sound(s, 0, lead) THEN lead.k ELSE 0
  BY <1>1, ScalarLength, Zenon DEF u8dec
<1>3. Sound(s, 0, lead) /\ lead.k = m
  BY <1>1, <1>2, Zenon
<1>4. u8dec(s, 0).cp = f[m - 1]
  BY <1>1, <1>3, ScalarValue, Zenon DEF u8dec
<1>5. f = BitStep(s, 0, lead, f)
  BY <1>3, BitsExist, Zenon
<1>. HIDE DEF lead, f
<1>. DEFINE first == s[1] % LeadBits[m]
<1>6. \A j \in 0 .. m - 1 : f[j] = IF j = 0 THEN first ELSE f[j - 1] * 64 + (s[0 + j + 1] % 64)
  BY <1>1, <1>3, <1>5, Zenon DEF BitStep
<1>. HIDE DEF first
<1>7. f[0] = first
  BY <1>6
<1>8. m >= 2 => f[1] = f[0] * 64 + (s[2] % 64)
  BY <1>6
<1>9. m >= 3 => f[2] = f[1] * 64 + (s[3] % 64)
  BY <1>6
<1>10. m >= 4 => f[3] = f[2] * 64 + (s[4] % 64)
  BY <1>6
<1>11. f[m - 1] = ValueOf(s, m - 1, first)
  <2>1. CASE m = 1
    BY <1>7, <2>1 DEF ValueOf
  <2>2. CASE m = 2
    BY <1>7, <1>8, <2>2 DEF ValueOf
  <2>3. CASE m = 3
    BY <1>7, <1>8, <1>9, <2>3 DEF ValueOf
  <2>4. CASE m = 4
    BY <1>7, <1>8, <1>9, <1>10, <2>4 DEF ValueOf
  <2>. QED BY <2>1, <2>2, <2>3, <2>4
<1>. QED BY <1>4, <1>11 DEF first


\* Encoding what was decoded gives the bytes again, length by length.
LEMMA ThreeApart ==
  ASSUME NEW p \in 0 .. 15, NEW y \in 0 .. 63, NEW z \in 0 .. 63
  PROVE  LET v == (p * 64 + y) * 64 + z
         IN /\ v \in Nat /\ v < 65536 /\ ((p = 0 => y >= 32) => v >= 2048)
            /\ v \div 4096 = p /\ (v \div 64) % 64 = y /\ (v \div 1) % 64 = z
<1>. DEFINE v == (p * 64 + y) * 64 + z
<1>1. v \in Nat /\ v < 65536
  BY SMT
<1>2. (p = 0 => y >= 32) => v >= 2048
  BY SMT
<1>3. v \div 4096 = p
  BY SMT
<1>4. v \div 64 = p * 64 + y /\ (p * 64 + y) % 64 = y
  BY SMT
<1>5. v \div 1 = v /\ v % 64 = z
  BY SMT
<1>. HIDE DEF v
<1>6. (v \div 64) % 64 = y /\ (v \div 1) % 64 = z
  BY <1>4, <1>5, SMT
<1>. QED BY <1>1, <1>2, <1>3, <1>6, SMT DEF v

PartsOf(v, p, y, z, w) ==
  /\ v \in Nat /\ ((p = 0 => y >= 16) => v >= 65536)
  /\ v \div 262144 = p /\ (v \div 4096) % 64 = y
  /\ (v \div 64) % 64 = z /\ (v \div 1) % 64 = w
Joined(p, y, z, w) == ((p * 64 + y) * 64 + z) * 64 + w
LEMMA FourApart ==
  ASSUME NEW p, NEW y, NEW z, NEW w,
         p \in 0 .. 7, y \in 0 .. 63, z \in 0 .. 63, w \in 0 .. 63
  PROVE  PartsOf(Joined(p, y, z, w), p, y, z, w)
<1>. DEFINE v == ((p * 64 + y) * 64 + z) * 64 + w
<1>1. v \in Nat
  BY SMT
<1>2. (p = 0 => y >= 16) => v >= 65536
  BY SMT
<1>3. v \div 262144 = p
  BY SMT
<1>4. v \div 4096 = p * 64 + y /\ (p * 64 + y) % 64 = y
  BY SMT
<1>5. v \div 64 = (p * 64 + y) * 64 + z /\ ((p * 64 + y) * 64 + z) % 64 = z
  BY SMT
<1>6. v \div 1 = v /\ v % 64 = w
  BY SMT
<1>. HIDE DEF v
<1>7. (v \div 4096) % 64 = y /\ (v \div 64) % 64 = z /\ (v \div 1) % 64 = w
  BY <1>4, <1>5, <1>6, SMT
<1>8. PartsOf(v, p, y, z, w)
  BY <1>1, <1>2, <1>3, <1>7, SMT DEF PartsOf
<1>. QED BY <1>8, SMT DEF v, Joined

LEMMA LowBits ==
  ASSUME NEW c \in Trail
  PROVE  c % 64 \in 0 .. 63 /\ \h80 + (c % 64) = c /\ c % 64 = c - \h80
BY SMT DEF Trail

LEMMA AgainOne ==
  ASSUME NEW x \in Lead1
  PROVE  u8enc(x % 128) = <<x>>
<1>1. x % 128 = x
  BY SMT DEF Lead1
<1>2. u8len(x) = 1
  BY SMT DEF u8len, Lead1
<1>. QED BY <1>1, <1>2 DEF u8enc

LEMMA AgainTwo ==
  ASSUME NEW x \in Lead2, NEW y \in Trail
  PROVE  u8enc((x % 32) * 64 + (y % 64)) = <<x, y>>
<1>. DEFINE v == (x % 32) * 64 + (y % 64)
<1>1. x % 32 = x - \hC0 /\ x % 32 \in 2 .. 31
  BY SMT DEF Lead2
<1>2. y % 64 \in 0 .. 63 /\ \h80 + (y % 64) = y
  BY LowBits
<1>3. v \in Nat /\ v >= 128 /\ v < 2048
  BY <1>1, <1>2, SMT
<1>4. u8len(v) = 2
  BY <1>3, SMT DEF u8len
<1>5. \hC0 + (v \div 64) = x
  BY <1>1, <1>2, SMT DEF Lead2
<1>6. \h80 + ((v \div 1) % 64) = y
  BY <1>1, <1>2, <1>3, SMT
<1>. HIDE DEF v
<1>7. u8enc(v) = <<\hC0 + (v \div 64), \h80 + ((v \div 1) % 64)>>
  BY <1>4, SMT DEF u8enc
<1>. QED BY <1>5, <1>6, <1>7, SMT DEF v

LEMMA AgainThree ==
  ASSUME NEW x \in Lead3, NEW y \in Second(x), NEW z \in Trail
  PROVE  u8enc(((x % 16) * 64 + (y % 64)) * 64 + (z % 64)) = <<x, y, z>>
<1>. DEFINE p == x % 16
            q == y % 64
            r == z % 64
            v == (p * 64 + q) * 64 + r
<1>1. \hE0 + p = x /\ p \in 0 .. 15
  BY SMT DEF Lead3
<1>2. y \in Trail /\ (x = \hE0 => y >= \hA0)
  BY SMT DEF Lead3, Second, Trail
<1>3. q \in 0 .. 63 /\ \h80 + q = y /\ r \in 0 .. 63 /\ \h80 + r = z
  BY <1>2, LowBits
<1>. HIDE DEF p, q, r
<1>4. p = 0 => q >= 32
  BY <1>1, <1>2, <1>3, SMT
<1>5. /\ v \in Nat /\ v < 65536 /\ v >= 2048
      /\ v \div 4096 = p /\ (v \div 64) % 64 = q /\ (v \div 1) % 64 = r
  BY <1>1, <1>3, <1>4, ThreeApart, SMT
<1>. HIDE DEF v
<1>6. u8len(v) = 3
  BY <1>5, SMT DEF u8len
<1>7. u8enc(v) = <<\hE0 + (v \div 4096), \h80 + ((v \div 64) % 64), \h80 + ((v \div 1) % 64)>>
  BY <1>6, SMT DEF u8enc
<1>8. u8enc(v) = <<x, y, z>>
  BY <1>1, <1>3, <1>5, <1>7, SMT
<1>. QED BY <1>8, SMT DEF v, p, q, r

LEMMA AgainFour ==
  ASSUME NEW x \in Lead4, NEW y \in Second(x), NEW z \in Trail, NEW w \in Trail
  PROVE  u8enc((((x % 8) * 64 + (y % 64)) * 64 + (z % 64)) * 64 + (w % 64)) = <<x, y, z, w>>
<1>. DEFINE p == x % 8
            q == y % 64
            r == z % 64
            t == w % 64
            v == Joined(p, q, r, t)
<1>1. \hF0 + p = x /\ p \in 0 .. 7
  BY SMT DEF Lead4
<1>2. y \in Trail /\ (x = \hF0 => y >= \h90)
  BY SMT DEF Lead4, Second, Trail
<1>3. /\ q \in 0 .. 63 /\ \h80 + q = y /\ r \in 0 .. 63 /\ \h80 + r = z
      /\ t \in 0 .. 63 /\ \h80 + t = w
  BY <1>2, LowBits
<1>. HIDE DEF p, q, r, t
<1>4. p = 0 => q >= 16
  BY <1>1, <1>2, <1>3, SMT
<1>5. /\ v \in Nat /\ v >= 65536 /\ v \div 262144 = p /\ (v \div 4096) % 64 = q
      /\ (v \div 64) % 64 = r /\ (v \div 1) % 64 = t
  <2>1. PartsOf(v, p, q, r, t)
    BY <1>1, <1>3, FourApart, SMT
  <2>. HIDE DEF v
  <2>. QED BY <1>4, <2>1, SMT DEF PartsOf
<1>. HIDE DEF v
<1>6. u8len(v) = 4
  BY <1>5, SMT DEF u8len
<1>7. u8enc(v) = <<\hF0 + (v \div 262144), \h80 + ((v \div 4096) % 64),
                   \h80 + ((v \div 64) % 64), \h80 + ((v \div 1) % 64)>>
  BY <1>6, SMT DEF u8enc
<1>8. u8enc(v) = <<x, y, z, w>>
  BY <1>1, <1>3, <1>5, <1>7, SMT
<1>. QED BY <1>8, SMT DEF v, p, q, r, t, Joined


LEMMA SecondTrails ==
  ASSUME NEW x \in Lead2, NEW y \in Second(x)
  PROVE  y \in Trail
BY SMT DEF Lead2, Second, Trail

LEMMA DecodedAgain ==
  ASSUME NEW s \in Seq(Byte), NEW m \in 1 .. Len(s), u8dec(s, 0).k = m
  PROVE  u8enc(u8dec(s, 0).cp) = SubSeq(s, 1, m)
<1>. DEFINE b == SubSeq(s, 1, m)
<1>1. m \in 0 .. Len(s) /\ m <= Len(s)
  OBVIOUS
<1>2. b \in Seq(Byte) /\ Len(b) = m /\ \A i \in 1 .. m : b[i] = s[i]
  BY <1>1, PrefixIs
<1>3. WellFormed(s, m)
  BY DecodedIs
<1>4. m \in 1 .. 4
  BY <1>3, SMT DEF WellFormed
<1>5. u8dec(s, 0).cp = ValueOf(s, m - 1, s[1] % LeadBits[m])
  BY <1>1, <1>4, DecodedValue, Zenon
<1>. HIDE DEF b
<1>6. CASE m = 1
  <2>1. s[1] \in Lead1
    BY <1>3, <1>6, SMT DEF WellFormed
  <2>2. u8dec(s, 0).cp = s[1] % 128
    BY <1>5, <1>6, SMT DEF ValueOf, LeadBits
  <2>3. u8enc(u8dec(s, 0).cp) = <<s[1]>>
    BY <2>1, <2>2, AgainOne, SMT
  <2>4. b = <<s[1]>>
    BY <1>2, <1>6
  <2>. QED BY <2>3, <2>4, Zenon DEF b
<1>7. CASE m = 2
  <2>1. s[1] \in Lead2 /\ s[2] \in Second(s[1])
    BY <1>3, <1>7, SMT DEF WellFormed
  <2>5. s[2] \in Trail
    BY <2>1, SecondTrails, Zenon
  <2>2. u8dec(s, 0).cp = (s[1] % 32) * 64 + (s[2] % 64)
    BY <1>5, <1>7, SMT DEF ValueOf, LeadBits
  <2>3. u8enc(u8dec(s, 0).cp) = <<s[1], s[2]>>
    BY <2>1, <2>2, <2>5, AgainTwo, SMT
  <2>4. b = <<s[1], s[2]>>
    BY <1>2, <1>7
  <2>. QED BY <2>3, <2>4, Zenon DEF b
<1>8. CASE m = 3
  <2>1. s[1] \in Lead3 /\ s[2] \in Second(s[1]) /\ s[3] \in Trail
    BY <1>3, <1>8, SMT DEF WellFormed
  <2>2. u8dec(s, 0).cp = ((s[1] % 16) * 64 + (s[2] % 64)) * 64 + (s[3] % 64)
    BY <1>5, <1>8, SMT DEF ValueOf, LeadBits
  <2>3. u8enc(u8dec(s, 0).cp) = <<s[1], s[2], s[3]>>
    BY <2>1, <2>2, AgainThree, SMT
  <2>4. b = <<s[1], s[2], s[3]>>
    BY <1>2, <1>8
  <2>. QED BY <2>3, <2>4, Zenon DEF b
<1>9. CASE m = 4
  <2>1. s[1] \in Lead4 /\ s[2] \in Second(s[1]) /\ s[3] \in Trail /\ s[4] \in Trail
    BY <1>3, <1>9, SMT DEF WellFormed
  <2>2. u8dec(s, 0).cp = (((s[1] % 8) * 64 + (s[2] % 64)) * 64 + (s[3] % 64)) * 64 + (s[4] % 64)
    BY <1>5, <1>9, SMT DEF ValueOf, LeadBits
  <2>3. u8enc(u8dec(s, 0).cp) = <<s[1], s[2], s[3], s[4]>>
    BY <2>1, <2>2, AgainFour, SMT
  <2>4. b = <<s[1], s[2], s[3], s[4]>>
    BY <1>2, <1>9
  <2>. QED BY <2>3, <2>4, Zenon DEF b
<1>. QED BY <1>4, <1>6, <1>7, <1>8, <1>9, SMT

\* The scan of pas_text_validate from offset i on.
ScanStep(s, f, i) ==
  IF i >= Len(s) THEN -1 ELSE IF u8dec(s, i).k = 0 THEN i ELSE f[i + u8dec(s, i).k]
Scan(s) == CHOOSE f : f = [i \in 0 .. Len(s) |-> ScanStep(s, f, i)]

LEMMA ValidateScans ==
  ASSUME NEW s
  PROVE  pas_text_validate(s) = Scan(s)[0]
BY Zenon DEF pas_text_validate, Scan, ScanStep

\* The scan ends: it can be run from the last offset back to the first.
LEMMA ScanExists ==
  ASSUME NEW s \in Seq(Byte)
  PROVE  Scan(s) = [i \in 0 .. Len(s) |-> ScanStep(s, Scan(s), i)]
<1>. DEFINE n == Len(s)
            Runs(m) == \E f : f = [i \in m .. n |-> ScanStep(s, f, i)]
            Stuck == {m \in 0 .. n : ~Runs(m)}
<1>1. n \in Nat
  OBVIOUS
<1>2. \A i \in 0 .. n - 1 : u8dec(s, i).k \in 0 .. 4 /\ i + u8dec(s, i).k <= n
  BY DecodedFits
<1>. HIDE DEF n
<1>3. Runs(n)
  <2>. DEFINE f == [i \in n .. n |-> -1]
  <2>1. \A i \in n .. n : ScanStep(s, f, i) = -1
    BY <1>1 DEF ScanStep, n
  <2>2. f = [i \in n .. n |-> ScanStep(s, f, i)]
    BY <2>1
  <2>. QED BY <2>2
<1>4. ASSUME NEW m \in 0 .. n - 1, Runs(m + 1) PROVE Runs(m)
  <2>1. PICK f : f = [i \in m + 1 .. n |-> ScanStep(s, f, i)]
    BY <1>4
  <2>. DEFINE g == [i \in m .. n |-> IF i = m THEN ScanStep(s, f, m) ELSE f[i]]
  <2>2. ASSUME NEW i \in m .. n PROVE ScanStep(s, g, i) = ScanStep(s, f, i)
    <3>1. CASE i >= n
      BY <3>1 DEF ScanStep, n
    <3>2. CASE i < n /\ u8dec(s, i).k = 0
      BY <3>2 DEF ScanStep, n
    <3>3. CASE i < n /\ u8dec(s, i).k # 0
      <4>1. i \in 0 .. n - 1
        BY <1>1, <3>3
      <4>2. u8dec(s, i).k \in 1 .. 4 /\ i + u8dec(s, i).k <= n
        BY <1>2, <3>3, <4>1
      <4>3. i + u8dec(s, i).k \in m .. n /\ i + u8dec(s, i).k # m
        BY <1>1, <4>1, <4>2
      <4>4. g[i + u8dec(s, i).k] = f[i + u8dec(s, i).k]
        BY <4>3
      <4>. HIDE DEF g
      <4>. QED BY <3>3, <4>4, Zenon DEF ScanStep
    <3>. QED BY <1>1, <3>1, <3>2, <3>3
  <2>3. ASSUME NEW i \in m .. n PROVE g[i] = ScanStep(s, f, i)
    <3>1. CASE i = m
      BY <3>1
    <3>2. CASE i # m
      <4>1. i \in m + 1 .. n
        BY <1>1, <3>2
      <4>2. f[i] = ScanStep(s, f, i)
        BY <2>1, <4>1, Zenon
      <4>. QED BY <3>2, <4>2
    <3>. QED BY <3>1, <3>2
  <2>4. g = [i \in m .. n |-> ScanStep(s, g, i)]
    <3>1. \A i \in m .. n : g[i] = ScanStep(s, g, i)
      BY <2>2, <2>3, Zenon
    <3>2. g = [i \in m .. n |-> g[i]]
      OBVIOUS
    <3>. HIDE DEF g
    <3>. QED BY <3>1, <3>2, Zenon
  <2>. HIDE DEF g
  <2>. QED BY <2>4
<1>. HIDE DEF Runs
<1>5. Stuck = {}
  <2>1. SUFFICES ASSUME Stuck # {} PROVE FALSE
    OBVIOUS
  <2>2. Stuck \subseteq 0 .. n
    OBVIOUS
  <2>3. PICK m \in Stuck : \A y \in Stuck : m >= y
    BY <1>1, <2>1, <2>2, GreatestNatural, Zenon
  <2>4. m # n
    BY <1>3, <2>3
  <2>5. m \in 0 .. n - 1 /\ m + 1 \in 0 .. n /\ ~(m >= m + 1)
    BY <1>1, <2>4
  <2>6. Runs(m + 1)
    BY <2>3, <2>5, Zenon
  <2>7. Runs(m)
    BY <1>4, <2>5, <2>6, Zenon
  <2>. QED BY <2>7
<1>6. Runs(0)
  BY <1>1, <1>5
<1>. QED BY <1>6, Zenon DEF Runs, n, Scan

\* It answers -1, or an offset no earlier than where it began.
LEMMA ScanAhead ==
  ASSUME NEW s \in Seq(Byte), NEW i \in 0 .. Len(s)
  PROVE  Scan(s)[i] = -1 \/ (Scan(s)[i] \in Nat /\ Scan(s)[i] >= i)
<1>. DEFINE n == Len(s)
            f == Scan(s)
            Behind == {j \in 0 .. n : ~(f[j] = -1 \/ (f[j] \in Nat /\ f[j] >= j))}
<1>1. n \in Nat /\ Behind \subseteq 0 .. n
  OBVIOUS
<1>2. \A j \in 0 .. n - 1 : u8dec(s, j).k \in 0 .. 4 /\ j + u8dec(s, j).k <= n
  BY DecodedFits
<1>3. f = [j \in 0 .. n |-> ScanStep(s, f, j)]
  BY ScanExists
<1>. HIDE DEF f
<1>4. \A j \in 0 .. n : f[j] = ScanStep(s, f, j)
  BY <1>3, Zenon
<1>5. ASSUME NEW j \in Behind, \A y \in Behind : j >= y PROVE FALSE
  <2>1. j < n
    BY <1>4 DEF ScanStep
  <2>2. j \in 0 .. n - 1
    BY <1>1, <2>1
  <2>3. u8dec(s, j).k # 0
    BY <1>4, <2>1, <2>2 DEF ScanStep
  <2>. DEFINE k == j + u8dec(s, j).k
  <2>4. f[j] = f[k]
    BY <1>4, <2>1, <2>3 DEF ScanStep
  <2>5. k \in 0 .. n /\ k > j
    BY <1>1, <1>2, <2>2, <2>3
  <2>. HIDE DEF k
  <2>6. k \notin Behind
    BY <1>5, <2>5
  <2>. QED BY <2>4, <2>5, <2>6
<1>. HIDE DEF Behind, n
<1>6. Behind = {}
  BY <1>1, <1>5, GreatestNatural
<1>. QED BY <1>6 DEF Behind, n, f

\* Validation stops at the first byte exactly when no scalar begins there.
LEMMA ValidatesFirst ==
  ASSUME NEW s \in Seq(Byte), s # <<>>
  PROVE  pas_text_validate(s) = 0 <=> u8dec(s, 0).k = 0
<1>. DEFINE f == Scan(s)
            k == u8dec(s, 0).k
<1>1. Len(s) \in Nat /\ Len(s) > 0
  OBVIOUS
<1>2. k \in 0 .. 4 /\ k <= Len(s)
  BY <1>1, DecodedFits
<1>3. f[0] = ScanStep(s, f, 0)
  BY <1>1, ScanExists
<1>4. f[k] = -1 \/ (f[k] \in Nat /\ f[k] >= k)
  BY <1>1, <1>2, ScanAhead
<1>5. pas_text_validate(s) = f[0]
  BY ValidateScans
<1>. HIDE DEF f
<1>6. f[0] = IF k = 0 THEN 0 ELSE f[k]
  BY <1>1, <1>2, <1>3 DEF ScanStep
<1>. HIDE DEF k
<1>7. f[0] = 0 <=> k = 0
  BY <1>2, <1>4, <1>6
<1>. QED BY <1>5, <1>7 DEF k


LEMMA GivenDecodes ==
  ASSUME given \in Seq(Byte)
  PROVE  DecoderIsExact
<1>. DEFINE k == u8dec(given, 0).k
            lengths == {n \in 1 .. Len(given) : IsEncoding(SubSeq(given, 1, n))}
<1>1. SUFFICES ASSUME given # <<>>
               PROVE  /\ k = (IF lengths = {} THEN 0 ELSE Max(lengths))
                      /\ k # 0 => u8enc(u8dec(given, 0).cp) = SubSeq(given, 1, k)
                      /\ (pas_text_validate(given) = 0) = (lengths = {})
  BY Zenon DEF DecoderIsExact
<1>2. k \in 0 .. 4 /\ k <= Len(given) /\ Len(given) \in Nat
  <2>1. Len(given) \in Nat /\ 0 \in 0 .. Len(given) - 1
    BY <1>1
  <2>2. k \in 0 .. 4 /\ 0 + k <= Len(given)
    BY <2>1, DecodedFits
  <2>. HIDE DEF k
  <2>. QED BY <2>1, <2>2
<1>3. \A n \in 1 .. Len(given) : IsEncoding(SubSeq(given, 1, n)) <=> k = n
  BY DecodedIs, EncodingIs, Zenon
<1>4. k # 0 => u8enc(u8dec(given, 0).cp) = SubSeq(given, 1, k)
  <2>1. SUFFICES ASSUME k # 0 PROVE u8enc(u8dec(given, 0).cp) = SubSeq(given, 1, k)
    OBVIOUS
  <2>2. k \in 1 .. Len(given)
    <3>. HIDE DEF k
    <3>. QED BY <1>2, <2>1
  <2>. QED BY <2>2, DecodedAgain, Zenon
<1>5. pas_text_validate(given) = 0 <=> k = 0
  BY <1>1, ValidatesFirst, Zenon
<1>. HIDE DEF k
<1>6. lengths = {n \in 1 .. Len(given) : k = n}
  BY <1>3, Zenon
<1>. HIDE DEF lengths
<1>7. CASE k = 0
  <2>1. lengths = {}
    BY <1>6, <1>7
  <2>. QED BY <1>4, <1>5, <1>7, <2>1, Zenon
<1>8. CASE k # 0
  <2>1. lengths = {k} /\ k >= k
    BY <1>2, <1>6, <1>8
  <2>2. Max(lengths) = k /\ lengths # {}
    BY <2>1, Zenon DEF Max
  <2>. QED BY <1>4, <1>5, <1>8, <2>2, Zenon
<1>. QED BY <1>7, <1>8

\* The bytes a run is given are bytes.
GivenBytes == about = "bytes" => given \in Seq(Byte)

\* Of any bytes, u8dec takes the encoding of a scalar that they begin with, if
\* they begin with one, and nothing otherwise: neither an overlong one, nor a
\* surrogate, nor one past 10FFFF; u8enc gives the same bytes again, and
\* pas_text_validate stops at the first byte exactly when none begins there.
THEOREM DecoderTakesScalars ==
  /\ given \in Seq(Byte) => DecoderIsExact
  /\ Spec => []DecoderIsExact
<1>1. Init => GivenBytes
  <2>1. <<>> \in Seq(Byte)
    OBVIOUS
  <2>. QED BY <2>1, Zenon DEF GivenBytes, Init
<1>2. GivenBytes /\ [Next]_vars => GivenBytes'
  <2>1. SUFFICES ASSUME GivenBytes, [Next]_vars, about' = "bytes"
                 PROVE  given' \in Seq(Byte)
    BY DEF GivenBytes
  <2>2. about = "bytes"
    BY <2>1 DEF Next, vars
  <2>3. given \in Seq(Byte)
    BY <2>1, <2>2 DEF GivenBytes
  <2>4. CASE UNCHANGED vars
    BY <2>3, <2>4 DEF vars
  <2>5. CASE Next
    <3>1. Lengthen(Leads, MaxBytes) \/ Lengthen(Trails, MaxBytes)
      BY <2>2, <2>5, Zenon DEF Next
    <3>2. PICK c \in Leads \cup Trails : given' = Append(given, c)
      BY <3>1, Zenon DEF Lengthen
    <3>3. c \in Byte
      BY SMT DEF Leads, Trails, Byte
    <3>. QED BY <2>3, <3>2, <3>3
  <2>. QED BY <2>1, <2>4, <2>5
<1>3. GivenBytes => DecoderIsExact
  <2>1. about = "bytes" => (GivenBytes => DecoderIsExact)
    BY GivenDecodes, Zenon DEF GivenBytes
  <2>2. about # "bytes" => DecoderIsExact
    BY Zenon DEF DecoderIsExact
  <2>. QED BY <2>1, <2>2
<1>4. Spec => []DecoderIsExact
  BY <1>1, <1>2, <1>3, PTL DEF Spec
<1>. QED BY <1>4, GivenDecodes


-----------------------------------------------------------------------------
(* The buffer of a writestr.                                               *)

LEMMA LargerIs ==
  ASSUME NEW a \in Int, NEW b \in Int
  PROVE  Num!Max({a, b}) = IF a >= b THEN a ELSE b
<1>1. CASE a >= b
  <2>1. \A x \in {a, b} : (\A y \in {a, b} : x >= y) => x = a
    BY <1>1
  <2>2. a \in {a, b} /\ \A y \in {a, b} : a >= y
    BY <1>1
  <2>3. Num!Max({a, b}) \in {a, b} /\ \A y \in {a, b} : Num!Max({a, b}) >= y
    BY <2>2, Zenon DEF Num!Max
  <2>. QED BY <1>1, <2>1, <2>3
<1>2. CASE ~(a >= b)
  <2>1. \A x \in {a, b} : (\A y \in {a, b} : x >= y) => x = b
    BY <1>2
  <2>2. b \in {a, b} /\ \A y \in {a, b} : b >= y
    BY <1>2
  <2>3. Num!Max({a, b}) \in {a, b} /\ \A y \in {a, b} : Num!Max({a, b}) >= y
    BY <2>2, Zenon DEF Num!Max
  <2>. QED BY <1>2, <2>1, <2>3
<1>. QED BY <1>1, <1>2

\* A buffer of c bytes, doubled until want fit.
GrowStep(want, f, c) == IF c < want THEN f[c * 2] ELSE c
Grow(want) == CHOOSE f : f = [c \in Nat |-> GrowStep(want, f, c)]

LEMMA RoomGrows ==
  ASSUME NEW cap, NEW len, NEW n
  PROVE  Num!pas_mem_room(cap, len, n) =
           IF len + n + 1 <= cap THEN cap ELSE Grow(len + n + 1)[Num!Max({cap, FirstRoom})]
BY Zenon DEF Num!pas_mem_room, Grow, GrowStep

\* Doubling ends, as long as there is something to double.
LEMMA GrowExists ==
  ASSUME NEW want \in Nat, want > 0
  PROVE  Grow(want) = [c \in Nat |-> GrowStep(want, Grow(want), c)]
<1>. DEFINE From(m) == {c \in Nat : c >= m}
            Grows(m) == \E f : f = [c \in From(m) |-> GrowStep(want, f, c)]
            Stuck == {m \in 1 .. want : ~Grows(m)}
<1>1. Grows(want)
  <2>. DEFINE f == [c \in From(want) |-> c]
  <2>1. \A c \in From(want) : GrowStep(want, f, c) = c
    BY DEF GrowStep
  <2>2. f = [c \in From(want) |-> GrowStep(want, f, c)]
    BY <2>1, Zenon
  <2>. QED BY <2>2
<1>2. ASSUME NEW m \in 1 .. want - 1, Grows(m + 1) PROVE Grows(m)
  <2>1. PICK f : f = [c \in From(m + 1) |-> GrowStep(want, f, c)]
    BY <1>2
  <2>. DEFINE g == [c \in From(m) |-> IF c = m THEN GrowStep(want, f, m) ELSE f[c]]
  <2>2. ASSUME NEW c \in From(m) PROVE GrowStep(want, g, c) = GrowStep(want, f, c)
    <3>1. c * 2 \in From(m) /\ c * 2 # m
      OBVIOUS
    <3>2. g[c * 2] = f[c * 2]
      BY <3>1
    <3>. HIDE DEF g
    <3>. QED BY <3>2, Zenon DEF GrowStep
  <2>3. ASSUME NEW c \in From(m) PROVE g[c] = GrowStep(want, f, c)
    <3>1. CASE c = m
      BY <3>1
    <3>2. CASE c # m
      <4>1. c \in From(m + 1)
        BY <3>2
      <4>2. f[c] = GrowStep(want, f, c)
        BY <2>1, <4>1, Zenon
      <4>3. g[c] = f[c]
        BY <3>2
      <4>. QED BY <4>2, <4>3, Zenon
    <3>. QED BY <3>1, <3>2
  <2>4. g = [c \in From(m) |-> GrowStep(want, g, c)]
    <3>1. \A c \in From(m) : g[c] = GrowStep(want, g, c)
      BY <2>2, <2>3, Zenon
    <3>2. g = [c \in From(m) |-> g[c]]
      BY Zenon
    <3>. HIDE DEF g
    <3>. QED BY <3>1, <3>2, Zenon
  <2>. HIDE DEF g
  <2>. QED BY <2>4
<1>3. Stuck = {}
  <2>. HIDE DEF Grows
  <2>1. SUFFICES ASSUME Stuck # {} PROVE FALSE
    OBVIOUS
  <2>2. Stuck \subseteq 0 .. want
    OBVIOUS
  <2>3. PICK m \in Stuck : \A y \in Stuck : m >= y
    BY <2>1, <2>2, GreatestNatural, Zenon
  <2>4. m # want
    BY <1>1, <2>3
  <2>5. m \in 1 .. want - 1 /\ m + 1 \in 1 .. want /\ ~(m >= m + 1)
    BY <2>4
  <2>6. Grows(m + 1)
    BY <2>3, <2>5, Zenon
  <2>7. Grows(m)
    BY <1>2, <2>5, <2>6, Zenon
  <2>. QED BY <2>7
<1>4. Grows(1)
  <2>. HIDE DEF Grows
  <2>. QED BY <1>3
<1>5. PICK f : f = [c \in From(1) |-> GrowStep(want, f, c)]
  BY <1>4
<1>. DEFINE g == [c \in Nat |-> IF c = 0 THEN 0 ELSE f[c]]
<1>6. ASSUME NEW c \in Nat PROVE g[c] = GrowStep(want, g, c)
  <2>1. CASE c = 0
    <3>1. g[0] = 0 /\ c * 2 = 0
      BY <2>1
    <3>. QED BY <2>1, <3>1 DEF GrowStep
  <2>2. CASE c # 0
    <3>1. c \in From(1) /\ c * 2 \in Nat /\ c * 2 # 0
      BY <2>2
    <3>2. g[c] = f[c] /\ g[c * 2] = f[c * 2]
      BY <2>2, <3>1
    <3>3. f[c] = GrowStep(want, f, c)
      BY <1>5, <3>1, Zenon
    <3>. HIDE DEF g
    <3>. QED BY <3>2, <3>3, Zenon DEF GrowStep
  <2>. QED BY <2>1, <2>2
<1>7. g = [c \in Nat |-> GrowStep(want, g, c)]
  <2>1. g = [c \in Nat |-> g[c]]
    BY Zenon
  <2>. HIDE DEF g
  <2>. QED BY <1>6, <2>1, Zenon
<1>. HIDE DEF g
<1>. QED BY <1>7, Zenon DEF Grow

LEMMA GrowsEnough ==
  ASSUME NEW want \in Nat, want > 0, NEW c \in Nat, c > 0
  PROVE  Grow(want)[c] \in Nat /\ Grow(want)[c] >= want
<1>. DEFINE f == Grow(want)
            Small == {d \in 1 .. want : ~(f[d] \in Nat /\ f[d] >= want)}
<1>1. f = [d \in Nat |-> GrowStep(want, f, d)]
  BY GrowExists
<1>. HIDE DEF f
<1>2. \A d \in Nat : f[d] = GrowStep(want, f, d)
  BY <1>1, Zenon
<1>3. \A d \in Nat : d >= want => f[d] = d
  BY <1>2 DEF GrowStep
<1>4. \A d \in Nat : d < want => f[d] = f[d * 2]
  BY <1>2 DEF GrowStep
<1>5. ASSUME NEW d \in Small, \A y \in Small : d >= y PROVE FALSE
  <2>1. d \in 1 .. want /\ ~(f[d] \in Nat /\ f[d] >= want)
    OBVIOUS
  <2>2. d < want
    BY <1>3, <2>1
  <2>3. f[d] = f[d * 2] /\ d * 2 \in Nat /\ d * 2 > d
    BY <1>4, <2>1, <2>2
  <2>4. d * 2 \notin Small
    BY <1>5, <2>1, <2>3
  <2>5. d * 2 >= want
    BY <2>1, <2>3, <2>4
  <2>6. f[d * 2] = d * 2
    BY <1>3, <2>3, <2>5
  <2>. QED BY <2>1, <2>3, <2>5, <2>6
<1>6. Small = {}
  <2>1. Small \subseteq 0 .. want
    OBVIOUS
  <2>. HIDE DEF Small
  <2>. QED BY <1>5, <2>1, GreatestNatural, Zenon
<1>7. CASE c >= want
  BY <1>3, <1>7 DEF f
<1>8. CASE c < want
  BY <1>6, <1>8 DEF f
<1>. QED BY <1>7, <1>8

\* There is room for n bytes more and the NUL after them.
LEMMA RoomIsEnough ==
  ASSUME NEW cap \in Nat, NEW len \in Nat, NEW n \in Nat
  PROVE  /\ Num!pas_mem_room(cap, len, n) \in Nat
         /\ Num!pas_mem_room(cap, len, n) >= len + n + 1
<1>. DEFINE want == len + n + 1
            c == Num!Max({cap, FirstRoom})
<1>1. want \in Nat /\ want > 0
  OBVIOUS
<1>2. c \in Nat /\ c > 0
  <2>1. FirstRoom \in Nat /\ FirstRoom > 0
    BY ValuesAssumption
  <2>2. c = IF cap >= FirstRoom THEN cap ELSE FirstRoom
    BY <2>1, LargerIs
  <2>. QED BY <2>1, <2>2
<1>. HIDE DEF want, c
<1>3. Grow(want)[c] \in Nat /\ Grow(want)[c] >= want
  BY <1>1, <1>2, GrowsEnough
<1>4. Num!pas_mem_room(cap, len, n) = IF want <= cap THEN cap ELSE Grow(want)[c]
  BY RoomGrows, Zenon DEF want, c
<1>. QED BY <1>1, <1>3, <1>4 DEF want

\* A function of 0 .. n can be defined by what it is at 0 and how each value
\* comes from the one before.
Iterable(n, U, a, F) ==
  \E f \in [0 .. n -> U] : f[0] = a /\ \A j \in 1 .. n : f[j] = F[j][f[j - 1]]
LEMMA Iterates ==
  ASSUME NEW n \in Nat, NEW U, NEW a \in U, NEW F \in [1 .. n -> [U -> U]]
  PROVE  Iterable(n, U, a, F)
<1>. DEFINE Runs(m) ==
              \E f \in [0 .. m -> U] : f[0] = a /\ \A j \in 1 .. m : f[j] = F[j][f[j - 1]]
            Stuck == {m \in 0 .. n : ~Runs(m)}
<1>1. Runs(0)
  <2>. DEFINE f == [j \in 0 .. 0 |-> a]
  <2>1. f \in [0 .. 0 -> U] /\ f[0] = a /\ \A j \in 1 .. 0 : FALSE
    OBVIOUS
  <2>. HIDE DEF f
  <2>. QED BY <2>1
<1>2. ASSUME NEW m \in 1 .. n, Runs(m - 1) PROVE Runs(m)
  <2>1. PICK f \in [0 .. m - 1 -> U] :
          f[0] = a /\ \A j \in 1 .. m - 1 : f[j] = F[j][f[j - 1]]
    BY <1>2
  <2>. DEFINE g == [j \in 0 .. m |-> IF j = m THEN F[m][f[m - 1]] ELSE f[j]]
  <2>2. F[m] \in [U -> U] /\ f[m - 1] \in U
    OBVIOUS
  <2>3. F[m][f[m - 1]] \in U
    BY <2>2
  <2>4. g \in [0 .. m -> U] /\ g[0] = a
    BY <2>1, <2>3
  <2>5. ASSUME NEW j \in 1 .. m PROVE g[j] = F[j][g[j - 1]]
    <3>1. g[j - 1] = f[j - 1]
      OBVIOUS
    <3>2. CASE j = m
      BY <3>1, <3>2
    <3>3. CASE j # m
      <4>1. j \in 1 .. m - 1 /\ g[j] = f[j]
        BY <3>3
      <4>. QED BY <2>1, <3>1, <4>1
    <3>. QED BY <3>2, <3>3
  <2>. HIDE DEF g
  <2>. QED BY <2>4, <2>5
<1>. HIDE DEF Runs
<1>3. Stuck = {}
  <2>1. SUFFICES ASSUME Stuck # {} PROVE FALSE
    OBVIOUS
  <2>2. Stuck \subseteq Nat
    OBVIOUS
  <2>3. PICK m \in Stuck : \A y \in Stuck : m <= y
    BY <2>1, <2>2, LeastNatural
  <2>4. m # 0
    BY <1>1, <2>3
  <2>5. m \in 1 .. n /\ m - 1 \in 0 .. n /\ ~(m <= m - 1)
    BY <2>4
  <2>6. Runs(m - 1)
    BY <2>3, <2>5, Zenon
  <2>. QED BY <1>2, <2>5, <2>6, Zenon
<1>4. Runs(n)
  BY <1>3
<1>. QED BY <1>4, Zenon DEF Runs, Iterable

\* What is so at 0, and after each step, is so everywhere.
LEMMA Climbs ==
  ASSUME NEW n \in Nat, NEW S, NEW g, g[0] \in S[0],
         \A j \in 1 .. n : g[j - 1] \in S[j - 1] => g[j] \in S[j]
  PROVE  \A j \in 0 .. n : g[j] \in S[j]
<1>. DEFINE Falls == {j \in 0 .. n : g[j] \notin S[j]}
<1>1. SUFFICES ASSUME Falls # {} PROVE FALSE
  OBVIOUS
<1>2. Falls \subseteq Nat
  OBVIOUS
<1>3. PICK j \in Falls : \A y \in Falls : j <= y
  BY <1>1, <1>2, LeastNatural
<1>4. j \in 1 .. n /\ j - 1 \in 0 .. n /\ ~(j <= j - 1)
  BY <1>3
<1>5. g[j - 1] \in S[j - 1]
  BY <1>3, <1>4
<1>. QED BY <1>4, <1>5

Mem == [to : [cap : Nat, len : Nat, nul : Nat], ok : BOOLEAN]

LEMMA StoredIs ==
  ASSUME NEW mem \in Mem, NEW n \in Nat
  PROVE  /\ Stored(mem, n) \in Mem /\ (mem.ok => Stored(mem, n).ok)
         /\ Stored(mem, n).to.len = mem.to.len + n
<1>. DEFINE to == Num!pas_swrite(mem.to, n)
            room == Num!pas_mem_room(mem.to.cap, mem.to.len, n)
<1>1. mem.to \in [cap : Nat, len : Nat, nul : Nat] /\ mem.ok \in BOOLEAN
  BY DEF Mem
<1>2. mem.to.cap \in Nat /\ mem.to.len \in Nat
  BY <1>1
<1>3. room \in Nat /\ room >= mem.to.len + n + 1
  BY <1>2, RoomIsEnough
<1>4. to = [cap |-> room, len |-> mem.to.len + n, nul |-> mem.to.len + n + 1]
  BY Zenon DEF Num!pas_swrite
<1>5. Stored(mem, n) = [to |-> to, ok |-> mem.ok /\ to.nul <= to.cap]
  BY Zenon DEF Stored
<1>. HIDE DEF to, room
<1>6. to \in [cap : Nat, len : Nat, nul : Nat] /\ to.len = mem.to.len + n /\ to.nul <= to.cap
  BY <1>2, <1>3, <1>4
<1>7. [to |-> to, ok |-> mem.ok /\ to.nul <= to.cap] = [to |-> to, ok |-> mem.ok]
  BY <1>1, <1>6, Zenon
<1>. QED BY <1>1, <1>5, <1>6, <1>7 DEF Mem

SpaceStep(mem, f, j) == IF j = 0 THEN mem ELSE Stored(f[j - 1], 1)
SpacesOf(mem, p) == CHOOSE f : f = [j \in 0 .. p |-> SpaceStep(mem, f, j)]

LEMMA SpacesExist ==
  ASSUME NEW mem \in Mem, NEW p \in Nat
  PROVE  SpacesOf(mem, p) = [j \in 0 .. p |-> SpaceStep(mem, SpacesOf(mem, p), j)]
<1>. DEFINE one == [x \in Mem |-> Stored(x, 1)]
            F == [j \in 1 .. p |-> one]
<1>1. one \in [Mem -> Mem]
  BY StoredIs
<1>2. F \in [1 .. p -> [Mem -> Mem]]
  BY <1>1, Zenon
<1>. HIDE DEF F
<1>6. Iterable(p, Mem, mem, F)
  BY <1>2, Iterates, Zenon
<1>3. PICK f \in [0 .. p -> Mem] : f[0] = mem /\ \A j \in 1 .. p : f[j] = F[j][f[j - 1]]
  BY <1>6, Zenon DEF Iterable
<1>4. ASSUME NEW j \in 0 .. p PROVE f[j] = SpaceStep(mem, f, j)
  <2>1. CASE j = 0
    BY <1>3, <2>1 DEF SpaceStep
  <2>2. CASE j # 0
    <3>1. j \in 1 .. p /\ j - 1 \in 0 .. p
      BY <2>2
    <3>2. f[j - 1] \in Mem
      BY <3>1
    <3>3. f[j] = Stored(f[j - 1], 1)
      BY <1>3, <3>1, <3>2, Zenon DEF F
    <3>. QED BY <2>2, <3>3, Zenon DEF SpaceStep
  <2>. QED BY <2>1, <2>2
<1>5. f = [j \in 0 .. p |-> SpaceStep(mem, f, j)]
  <2>1. f = [j \in 0 .. p |-> f[j]]
    OBVIOUS
  <2>. QED BY <1>4, <2>1, Zenon
<1>. QED BY <1>5, Zenon DEF SpacesOf

\* After its spaces and its characters a value is as long as both.
LEMMA PutIs ==
  ASSUME NEW mem \in Mem, mem.ok, NEW w, w.pad \in Nat, w.chars \in Nat
  PROVE  /\ Put(mem, w) \in Mem /\ Put(mem, w).ok
         /\ Put(mem, w).to.len = mem.to.len + w.pad + w.chars
<1>. DEFINE p == w.pad
            g == SpacesOf(mem, p)
            S == [j \in 0 .. p |-> {x \in Mem : x.ok /\ x.to.len = mem.to.len + j}]
<1>1. g = [j \in 0 .. p |-> SpaceStep(mem, g, j)]
  BY SpacesExist
<1>2. Put(mem, w) = Stored(g[p], w.chars)
  BY Zenon DEF Put, SpacesOf, SpaceStep
<1>. HIDE DEF g
<1>3. \A j \in 0 .. p : g[j] = SpaceStep(mem, g, j)
  BY <1>1, Zenon
<1>4. mem.to.len \in Nat
  BY DEF Mem
<1>. HIDE DEF p
<1>5. p \in Nat
  BY DEF p
<1>6. g[0] = mem
  BY <1>3, <1>5 DEF SpaceStep
<1>7. g[0] \in S[0]
  BY <1>4, <1>5, <1>6
<1>8. ASSUME NEW j \in 1 .. p, g[j - 1] \in S[j - 1] PROVE g[j] \in S[j]
  <2>1. j \in 0 .. p /\ j - 1 \in 0 .. p /\ j # 0
    BY <1>5
  <2>2. g[j - 1] \in Mem /\ g[j - 1].ok /\ g[j - 1].to.len = mem.to.len + (j - 1)
    BY <1>8, <2>1
  <2>3. g[j] = Stored(g[j - 1], 1)
    BY <1>3, <2>1, Zenon DEF SpaceStep
  <2>6. 1 \in Nat
    OBVIOUS
  <2>7. /\ Stored(g[j - 1], 1) \in Mem /\ Stored(g[j - 1], 1).ok
        /\ Stored(g[j - 1], 1).to.len = g[j - 1].to.len + 1
    BY <2>2, <2>6, StoredIs, Zenon
  <2>4. g[j] \in Mem /\ g[j].ok /\ g[j].to.len = mem.to.len + (j - 1) + 1
    BY <2>2, <2>3, <2>7, Zenon
  <2>5. mem.to.len + (j - 1) + 1 = mem.to.len + j
    BY <1>4
  <2>. QED BY <2>1, <2>4, <2>5
<1>9. \A j \in 0 .. p : g[j] \in S[j]
  <2>. HIDE DEF S
  <2>. QED BY <1>5, <1>7, <1>8, Climbs, Zenon
<1>10. g[p] \in Mem /\ g[p].ok /\ g[p].to.len = mem.to.len + p
  BY <1>5, <1>9
<1>11. /\ Stored(g[p], w.chars) \in Mem /\ Stored(g[p], w.chars).ok
       /\ Stored(g[p], w.chars).to.len = mem.to.len + p + w.chars
  <2>1. /\ Stored(g[p], w.chars) \in Mem /\ Stored(g[p], w.chars).ok
        /\ Stored(g[p], w.chars).to.len = g[p].to.len + w.chars
    BY <1>10, StoredIs, Zenon
  <2>. QED BY <1>10, <2>1, Zenon
<1>. QED BY <1>2, <1>11, Zenon DEF p


LEMMA PaddedIs ==
  ASSUME NEW len \in Nat, NEW width \in Int
  PROVE  LET w == Num!pas_write_padded(len, width)
         IN /\ w.pad \in Nat /\ w.chars \in Nat
            /\ w.pad + w.chars = IF width < 0 THEN len ELSE width
BY DEF Num!pas_write_padded

\* A value is written as wide as it should be.
LEMMA ValueIs ==
  ASSUME NEW n \in Nat, NEW width \in Int
  PROVE  /\ Value(n, width).pad \in Nat /\ Value(n, width).chars \in Nat
         /\ Value(n, width).pad + Value(n, width).chars = Wide(n, width)
         /\ Wide(n, width) \in Nat
<1>. DEFINE w == Value(n, width)
<1>0. Wide(n, width) \in Nat
  BY DEF Wide
<1>1. CASE n = 1
  <2>1. w = Num!pas_write_char(width)
    BY <1>1, Zenon DEF Value
  <2>2. Num!Max({1, width}) = IF 1 >= width THEN 1 ELSE width
    BY LargerIs
  <2>. HIDE DEF w
  <2>3. w = [pad |-> 0, chars |-> IF width = 0 THEN 0 ELSE IF 1 >= width THEN 1 ELSE width]
    BY <2>1, <2>2, Zenon DEF Num!pas_write_char
  <2>4. w.pad \in Nat /\ w.chars \in Nat /\ w.pad + w.chars = Wide(n, width)
    BY <1>1, <2>3 DEF Wide
  <2>. QED BY <1>0, <2>4 DEF w
<1>2. CASE n = 3
  <2>1. w = Num!pas_write_int(n, width)
    BY <1>2 DEF Value
  <2>2. Num!Max({n, width}) = IF n >= width THEN n ELSE width
    BY LargerIs
  <2>. HIDE DEF w
  <2>3. w = [pad |-> 0, chars |-> IF n >= width THEN n ELSE width]
    BY <2>1, <2>2, Zenon DEF Num!pas_write_int
  <2>4. w.pad \in Nat /\ w.chars \in Nat /\ w.pad + w.chars = Wide(n, width)
    BY <1>2, <2>3 DEF Wide
  <2>. QED BY <1>0, <2>4 DEF w
<1>3. CASE n # 1 /\ n # 3
  <2>1. w = Num!pas_write_padded(n, width)
    BY <1>3 DEF Value, Num!pas_write_bool
  <2>2. /\ Num!pas_write_padded(n, width).pad \in Nat /\ Num!pas_write_padded(n, width).chars \in Nat
        /\ Num!pas_write_padded(n, width).pad + Num!pas_write_padded(n, width).chars
             = IF width < 0 THEN n ELSE width
    BY PaddedIs
  <2>3. Wide(n, width) = IF width < 0 THEN n ELSE width
    BY <1>3 DEF Wide
  <2>. HIDE DEF w
  <2>4. w.pad \in Nat /\ w.chars \in Nat /\ w.pad + w.chars = Wide(n, width)
    BY <2>1, <2>2, <2>3, Zenon
  <2>. QED BY <1>0, <2>4 DEF w
<1>. QED BY <1>1, <1>2, <1>3

GoodMem == {x \in Mem : x.ok}
WidthOf(width, i) == IF i % 2 = 0 THEN width ELSE -1
WriteStep(width, f, i) ==
  IF i = 0 THEN Fresh ELSE Put(f[i - 1], Value(given[i], WidthOf(width, i)))
WrittenOf(width) == CHOOSE f : f = [i \in 0 .. Len(given) |-> WriteStep(width, f, i)]
TotalStep(width, f, i) ==
  IF i = 0 THEN 0 ELSE f[i - 1] + Wide(given[i], WidthOf(width, i))
TotalOf(width) == CHOOSE f : f = [i \in 0 .. Len(given) |-> TotalStep(width, f, i)]

LEMMA GivenValue ==
  ASSUME given \in Seq(Nat), NEW width \in Int, NEW i \in 1 .. Len(given)
  PROVE  LET w == Value(given[i], WidthOf(width, i))
         IN /\ w.pad \in Nat /\ w.chars \in Nat
            /\ w.pad + w.chars = Wide(given[i], WidthOf(width, i))
            /\ Wide(given[i], WidthOf(width, i)) \in Nat
<1>1. given[i] \in Nat /\ WidthOf(width, i) \in Int
  BY DEF WidthOf
<1>. QED BY <1>1, ValueIs, Zenon

LEMMA WrittenExists ==
  ASSUME given \in Seq(Nat), NEW width \in Int
  PROVE  WrittenOf(width) = [i \in 0 .. Len(given) |-> WriteStep(width, WrittenOf(width), i)]
<1>. DEFINE n == Len(given)
            One(i) == [x \in GoodMem |-> Put(x, Value(given[i], WidthOf(width, i)))]
            F == [i \in 1 .. n |-> One(i)]
<1>1. n \in Nat
  OBVIOUS
<1>2. ASSUME NEW i \in 1 .. n, NEW x \in GoodMem
      PROVE  Put(x, Value(given[i], WidthOf(width, i))) \in GoodMem
  <2>. DEFINE w == Value(given[i], WidthOf(width, i))
  <2>1. w.pad \in Nat /\ w.chars \in Nat
    BY GivenValue, Zenon
  <2>2. x \in Mem /\ x.ok
    BY Zenon DEF GoodMem
  <2>. HIDE DEF w
  <2>3. Put(x, w) \in Mem /\ Put(x, w).ok
    BY <2>1, <2>2, PutIs, Zenon
  <2>. QED BY <2>3, Zenon DEF GoodMem, w
<1>3. F \in [1 .. n -> [GoodMem -> GoodMem]]
  BY <1>2, Zenon
<1>4. Fresh \in GoodMem
  BY DEF Fresh, GoodMem, Mem, Num!pas_str_write_begin
<1>. HIDE DEF F, n
<1>5. Iterable(n, GoodMem, Fresh, F)
  BY <1>1, <1>3, <1>4, Iterates, Zenon
<1>6. PICK f \in [0 .. n -> GoodMem] : f[0] = Fresh /\ \A j \in 1 .. n : f[j] = F[j][f[j - 1]]
  BY <1>5, Zenon DEF Iterable
<1>7. ASSUME NEW j \in 0 .. n PROVE f[j] = WriteStep(width, f, j)
  <2>1. CASE j = 0
    BY <1>6, <2>1, Zenon DEF WriteStep
  <2>2. CASE j # 0
    <3>1. j \in 1 .. n /\ j - 1 \in 0 .. n
      BY <1>1, <2>2
    <3>2. f[j - 1] \in GoodMem
      BY <3>1
    <3>3. f[j] = Put(f[j - 1], Value(given[j], WidthOf(width, j)))
      BY <1>6, <3>1, <3>2, Zenon DEF F
    <3>. QED BY <2>2, <3>3, Zenon DEF WriteStep
  <2>. QED BY <2>1, <2>2
<1>8. f = [j \in 0 .. n |-> WriteStep(width, f, j)]
  <2>1. f = [j \in 0 .. n |-> f[j]]
    OBVIOUS
  <2>. QED BY <1>7, <2>1, Zenon
<1>. QED BY <1>8, Zenon DEF WrittenOf, n

LEMMA TotalExists ==
  ASSUME given \in Seq(Nat), NEW width \in Int
  PROVE  TotalOf(width) = [i \in 0 .. Len(given) |-> TotalStep(width, TotalOf(width), i)]
<1>. DEFINE n == Len(given)
            One(i) == [x \in Nat |-> x + Wide(given[i], WidthOf(width, i))]
            F == [i \in 1 .. n |-> One(i)]
<1>1. n \in Nat /\ 0 \in Nat
  OBVIOUS
<1>2. ASSUME NEW i \in 1 .. n, NEW x \in Nat
      PROVE  x + Wide(given[i], WidthOf(width, i)) \in Nat
  <2>1. Wide(given[i], WidthOf(width, i)) \in Nat
    BY GivenValue, Zenon
  <2>. QED BY <2>1
<1>3. F \in [1 .. n -> [Nat -> Nat]]
  BY <1>2, Zenon
<1>. HIDE DEF F, n
<1>5. Iterable(n, Nat, 0, F)
  BY <1>1, <1>3, Iterates, Zenon
<1>6. PICK f \in [0 .. n -> Nat] : f[0] = 0 /\ \A j \in 1 .. n : f[j] = F[j][f[j - 1]]
  BY <1>5, Zenon DEF Iterable
<1>7. ASSUME NEW j \in 0 .. n PROVE f[j] = TotalStep(width, f, j)
  <2>1. CASE j = 0
    BY <1>6, <2>1, Zenon DEF TotalStep
  <2>2. CASE j # 0
    <3>1. j \in 1 .. n /\ j - 1 \in 0 .. n
      BY <1>1, <2>2
    <3>2. f[j - 1] \in Nat
      BY <3>1
    <3>3. f[j] = f[j - 1] + Wide(given[j], WidthOf(width, j))
      BY <1>6, <3>1, <3>2, Zenon DEF F
    <3>. QED BY <2>2, <3>3, Zenon DEF TotalStep
  <2>. QED BY <2>1, <2>2
<1>8. f = [j \in 0 .. n |-> TotalStep(width, f, j)]
  <2>1. f = [j \in 0 .. n |-> f[j]]
    OBVIOUS
  <2>. QED BY <1>7, <2>1, Zenon
<1>. QED BY <1>8, Zenon DEF TotalOf, n

\* After i values the stores were all inside the buffer, and it holds them.
LEMMA WrittenFits ==
  ASSUME given \in Seq(Nat), NEW width \in Int
  PROVE  /\ WrittenOf(width)[Len(given)].ok
         /\ WrittenOf(width)[Len(given)].to.len = TotalOf(width)[Len(given)]
<1>. DEFINE n == Len(given)
            g == WrittenOf(width)
            t == TotalOf(width)
            S == [i \in 0 .. n |-> {x \in GoodMem : t[i] \in Nat /\ x.to.len = t[i]}]
<1>1. n \in Nat
  OBVIOUS
<1>2. g = [i \in 0 .. n |-> WriteStep(width, g, i)]
  BY WrittenExists, Zenon
<1>3. t = [i \in 0 .. n |-> TotalStep(width, t, i)]
  BY TotalExists, Zenon
<1>. HIDE DEF g, t
<1>4. \A i \in 0 .. n : g[i] = WriteStep(width, g, i) /\ t[i] = TotalStep(width, t, i)
  BY <1>2, <1>3, Zenon
<1>5. g[0] = Fresh /\ t[0] = 0
  <2>1. 0 \in 0 .. n
    BY <1>1
  <2>. QED BY <1>4, <2>1, Zenon DEF WriteStep, TotalStep
<1>6. g[0] \in S[0]
  <2>1. Fresh \in GoodMem /\ Fresh.to.len = 0 /\ 0 \in 0 .. n
    BY <1>1 DEF Fresh, GoodMem, Mem, Num!pas_str_write_begin
  <2>. QED BY <1>5, <2>1
<1>7. ASSUME NEW i \in 1 .. n, g[i - 1] \in S[i - 1] PROVE g[i] \in S[i]
  <2>. DEFINE w == Value(given[i], WidthOf(width, i))
              x == g[i - 1]
  <2>1. i \in 0 .. n /\ i - 1 \in 0 .. n /\ i # 0
    BY <1>1
  <2>2. x \in GoodMem /\ t[i - 1] \in Nat /\ x.to.len = t[i - 1]
    BY <1>7, <2>1
  <2>3. g[i] = Put(x, w) /\ t[i] = t[i - 1] + Wide(given[i], WidthOf(width, i))
    BY <1>4, <2>1, Zenon DEF WriteStep, TotalStep
  <2>4. /\ w.pad \in Nat /\ w.chars \in Nat
        /\ w.pad + w.chars = Wide(given[i], WidthOf(width, i))
    BY GivenValue, Zenon
  <2>. HIDE DEF w, x
  <2>5. x \in Mem /\ x.ok
    BY <2>2, Zenon DEF GoodMem
  <2>6. Put(x, w) \in Mem /\ Put(x, w).ok /\ Put(x, w).to.len = x.to.len + w.pad + w.chars
    BY <2>4, <2>5, PutIs, Zenon
  <2>7. Put(x, w).to.len = t[i] /\ t[i] \in Nat
    BY <2>2, <2>3, <2>4, <2>6, SMTT(60)
  <2>8. g[i] \in GoodMem /\ g[i].to.len = t[i]
    BY <2>3, <2>6, <2>7, Zenon DEF GoodMem
  <2>. QED BY <2>1, <2>7, <2>8
<1>8. \A i \in 0 .. n : g[i] \in S[i]
  <2>. HIDE DEF S, n
  <2>. QED BY <1>1, <1>6, <1>7, Climbs, Zenon
<1>9. n \in 0 .. n
  BY <1>1
<1>10. g[n] \in GoodMem /\ g[n].to.len = t[n]
  BY <1>8, <1>9
<1>. QED BY <1>10, Zenon DEF GoodMem, g, t

LEMMA GivenFits ==
  ASSUME given \in Seq(Nat)
  PROVE  WritestrFits
<1>1. ASSUME NEW width \in {-1, 0, 3, 4}
      PROVE  LET Width(i) == IF i % 2 = 0 THEN width ELSE -1
                 Written[i \in 0 .. Len(given)] ==
                   IF i = 0 THEN Fresh ELSE Put(Written[i - 1], Value(given[i], Width(i)))
                 Total[i \in 0 .. Len(given)] ==
                   IF i = 0 THEN 0 ELSE Total[i - 1] + Wide(given[i], Width(i))
             IN /\ Written[Len(given)].ok
                /\ Written[Len(given)].to.len = Total[Len(given)]
  <2>1. width \in Int
    OBVIOUS
  <2>2. /\ WrittenOf(width)[Len(given)].ok
        /\ WrittenOf(width)[Len(given)].to.len = TotalOf(width)[Len(given)]
    BY <2>1, WrittenFits, Zenon
  <2>. QED BY <2>2, Zenon DEF WrittenOf, WriteStep, TotalOf, TotalStep, WidthOf
<1>. QED BY <1>1, Zenon DEF WritestrFits

\* The lengths a run is given are naturals.
GivenLengths == about = "writes" => given \in Seq(Nat)

\* Whatever the number, the order and the lengths of the values of a writestr,
\* each store into its buffer is inside it, the NUL included, and the buffer
\* ends holding what the values and their widths say (pas_mem_room doubles until
\* they fit, pas_swrite).
THEOREM WritesFit ==
  /\ given \in Seq(Nat) => WritestrFits
  /\ Spec => []WritestrFits
<1>1. Init => GivenLengths
  <2>1. <<>> \in Seq(Nat)
    OBVIOUS
  <2>. QED BY <2>1, Zenon DEF GivenLengths, Init
<1>2. GivenLengths /\ [Next]_vars => GivenLengths'
  <2>1. SUFFICES ASSUME GivenLengths, [Next]_vars, about' = "writes"
                 PROVE  given' \in Seq(Nat)
    BY DEF GivenLengths
  <2>2. about = "writes"
    BY <2>1 DEF Next, vars
  <2>3. given \in Seq(Nat)
    BY <2>1, <2>2 DEF GivenLengths
  <2>4. CASE UNCHANGED vars
    BY <2>3, <2>4 DEF vars
  <2>5. CASE Next
    <3>1. Lengthen(0 .. 5, MaxDigits)
      BY <2>2, <2>5, Zenon DEF Next
    <3>2. PICK c \in 0 .. 5 : given' = Append(given, c)
      BY <3>1 DEF Lengthen
    <3>. QED BY <2>3, <3>2
  <2>. QED BY <2>1, <2>4, <2>5
<1>3. GivenLengths => WritestrFits
  <2>1. about = "writes" => (GivenLengths => WritestrFits)
    BY GivenFits, Zenon DEF GivenLengths
  <2>2. about # "writes" => WritestrFits
    BY Zenon DEF WritestrFits
  <2>. QED BY <2>1, <2>2
<1>4. Spec => []WritestrFits
  BY <1>1, <1>2, <1>3, PTL DEF Spec
<1>. QED BY <1>4, GivenFits


-----------------------------------------------------------------------------
(* The tables.                                                             *)

\* The step of a bisection from r[1] to r[2].
Mid(r) == r[1] + ((r[2] - r[1]) \div 2)
FindStep(side, f, r) ==
  IF r[1] >= r[2] THEN 0
  ELSE IF side[Mid(r) + 1] < 0 THEN f[<<r[1], Mid(r)>>]
  ELSE IF side[Mid(r) + 1] > 0 THEN f[<<Mid(r) + 1, r[2]>>]
  ELSE Mid(r) + 1
Ends(n) == (0 .. n) \X (0 .. n)
Found0(n, side) == CHOOSE f : f = [r \in Ends(n) |-> FindStep(side, f, r)]

LEMMA BisectFinds ==
  ASSUME NEW n, NEW side
  PROVE  Bisect(n, side) = Found0(n, side)[<<0, n>>]
BY Zenon DEF Bisect, Found0, FindStep, Ends, Mid

\* Each half is shorter than the whole.
LEMMA Halves ==
  ASSUME NEW n \in Nat, NEW r \in Ends(n), r[1] < r[2]
  PROVE  /\ Mid(r) \in r[1] .. r[2] - 1 /\ Mid(r) + 1 \in 1 .. n
         /\ <<r[1], Mid(r)>> \in Ends(n) /\ Mid(r) - r[1] < r[2] - r[1]
         /\ <<Mid(r) + 1, r[2]>> \in Ends(n) /\ r[2] - (Mid(r) + 1) < r[2] - r[1]
<1>1. r[1] \in 0 .. n /\ r[2] \in 0 .. n
  BY DEF Ends
<1>. DEFINE lo == r[1]
            hi == r[2]
            mid == lo + ((hi - lo) \div 2)
<1>2. lo \in 0 .. n /\ hi \in 0 .. n /\ lo < hi
  BY <1>1
<1>3. mid = Mid(r)
  BY DEF Mid
<1>. HIDE DEF lo, hi
<1>4. mid \in Int /\ lo <= mid /\ mid < hi
  BY <1>2
<1>. HIDE DEF mid
<1>5. mid \in lo .. hi - 1 /\ mid + 1 \in 1 .. n /\ mid \in 0 .. n /\ mid + 1 \in 0 .. n
  BY <1>2, <1>4
<1>6. mid - lo < hi - lo /\ hi - (mid + 1) < hi - lo
  BY <1>2, <1>4
<1>7. <<lo, mid>> \in Ends(n) /\ <<mid + 1, hi>> \in Ends(n)
  BY <1>2, <1>5 DEF Ends
<1>. QED BY <1>3, <1>5, <1>6, <1>7, Zenon DEF lo, hi

\* The bisection ends.
LEMMA FoundExists ==
  ASSUME NEW n \in Nat, NEW side
  PROVE  Found0(n, side) = [r \in Ends(n) |-> FindStep(side, Found0(n, side), r)]
<1>. DEFINE Near(d) == {r \in Ends(n) : r[2] - r[1] <= d}
            Runs(d) == \E f : f = [r \in Near(d) |-> FindStep(side, f, r)]
            Stuck == {d \in 0 .. n : ~Runs(d)}
<1>0. \A r \in Ends(n) : r[1] \in 0 .. n /\ r[2] \in 0 .. n
  BY DEF Ends
<1>1. Runs(0)
  <2>. DEFINE f == [r \in Near(0) |-> 0]
  <2>1. ASSUME NEW r \in Near(0) PROVE FindStep(side, f, r) = 0
    <3>1. r[1] >= r[2]
      BY <1>0
    <3>. QED BY <3>1, Zenon DEF FindStep
  <2>2. f = [r \in Near(0) |-> FindStep(side, f, r)]
    BY <2>1, Zenon
  <2>. QED BY <2>2
<1>2. ASSUME NEW d \in 1 .. n, Runs(d - 1) PROVE Runs(d)
  <2>1. PICK f : f = [r \in Near(d - 1) |-> FindStep(side, f, r)]
    BY <1>2
  <2>. DEFINE g == [r \in Near(d) |-> FindStep(side, f, r)]
  <2>2. \A r \in Near(d - 1) : r \in Near(d)
    BY <1>0
  <2>3. ASSUME NEW r \in Near(d - 1) PROVE g[r] = f[r]
    <3>1. f[r] = FindStep(side, f, r)
      BY <2>1, Zenon
    <3>2. g[r] = FindStep(side, f, r)
      BY <2>2, Zenon
    <3>. QED BY <3>1, <3>2, Zenon
  <2>4. ASSUME NEW r \in Near(d) PROVE FindStep(side, g, r) = FindStep(side, f, r)
    <3>1. CASE r[1] >= r[2]
      BY <3>1, Zenon DEF FindStep
    <3>2. CASE r[1] < r[2]
      <4>0. r \in Ends(n) /\ r[2] - r[1] <= d /\ r[1] \in 0 .. n /\ r[2] \in 0 .. n
        BY <1>0
      <4>. DEFINE p == <<r[1], Mid(r)>>
                  q == <<Mid(r) + 1, r[2]>>
      <4>1. /\ Mid(r) \in r[1] .. r[2] - 1
            /\ p \in Ends(n) /\ Mid(r) - r[1] < r[2] - r[1]
            /\ q \in Ends(n) /\ r[2] - (Mid(r) + 1) < r[2] - r[1]
        BY <3>2, <4>0, Halves, Zenon
      <4>2. p[1] = r[1] /\ p[2] = Mid(r) /\ q[1] = Mid(r) + 1 /\ q[2] = r[2]
        OBVIOUS
      <4>. HIDE DEF p, q
      <4>3. p[2] - p[1] <= d - 1 /\ q[2] - q[1] <= d - 1
        <5>1. Mid(r) \in Int
          BY <4>0, <4>1
        <5>. QED BY <4>0, <4>1, <4>2, <5>1
      <4>4. g[p] = f[p] /\ g[q] = f[q]
        BY <2>3, <4>1, <4>3, Zenon
      <4>. HIDE DEF g
      <4>. QED BY <4>4, Zenon DEF FindStep, p, q
    <3>3. r[1] >= r[2] \/ r[1] < r[2]
      BY <1>0
    <3>. QED BY <3>1, <3>2, <3>3
  <2>5. g = [r \in Near(d) |-> FindStep(side, g, r)]
    BY <2>4, Zenon
  <2>. HIDE DEF g
  <2>. QED BY <2>5
<1>. HIDE DEF Runs
<1>3. Stuck = {}
  <2>1. SUFFICES ASSUME Stuck # {} PROVE FALSE
    OBVIOUS
  <2>2. Stuck \subseteq Nat
    OBVIOUS
  <2>3. PICK d \in Stuck : \A y \in Stuck : d <= y
    BY <2>1, <2>2, LeastNatural
  <2>4. d # 0
    BY <1>1, <2>3
  <2>5. d \in 1 .. n /\ d - 1 \in 0 .. n /\ ~(d <= d - 1)
    BY <2>4
  <2>6. Runs(d - 1)
    BY <2>3, <2>5, Zenon
  <2>. QED BY <1>2, <2>5, <2>6, Zenon
<1>4. Runs(n)
  BY <1>3
<1>5. Near(n) = Ends(n)
  BY <1>0
<1>6. \E f : f = [r \in Ends(n) |-> FindStep(side, f, r)]
  BY <1>4, <1>5, Zenon DEF Runs
<1>. QED BY <1>6, Zenon DEF Found0

\* When the rows are in order, it finds the one that has what is sought.
Sides == {-1, 0, 1}
Here(side, r, i) == i \in r[1] + 1 .. r[2] /\ side[i] = 0
LEMMA SearchIsRight ==
  ASSUME NEW n \in Nat, NEW side \in [1 .. n -> Sides],
         \A i, j \in 1 .. n : i < j => side[i] >= side[j]
  PROVE  LET at == Bisect(n, side)
         IN (at \in 1 .. n /\ side[at] = 0) \/ (at = 0 /\ \A i \in 1 .. n : side[i] # 0)
<1>. DEFINE f == Found0(n, side)
            Right(r) == Here(side, r, f[r]) \/ (f[r] = 0 /\ \A i \in 1 .. n : ~Here(side, r, i))
            Wrong == {d \in 0 .. n : \E r \in Ends(n) : r[2] - r[1] = d /\ ~Right(r)}
<1>0. \A r \in Ends(n) : r[1] \in 0 .. n /\ r[2] \in 0 .. n
  BY DEF Ends
<1>1. f = [r \in Ends(n) |-> FindStep(side, f, r)]
  BY FoundExists
<1>. HIDE DEF f
<1>2. \A r \in Ends(n) : f[r] = FindStep(side, f, r)
  BY <1>1, Zenon
<1>3. ASSUME NEW r \in Ends(n), r[1] >= r[2] PROVE Right(r)
  <2>1. f[r] = 0
    BY <1>2, <1>3, Zenon DEF FindStep
  <2>2. \A i \in 1 .. n : i \notin r[1] + 1 .. r[2]
    BY <1>0, <1>3
  <2>. QED BY <2>1, <2>2, Zenon DEF Here
<1>4. ASSUME NEW r \in Ends(n), r[1] < r[2],
             \A q \in Ends(n) : q[2] - q[1] \in 0 .. r[2] - r[1] - 1 => Right(q)
      PROVE  Right(r)
  <2>. DEFINE m == Mid(r)
              p == <<r[1], m>>
              q == <<m + 1, r[2]>>
  <2>0. r[1] \in 0 .. n /\ r[2] \in 0 .. n
    BY <1>0
  <2>1. /\ m \in r[1] .. r[2] - 1 /\ m + 1 \in 1 .. n
        /\ p \in Ends(n) /\ m - r[1] < r[2] - r[1]
        /\ q \in Ends(n) /\ r[2] - (m + 1) < r[2] - r[1]
    BY <1>4, Halves, Zenon
  <2>2. p[1] = r[1] /\ p[2] = m /\ q[1] = m + 1 /\ q[2] = r[2]
    OBVIOUS
  <2>3. f[r] = IF side[m + 1] < 0 THEN f[p] ELSE IF side[m + 1] > 0 THEN f[q] ELSE m + 1
    <3>1. ~(r[1] >= r[2])
      BY <1>4, <2>0
    <3>. QED BY <1>2, <3>1, Zenon DEF FindStep
  <2>. HIDE DEF p, q, m
  <2>4. p[2] - p[1] \in 0 .. r[2] - r[1] - 1 /\ q[2] - q[1] \in 0 .. r[2] - r[1] - 1
    BY <2>0, <2>1, <2>2
  <2>5. Right(p) /\ Right(q)
    BY <1>4, <2>1, <2>4, Zenon
  <2>6. side[m + 1] \in Sides
    BY <2>1
  <2>7. CASE side[m + 1] < 0
    <3>1. f[r] = f[p]
      BY <2>3, <2>7, Zenon
    <3>2. ASSUME NEW i \in 1 .. n PROVE Here(side, r, i) <=> Here(side, p, i)
      <4>1. CASE i <= m
        BY <2>0, <2>1, <2>2, <4>1 DEF Here
      <4>2. CASE i > m
        <5>1. side[i] # 0
          BY <2>0, <2>1, <2>6, <2>7, <4>2 DEF Sides
        <5>. QED BY <5>1, Zenon DEF Here
      <4>. QED BY <2>0, <2>1, <4>1, <4>2
    <3>3. Here(side, p, f[p]) => f[p] \in 1 .. n
      BY <2>0, <2>1, <2>2 DEF Here
    <3>. QED BY <2>5, <3>1, <3>2, <3>3, Zenon
  <2>8. CASE side[m + 1] > 0
    <3>1. f[r] = f[q]
      BY <2>3, <2>6, <2>8 DEF Sides
    <3>2. ASSUME NEW i \in 1 .. n PROVE Here(side, r, i) <=> Here(side, q, i)
      <4>1. CASE i > m + 1
        BY <2>0, <2>1, <2>2, <4>1 DEF Here
      <4>2. CASE i <= m + 1
        <5>1. side[i] # 0
          BY <2>0, <2>1, <2>6, <2>8, <4>2 DEF Sides
        <5>. QED BY <5>1, Zenon DEF Here
      <4>. QED BY <2>0, <2>1, <4>1, <4>2
    <3>3. Here(side, q, f[q]) => f[q] \in 1 .. n
      BY <2>0, <2>1, <2>2 DEF Here
    <3>. QED BY <2>5, <3>1, <3>2, <3>3, Zenon
  <2>9. CASE side[m + 1] = 0
    <3>1. f[r] = m + 1
      BY <2>3, <2>9
    <3>2. Here(side, r, m + 1)
      BY <2>0, <2>1, <2>9 DEF Here
    <3>. QED BY <3>1, <3>2, Zenon
  <2>. QED BY <2>6, <2>7, <2>8, <2>9 DEF Sides
<1>5. Wrong = {}
  <2>1. SUFFICES ASSUME Wrong # {} PROVE FALSE
    OBVIOUS
  <2>. HIDE DEF Right
  <2>2. Wrong \subseteq Nat
    OBVIOUS
  <2>3. PICK d \in Wrong : \A y \in Wrong : d <= y
    BY <2>1, <2>2, LeastNatural
  <2>4. PICK r \in Ends(n) : r[2] - r[1] = d /\ ~Right(r)
    BY <2>3
  <2>5. r[1] < r[2]
    BY <1>0, <1>3, <2>4
  <2>6. ASSUME NEW q \in Ends(n), q[2] - q[1] \in 0 .. r[2] - r[1] - 1 PROVE Right(q)
    <3>1. q[2] - q[1] \in 0 .. n /\ ~(d <= q[2] - q[1])
      BY <1>0, <2>4, <2>6
    <3>. QED BY <2>3, <3>1
  <2>. QED BY <1>4, <2>4, <2>5, <2>6, Zenon
<1>. DEFINE r0 == <<0, n>>
<1>6. r0 \in Ends(n) /\ r0[1] = 0 /\ r0[2] = n
  BY DEF Ends
<1>. HIDE DEF r0
<1>7. Right(r0)
  <2>. HIDE DEF Right
  <2>1. r0[2] - r0[1] = n /\ n \in 0 .. n
    BY <1>6
  <2>. QED BY <1>5, <1>6, <2>1
<1>8. Bisect(n, side) = f[r0]
  BY BisectFinds, Zenon DEF f, r0
<1>9. \A i : Here(side, r0, i) <=> i \in 1 .. n /\ side[i] = 0
  <2>1. 0 + 1 = 1
    OBVIOUS
  <2>. QED BY <1>6, <2>1, Zenon DEF Here
<1>. QED BY <1>7, <1>8, <1>9, Zenon


\* The side of cp on which the rows of a table are, when they are in order.
SidesOf(n, first, last, cp) == [i \in 1 .. n |-> Side(cp, first[i], last[i])]
InOrder(n, first, last) ==
  /\ \A i \in 1 .. n : first[i] \in Nat /\ last[i] \in Nat /\ first[i] <= last[i]
  /\ \A i, j \in 1 .. n : i < j => last[i] < first[j]
Tells(n, first, last, cp, side) ==
  /\ side \in [1 .. n -> Sides]
  /\ \A i, j \in 1 .. n : i < j => side[i] >= side[j]
  /\ \A i \in 1 .. n : side[i] = 0 <=> cp \in first[i] .. last[i]
LEMMA SidesInOrder ==
  ASSUME NEW n \in Nat, NEW first, NEW last, NEW cp \in Nat, InOrder(n, first, last)
  PROVE  Tells(n, first, last, cp, SidesOf(n, first, last, cp))
<1>. DEFINE side == SidesOf(n, first, last, cp)
<1>6. side = [i \in 1 .. n |-> Side(cp, first[i], last[i])]
  BY DEF SidesOf
<1>7. /\ \A i \in 1 .. n : first[i] \in Nat /\ last[i] \in Nat /\ first[i] <= last[i]
      /\ \A i, j \in 1 .. n : i < j => last[i] < first[j]
  BY Zenon DEF InOrder
<1>. HIDE DEF side
<1>1. \A i \in 1 .. n : side[i] = Side(cp, first[i], last[i])
  BY <1>6
<1>2. \A i \in 1 .. n : side[i] \in Sides
  BY <1>1, <1>7 DEF Side, Sides
<1>3. ASSUME NEW i \in 1 .. n, NEW j \in 1 .. n, i < j PROVE side[i] >= side[j]
  BY <1>1, <1>3, <1>7 DEF Side
<1>4. ASSUME NEW i \in 1 .. n PROVE side[i] = 0 <=> cp \in first[i] .. last[i]
  BY <1>1, <1>7 DEF Side
<1>5. side \in [1 .. n -> Sides]
  BY <1>2, <1>6
<1>. QED BY <1>3, <1>4, <1>5, Zenon DEF Tells, side

\* In a table whose rows are ranges in order, range_lookup_or answers the value
\* of the range that holds a character, and dflt when none does: whatever
\* the number of rows, the bisection passes over no row and ends.
THEOREM RangesAreSearched ==
  ASSUME NEW tbl, RangesInOrder(tbl), NEW cp \in Nat, NEW dflt
  PROVE  /\ \A i \in DOMAIN tbl :
              cp \in tbl[i][1] .. tbl[i][2] => range_lookup_or(tbl, cp, dflt) = tbl[i][3]
         /\ (\A i \in DOMAIN tbl : cp \notin tbl[i][1] .. tbl[i][2])
              => range_lookup_or(tbl, cp, dflt) = dflt
<1>. DEFINE n == Len(tbl)
            first == [i \in 1 .. n |-> tbl[i][1]]
            last == [i \in 1 .. n |-> tbl[i][2]]
            side == SidesOf(n, first, last, cp)
            at == Bisect(n, side)
<1>1. n \in Nat /\ DOMAIN tbl = 1 .. n
  BY DEF RangesInOrder, IsTable
<1>2. \A i \in 1 .. n : tbl[i][1] \in Nat /\ tbl[i][2] \in Nat /\ tbl[i][1] <= tbl[i][2]
  BY <1>1, Zenon DEF RangesInOrder
<1>3. \A i, j \in 1 .. n : i < j => tbl[i][2] < tbl[j][1]
  BY <1>1, Zenon DEF RangesInOrder
<1>4. side = [i \in DOMAIN tbl |-> Side(cp, tbl[i][1], tbl[i][2])]
  BY <1>1 DEF SidesOf
<1>5. range_lookup_or(tbl, cp, dflt) = IF at = 0 THEN dflt ELSE tbl[at][3]
  BY <1>4, Zenon DEF range_lookup_or
<1>6. \A i \in 1 .. n : first[i] = tbl[i][1] /\ last[i] = tbl[i][2]
  OBVIOUS
<1>. HIDE DEF first, last, n
<1>7. /\ side \in [1 .. n -> Sides]
      /\ \A i, j \in 1 .. n : i < j => side[i] >= side[j]
      /\ \A i \in 1 .. n : side[i] = 0 <=> cp \in first[i] .. last[i]
  <2>1. \A i \in 1 .. n : first[i] \in Nat /\ last[i] \in Nat /\ first[i] <= last[i]
    BY <1>2, <1>6, Zenon
  <2>2. \A i, j \in 1 .. n : i < j => last[i] < first[j]
    BY <1>3, <1>6, Zenon
  <2>3. InOrder(n, first, last)
    BY <2>1, <2>2, Zenon DEF InOrder
  <2>4. Tells(n, first, last, cp, side)
    BY <1>1, <2>3, SidesInOrder, Zenon
  <2>. QED BY <2>4, Zenon DEF Tells
<1>. HIDE DEF side
<1>8. (at \in 1 .. n /\ side[at] = 0) \/ (at = 0 /\ \A i \in 1 .. n : side[i] # 0)
  BY <1>1, <1>7, SearchIsRight, Zenon
<1>. HIDE DEF at
<1>9. \A i \in 1 .. n : side[i] = 0 <=> cp \in tbl[i][1] .. tbl[i][2]
  BY <1>6, <1>7, Zenon
<1>10. \A i, j \in 1 .. n :
         cp \in tbl[i][1] .. tbl[i][2] /\ cp \in tbl[j][1] .. tbl[j][2] => i = j
  BY <1>1, <1>2, <1>3
<1>11. \A i \in 1 .. n : i # 0
  BY <1>1
<1>. QED BY <1>1, <1>5, <1>8, <1>9, <1>10, <1>11, Zenon

\* In a table of characters in order, row_lookup answers the row of a character,
\* and NULL when it has none (decomp_lookup, case_lookup).
THEOREM RowsAreSearched ==
  ASSUME NEW tbl, RowsInOrder(tbl), NEW cp \in Nat
  PROVE  /\ \A i \in DOMAIN tbl : tbl[i][1] = cp => row_lookup(tbl, cp) = tbl[i]
         /\ (\A i \in DOMAIN tbl : tbl[i][1] # cp) => row_lookup(tbl, cp) = <<>>
<1>. DEFINE n == Len(tbl)
            first == [i \in 1 .. n |-> tbl[i][1]]
            side == SidesOf(n, first, first, cp)
            at == Bisect(n, side)
<1>1. n \in Nat /\ DOMAIN tbl = 1 .. n
  BY DEF RowsInOrder, IsTable
<1>2. \A i \in 1 .. n : tbl[i][1] \in Nat
  BY <1>1, Zenon DEF RowsInOrder
<1>3. \A i, j \in 1 .. n : i < j => tbl[i][1] < tbl[j][1]
  BY <1>1, Zenon DEF RowsInOrder
<1>4. side = [i \in DOMAIN tbl |-> Side(cp, tbl[i][1], tbl[i][1])]
  BY <1>1 DEF SidesOf
<1>5. row_lookup(tbl, cp) = IF at = 0 THEN <<>> ELSE tbl[at]
  BY <1>4, Zenon DEF row_lookup
<1>6. \A i \in 1 .. n : first[i] = tbl[i][1]
  OBVIOUS
<1>. HIDE DEF first, n
<1>7. /\ side \in [1 .. n -> Sides]
      /\ \A i, j \in 1 .. n : i < j => side[i] >= side[j]
      /\ \A i \in 1 .. n : side[i] = 0 <=> cp \in first[i] .. first[i]
  <2>1. \A i \in 1 .. n : first[i] \in Nat /\ first[i] <= first[i]
    BY <1>2, <1>6
  <2>2. \A i, j \in 1 .. n : i < j => first[i] < first[j]
    BY <1>3, <1>6, Zenon
  <2>3. InOrder(n, first, first)
    BY <2>1, <2>2, Zenon DEF InOrder
  <2>4. Tells(n, first, first, cp, side)
    BY <1>1, <2>3, SidesInOrder, Zenon
  <2>. QED BY <2>4, Zenon DEF Tells
<1>. HIDE DEF side
<1>8. (at \in 1 .. n /\ side[at] = 0) \/ (at = 0 /\ \A i \in 1 .. n : side[i] # 0)
  BY <1>1, <1>7, SearchIsRight, Zenon
<1>. HIDE DEF at
<1>9. \A i \in 1 .. n : side[i] = 0 <=> tbl[i][1] = cp
  <2>1. \A x, y \in Nat : x \in y .. y <=> y = x
    OBVIOUS
  <2>. QED BY <1>2, <1>6, <1>7, <2>1, Zenon
<1>10. \A i, j \in 1 .. n : tbl[i][1] = cp /\ tbl[j][1] = cp => i = j
  BY <1>1, <1>2, <1>3
<1>11. \A i \in 1 .. n : i # 0
  BY <1>1
<1>. QED BY <1>1, <1>5, <1>8, <1>9, <1>10, <1>11, Zenon


\* The compositions of Hangul letters, which are computed.
Hangul(a, b) ==
  \/ a \in L_BASE .. L_BASE + L_COUNT - 1 /\ IsV(b)
  \/ IsS(a) /\ (a - S_BASE) % T_COUNT = 0 /\ IsT(b)
PairSide(a, b, e) == IF a = e[1] THEN Side(b, e[2], e[2]) ELSE Side(a, e[1], e[1])

\* compose_pair answers what the table of compositions makes of two characters
\* other than Hangul letters, and 0 when it has no row for them: the rows are
\* ordered by the first character and then by the second.
THEOREM PairsAreSearched ==
  ASSUME NEW a \in Nat, NEW b \in Nat, ~Hangul(a, b)
  PROVE  LET tbl == pas_u_compose_tbl
         IN /\ \A i \in DOMAIN tbl :
                 tbl[i][1] = a /\ tbl[i][2] = b => compose_pair(a, b) = tbl[i][3]
            /\ (\A i \in DOMAIN tbl : ~(tbl[i][1] = a /\ tbl[i][2] = b))
                 => compose_pair(a, b) = 0
<1>. DEFINE tbl == pas_u_compose_tbl
            n == Len(tbl)
            side == [i \in 1 .. n |-> PairSide(a, b, tbl[i])]
            at == Bisect(n, side)
<1>0. PairsInOrder(tbl)
  BY TablesAssumption
<1>. HIDE DEF tbl
<1>1. n \in Nat /\ DOMAIN tbl = 1 .. n
  BY <1>0, Zenon DEF PairsInOrder, IsTable
<1>2. \A i \in 1 .. n : tbl[i][1] \in Nat /\ tbl[i][2] \in Nat
  BY <1>0, <1>1, Zenon DEF PairsInOrder
<1>3. \A i, j \in 1 .. n :
        i < j => tbl[i][1] < tbl[j][1] \/ (tbl[i][1] = tbl[j][1] /\ tbl[i][2] < tbl[j][2])
  BY <1>0, <1>1, Zenon DEF PairsInOrder
<1>4. side = [i \in DOMAIN tbl |-> PairSide(a, b, tbl[i])]
  BY <1>1, Zenon
<1>5. compose_pair(a, b) = IF at = 0 THEN 0 ELSE tbl[at][3]
  BY <1>4, Zenon DEF compose_pair, Hangul, PairSide, tbl
<1>. HIDE DEF n
<1>6. \A i \in 1 .. n : side[i] = PairSide(a, b, tbl[i])
  OBVIOUS
<1>7. side \in [1 .. n -> Sides]
  <2>1. \A i \in 1 .. n : PairSide(a, b, tbl[i]) \in Sides
    BY <1>2 DEF PairSide, Side, Sides
  <2>. QED BY <2>1
<1>. HIDE DEF side
<1>8. ASSUME NEW i \in 1 .. n, NEW j \in 1 .. n, i < j PROVE side[i] >= side[j]
  <2>. DEFINE x == tbl[i][1]
              y == tbl[i][2]
              z == tbl[j][1]
              w == tbl[j][2]
  <2>1. x \in Nat /\ y \in Nat /\ z \in Nat /\ w \in Nat /\ (x < z \/ (x = z /\ y < w))
    BY <1>2, <1>3, <1>8, Zenon
  <2>2. /\ side[i] = IF a = x THEN Side(b, y, y) ELSE Side(a, x, x)
        /\ side[j] = IF a = z THEN Side(b, w, w) ELSE Side(a, z, z)
    BY <1>6, Zenon DEF PairSide
  <2>. HIDE DEF x, y, z, w
  <2>. QED BY <2>1, <2>2 DEF Side
<1>9. (at \in 1 .. n /\ side[at] = 0) \/ (at = 0 /\ \A i \in 1 .. n : side[i] # 0)
  BY <1>1, <1>7, <1>8, SearchIsRight, Zenon
<1>. HIDE DEF at
<1>10. ASSUME NEW i \in 1 .. n PROVE side[i] = 0 <=> tbl[i][1] = a /\ tbl[i][2] = b
  BY <1>2, <1>6 DEF PairSide, Side
<1>11. \A i, j \in 1 .. n :
         tbl[i][1] = a /\ tbl[i][2] = b /\ tbl[j][1] = a /\ tbl[j][2] = b => i = j
  <2>1. ~(a < a) /\ ~(b < b)
    OBVIOUS
  <2>2. \A i, j \in 1 .. n : i < j \/ j < i \/ i = j
    BY <1>1
  <2>. QED BY <1>3, <2>1, <2>2, Zenon
<1>12. \A i \in 1 .. n : i # 0
  BY <1>1
<1>. QED BY <1>1, <1>5, <1>9, <1>10, <1>11, <1>12, Zenon DEF tbl

-----------------------------------------------------------------------------
(* Digits and powers.                                                      *)

Digits == 0 .. 9

\* What the first i digits stand for, for each i.
ValueStep(d, f, i) == IF i = 0 THEN 0 ELSE 10 * f[i - 1] + d[i]
ValueTo(d) == CHOOSE f : f = [i \in 0 .. Len(d) |-> ValueStep(d, f, i)]
IsValue(v, d) ==
  /\ v \in [0 .. Len(d) -> Nat] /\ v[0] = 0
  /\ \A i \in 1 .. Len(d) : v[i] = 10 * v[i - 1] + d[i]

LEMMA ValueExists ==
  ASSUME NEW d \in Seq(Digits)
  PROVE  IsValue(ValueTo(d), d) /\ Num!Natural(d) = ValueTo(d)[Len(d)]
<1>. DEFINE n == Len(d)
            One(i) == [x \in Nat |-> 10 * x + d[i]]
            F == [i \in 1 .. n |-> One(i)]
<1>1. n \in Nat /\ 0 \in Nat /\ 0 \in 0 .. n
  OBVIOUS
<1>2. ASSUME NEW i \in 1 .. n, NEW x \in Nat PROVE 10 * x + d[i] \in Nat
  <2>1. d[i] \in Nat
    BY DEF Digits
  <2>. QED BY <2>1
<1>3. F \in [1 .. n -> [Nat -> Nat]]
  BY <1>2, Zenon
<1>. HIDE DEF F
<1>5. Iterable(n, Nat, 0, F)
  BY <1>1, <1>3, Iterates, Zenon
<1>6. PICK f \in [0 .. n -> Nat] : f[0] = 0 /\ \A j \in 1 .. n : f[j] = F[j][f[j - 1]]
  BY <1>5, Zenon DEF Iterable
<1>4. ASSUME NEW j \in 1 .. n PROVE f[j] = 10 * f[j - 1] + d[j]
  <2>1. j - 1 \in 0 .. n
    BY <1>1
  <2>2. f[j - 1] \in Nat
    BY <2>1
  <2>. QED BY <1>6, <2>2, Zenon DEF F
<1>7. ASSUME NEW j \in 0 .. n PROVE f[j] = ValueStep(d, f, j)
  <2>1. CASE j = 0
    BY <1>6, <2>1, Zenon DEF ValueStep
  <2>2. CASE j # 0
    <3>1. j \in 1 .. n
      BY <1>1, <2>2
    <3>. QED BY <2>2, <3>1, <1>4, Zenon DEF ValueStep
  <2>. QED BY <2>1, <2>2
<1>8. f = [j \in 0 .. n |-> ValueStep(d, f, j)]
  <2>1. f = [j \in 0 .. n |-> f[j]]
    OBVIOUS
  <2>. QED BY <1>7, <2>1, Zenon
<1>. DEFINE g == ValueTo(d)
<1>9. g = [j \in 0 .. n |-> ValueStep(d, g, j)]
  BY <1>8, Zenon DEF ValueTo, n
<1>. HIDE DEF g
<1>10. \A j \in 0 .. n : g[j] = ValueStep(d, g, j)
  BY <1>9, Zenon
<1>11. g[0] = 0
  BY <1>1, <1>10, Zenon DEF ValueStep
<1>12. ASSUME NEW j \in 1 .. n PROVE g[j] = 10 * g[j - 1] + d[j]
  <2>1. j \in 0 .. n /\ j # 0
    BY <1>1
  <2>. QED BY <1>10, <2>1, Zenon DEF ValueStep
<1>13. \A j \in 0 .. n : g[j] \in Nat
  <2>. DEFINE S == [j \in 0 .. n |-> Nat]
  <2>1. g[0] \in S[0]
    BY <1>1, <1>11
  <2>2. ASSUME NEW j \in 1 .. n, g[j - 1] \in S[j - 1] PROVE g[j] \in S[j]
    <3>1. j \in 0 .. n /\ j - 1 \in 0 .. n
      BY <1>1
    <3>2. g[j - 1] \in Nat
      BY <2>2, <3>1
    <3>3. g[j] \in Nat
      BY <1>2, <1>12, <3>2
    <3>. QED BY <3>1, <3>3
  <2>3. \A j \in 0 .. n : g[j] \in S[j]
    <3>. HIDE DEF S, n
    <3>. QED BY <1>1, <2>1, <2>2, Climbs, Zenon
  <2>. QED BY <2>3
<1>14. g \in [0 .. n -> Nat]
  <2>1. g = [j \in 0 .. n |-> g[j]]
    <3>1. DOMAIN g = 0 .. n
      BY <1>9, Zenon
    <3>. QED BY <1>9, <3>1, Zenon
  <2>. QED BY <1>13, <2>1, Zenon
<1>15. IsValue(ValueTo(d), d)
  BY <1>11, <1>12, <1>14, Zenon DEF IsValue, g, n
<1>16. Num!Natural(d) = ValueTo(d)[Len(d)]
  BY Zenon DEF Num!Natural, ValueTo, ValueStep
<1>. QED BY <1>15, <1>16

\* Digits stand for one number only.
LEMMA ValuesAgree ==
  ASSUME NEW d \in Seq(Digits), NEW c \in Seq(Digits), NEW n \in 0 .. Len(d), n <= Len(c),
         NEW v, NEW w, IsValue(v, d), IsValue(w, c), \A i \in 1 .. n : c[i] = d[i]
  PROVE  \A i \in 0 .. n : w[i] = v[i]
<1>. DEFINE S == [i \in 0 .. n |-> {v[i]}]
<1>1. n \in Nat /\ 0 \in 0 .. n
  OBVIOUS
<1>2. w[0] \in S[0]
  BY <1>1, Zenon DEF IsValue
<1>3. ASSUME NEW i \in 1 .. n, w[i - 1] \in S[i - 1] PROVE w[i] \in S[i]
  <2>1. i \in 0 .. n /\ i - 1 \in 0 .. n /\ i \in 1 .. Len(d) /\ i \in 1 .. Len(c)
    OBVIOUS
  <2>2. w[i - 1] = v[i - 1]
    BY <1>3, <2>1
  <2>3. v[i] = 10 * v[i - 1] + d[i] /\ w[i] = 10 * w[i - 1] + c[i]
    BY <2>1, Zenon DEF IsValue
  <2>4. w[i] = v[i]
    BY <2>2, <2>3, Zenon
  <2>. QED BY <2>1, <2>4
<1>4. \A i \in 0 .. n : w[i] \in S[i]
  <2>. HIDE DEF S
  <2>. QED BY <1>1, <1>2, <1>3, Climbs, Zenon
<1>. QED BY <1>4

LEMMA NaturalIs ==
  ASSUME NEW d \in Seq(Digits), NEW v, IsValue(v, d)
  PROVE  Num!Natural(d) = v[Len(d)] /\ v[Len(d)] \in Nat
<1>1. Len(d) \in 0 .. Len(d)
  OBVIOUS
<1>2. ValueTo(d)[Len(d)] = v[Len(d)]
  BY <1>1, ValueExists, ValuesAgree
<1>3. v[Len(d)] \in Nat
  BY <1>1, Zenon DEF IsValue
<1>. QED BY <1>2, <1>3, ValueExists, Zenon

\* The powers of a number.
PowerStep(x, f, i) == IF i = 0 THEN 1 ELSE x * f[i - 1]
Powers(x, n) == CHOOSE f : f = [i \in 0 .. n |-> PowerStep(x, f, i)]

LEMMA PowersExist ==
  ASSUME NEW x \in Int, NEW n \in Nat
  PROVE  /\ Power(x, n) = Powers(x, n)[n] /\ Powers(x, n)[0] = 1
         /\ \A i \in 0 .. n : Powers(x, n)[i] \in Int
         /\ \A i \in 1 .. n : Powers(x, n)[i] = x * Powers(x, n)[i - 1]
<1>. DEFINE F == [i \in 1 .. n |-> [y \in Int |-> x * y]]
<1>1. 0 \in 0 .. n /\ 1 \in Int
  OBVIOUS
<1>2. F \in [1 .. n -> [Int -> Int]]
  OBVIOUS
<1>. HIDE DEF F
<1>3. Iterable(n, Int, 1, F)
  BY <1>1, <1>2, Iterates, Zenon
<1>4. PICK f \in [0 .. n -> Int] : f[0] = 1 /\ \A j \in 1 .. n : f[j] = F[j][f[j - 1]]
  BY <1>3, Zenon DEF Iterable
<1>5. ASSUME NEW j \in 0 .. n PROVE f[j] = PowerStep(x, f, j)
  <2>1. CASE j = 0
    BY <1>4, <2>1, Zenon DEF PowerStep
  <2>2. CASE j # 0
    <3>1. j \in 1 .. n /\ j - 1 \in 0 .. n
      BY <2>2
    <3>2. f[j - 1] \in Int
      BY <3>1
    <3>3. f[j] = x * f[j - 1]
      BY <1>4, <3>1, <3>2, Zenon DEF F
    <3>. QED BY <2>2, <3>3, Zenon DEF PowerStep
  <2>. QED BY <2>1, <2>2
<1>6. f = [j \in 0 .. n |-> PowerStep(x, f, j)]
  <2>1. f = [j \in 0 .. n |-> f[j]]
    OBVIOUS
  <2>. QED BY <1>5, <2>1, Zenon
<1>. DEFINE g == Powers(x, n)
<1>7. g = [j \in 0 .. n |-> PowerStep(x, g, j)]
  BY <1>6, Zenon DEF Powers
<1>. HIDE DEF g
<1>8. \A j \in 0 .. n : g[j] = PowerStep(x, g, j)
  BY <1>7, Zenon
<1>9. g[0] = 1
  BY <1>1, <1>8, Zenon DEF PowerStep
<1>10. ASSUME NEW j \in 1 .. n PROVE g[j] = x * g[j - 1]
  <2>1. j \in 0 .. n /\ j # 0
    OBVIOUS
  <2>. QED BY <1>8, <2>1, Zenon DEF PowerStep
<1>11. \A j \in 0 .. n : g[j] \in Int
  <2>. DEFINE S == [j \in 0 .. n |-> Int]
  <2>1. g[0] \in S[0]
    BY <1>1, <1>9
  <2>2. ASSUME NEW j \in 1 .. n, g[j - 1] \in S[j - 1] PROVE g[j] \in S[j]
    <3>1. j \in 0 .. n /\ j - 1 \in 0 .. n
      OBVIOUS
    <3>2. g[j - 1] \in Int
      BY <2>2, <3>1
    <3>3. g[j] \in Int
      BY <1>10, <3>2
    <3>. QED BY <3>1, <3>3
  <2>3. \A j \in 0 .. n : g[j] \in S[j]
    <3>. HIDE DEF S
    <3>. QED BY <2>1, <2>2, Climbs, Zenon
  <2>. QED BY <2>3
<1>12. Power(x, n) = g[n]
  BY Zenon DEF Power, Powers, PowerStep, g
<1>. QED BY <1>9, <1>10, <1>11, <1>12, Zenon DEF g

LEMMA PowerIs ==
  ASSUME NEW x \in Int
  PROVE  /\ Power(x, 0) = 1
         /\ \A n \in Nat : Power(x, n) \in Int /\ Power(x, n + 1) = x * Power(x, n)
<1>1. Power(x, 0) = 1
  BY PowersExist
<1>2. ASSUME NEW n \in Nat PROVE Power(x, n) \in Int /\ Power(x, n + 1) = x * Power(x, n)
  <2>. DEFINE f == Powers(x, n)
              g == Powers(x, n + 1)
              S == [j \in 0 .. n |-> {f[j]}]
  <2>1. n + 1 \in Nat /\ n \in 0 .. n /\ n + 1 \in 1 .. n + 1 /\ 0 \in 0 .. n
        /\ (n + 1) - 1 = n
    OBVIOUS
  <2>2. /\ Power(x, n) = f[n] /\ f[0] = 1 /\ \A i \in 0 .. n : f[i] \in Int
        /\ \A i \in 1 .. n : f[i] = x * f[i - 1]
    BY PowersExist, Zenon
  <2>3. /\ Power(x, n + 1) = g[n + 1] /\ g[0] = 1
        /\ \A i \in 1 .. n + 1 : g[i] = x * g[i - 1]
    BY <2>1, PowersExist, Zenon
  <2>. HIDE DEF f, g
  <2>4. g[0] \in S[0]
    BY <2>1, <2>2, <2>3
  <2>5. ASSUME NEW j \in 1 .. n, g[j - 1] \in S[j - 1] PROVE g[j] \in S[j]
    <3>1. j \in 0 .. n /\ j - 1 \in 0 .. n /\ j \in 1 .. n + 1
      OBVIOUS
    <3>2. g[j - 1] = f[j - 1]
      BY <2>5, <3>1
    <3>3. g[j] = f[j]
      BY <2>2, <2>3, <3>1, <3>2, Zenon
    <3>. QED BY <3>1, <3>3
  <2>6. \A j \in 0 .. n : g[j] \in S[j]
    <3>. HIDE DEF S
    <3>. QED BY <2>4, <2>5, Climbs, Zenon
  <2>7. g[n] = f[n]
    BY <2>1, <2>6
  <2>8. g[n + 1] = x * g[n]
    BY <2>1, <2>3, Zenon
  <2>. QED BY <2>1, <2>2, <2>3, <2>7, <2>8, Zenon
<1>. QED BY <1>1, <1>2

LEMMA TenIs ==
  /\ Ten(0) = 1
  /\ \A k \in Nat : Ten(k) \in Nat /\ Ten(k) > 0 /\ Ten(k + 1) = 10 * Ten(k)
<1>1. Ten(0) = 1 /\ \A k \in Nat : Ten(k) \in Int /\ Ten(k + 1) = 10 * Ten(k)
  BY PowerIs, 10 \in Int DEF Ten
<1>2. ASSUME NEW k \in Nat PROVE Ten(k) \in Nat /\ Ten(k) > 0
  <2>. DEFINE g == [i \in 0 .. k |-> Ten(i)]
              S == [i \in 0 .. k |-> Nat \ {0}]
  <2>1. 0 \in 0 .. k /\ k \in 0 .. k
    OBVIOUS
  <2>2. g[0] \in S[0]
    BY <1>1, <2>1
  <2>3. ASSUME NEW i \in 1 .. k, g[i - 1] \in S[i - 1] PROVE g[i] \in S[i]
    <3>1. i \in 0 .. k /\ i - 1 \in 0 .. k /\ i - 1 \in Nat /\ (i - 1) + 1 = i
      OBVIOUS
    <3>2. Ten(i - 1) \in Nat \ {0}
      BY <2>3, <3>1
    <3>3. Ten(i) = 10 * Ten(i - 1)
      BY <1>1, <3>1
    <3>4. Ten(i) \in Nat \ {0}
      BY <3>2, <3>3
    <3>. QED BY <3>1, <3>4
  <2>4. \A i \in 0 .. k : g[i] \in S[i]
    <3>. HIDE DEF g, S
    <3>. QED BY <2>2, <2>3, Climbs, Zenon
  <2>5. Ten(k) \in Nat \ {0}
    BY <2>1, <2>4
  <2>. QED BY <2>5
<1>. QED BY <1>1, <1>2

LEMMA Scaled ==
  ASSUME NEW a \in Nat, NEW t \in Nat
  PROVE  a * t \in Nat /\ a * (10 * t) = 10 * (a * t)
OBVIOUS

\* The digits after the j-th change what the first j stand for by less than one.
LEMMA ValueSplits ==
  ASSUME NEW d \in Seq(Digits), NEW v, IsValue(v, d), NEW j \in 0 .. Len(d)
  PROVE  \A i \in 0 .. Len(d) - j :
           v[j] * Ten(i) <= v[j + i] /\ v[j + i] < (v[j] + 1) * Ten(i)
<1>. DEFINE n == Len(d) - j
            g == [i \in 0 .. n |-> v[j + i]]
            Within(i) == {y \in Nat : v[j] * Ten(i) <= y /\ y < (v[j] + 1) * Ten(i)}
            S == [i \in 0 .. n |-> Within(i)]
<1>1. n \in Nat /\ 0 \in 0 .. n /\ Len(d) \in Nat /\ j \in Nat
  OBVIOUS
<1>2. \A i \in 0 .. Len(d) : v[i] \in Nat
  BY Zenon DEF IsValue
<1>3. g[0] \in S[0]
  <2>1. j + 0 = j /\ j \in 0 .. Len(d)
    BY <1>1
  <2>2. v[j] \in Nat /\ Ten(0) = 1
    BY <1>2, TenIs
  <2>3. v[j] \in Within(0)
    BY <2>2
  <2>. QED BY <1>1, <2>1, <2>3
<1>4. ASSUME NEW i \in 1 .. n, g[i - 1] \in S[i - 1] PROVE g[i] \in S[i]
  <2>. DEFINE a == v[j]
              y == v[j + (i - 1)]
              t == Ten(i - 1)
              c == d[j + i]
  <2>1. /\ i \in 0 .. n /\ i - 1 \in 0 .. n /\ i - 1 \in Nat /\ (i - 1) + 1 = i
        /\ j + i \in 1 .. Len(d) /\ (j + i) - 1 = j + (i - 1) /\ j + (i - 1) \in 0 .. Len(d)
    BY <1>1
  <2>2. a \in Nat /\ y \in Nat /\ c \in Digits /\ t \in Nat /\ Ten(i) = 10 * t
    <3>1. c \in Digits
      BY <2>1
    <3>2. t \in Nat /\ Ten(i) = 10 * t
      BY <2>1, TenIs, Zenon
    <3>. QED BY <1>2, <2>1, <3>1, <3>2
  <2>3. v[j + i] = 10 * y + c
    BY <2>1, Zenon DEF IsValue
  <2>4. y \in Within(i - 1)
    BY <1>4, <2>1
  <2>5. a * t <= y /\ y < (a + 1) * t
    BY <2>4
  <2>. DEFINE lo == a * t
              hi == (a + 1) * t
  <2>6. lo \in Nat /\ hi \in Nat /\ a * (10 * t) = 10 * lo /\ (a + 1) * (10 * t) = 10 * hi
    <3>. HIDE DEF a, t
    <3>1. a + 1 \in Nat
      BY <2>2
    <3>. QED BY <2>2, <3>1, Scaled, Zenon
  <2>. HIDE DEF a, y, t, c, lo, hi
  <2>7. 10 * lo <= 10 * y + c /\ 10 * y + c < 10 * hi /\ 10 * y + c \in Nat
    BY <2>2, <2>5, <2>6 DEF lo, hi, Digits
  <2>8. a * Ten(i) <= v[j + i] /\ v[j + i] < (a + 1) * Ten(i) /\ v[j + i] \in Nat
    BY <2>2, <2>3, <2>6, <2>7
  <2>9. v[j + i] \in Within(i)
    BY <2>8 DEF a
  <2>. QED BY <2>1, <2>9
<1>5. \A i \in 0 .. n : g[i] \in S[i]
  <2>. HIDE DEF g, S, n
  <2>. QED BY <1>1, <1>3, <1>4, Climbs, Zenon
<1>. QED BY <1>5

LEMMA QuotientIs ==
  ASSUME NEW a \in Nat, NEW q \in Nat, NEW t \in Nat, t > 0, q * t <= a, a < (q + 1) * t
  PROVE  a \div t = q
<1>1. a \div t \in Int /\ a % t \in 0 .. t - 1 /\ a = t * (a \div t) + (a % t)
  OBVIOUS
<1>. DEFINE p == a \div t
            r == a % t
<1>. HIDE DEF p, r
<1>2. p \in Int /\ r \in 0 .. t - 1 /\ a = t * p + r
  BY <1>1 DEF p, r
<1>3. CASE p >= q + 1
  <2>1. t * p >= t * (q + 1)
    BY <1>2, <1>3
  <2>. QED BY <1>2, <2>1
<1>4. CASE p <= q - 1
  <2>1. t * p <= t * (q - 1)
    BY <1>2, <1>4
  <2>. QED BY <1>2, <2>1
<1>. QED BY <1>2, <1>3, <1>4 DEF p

\* The i-th digit of an expansion that goes on in zeros both ways.
DigitAt(d, i) == IF i \in 1 .. Len(d) THEN d[i] ELSE 0
\* What the digits up to the q-th stand for.
UpTo(d, v, q) ==
  IF q <= 0 THEN 0 ELSE IF q <= Len(d) THEN v[q] ELSE v[Len(d)] * Ten(q - Len(d))

\* The first n of the digits s are those of d behind a zeros.
Shifts(d, a, s, n) == \A i \in 1 .. n : s[i] = DigitAt(d, i - a)
LEMMA ShiftedValue ==
  ASSUME NEW d \in Seq(Digits), NEW v, IsValue(v, d), NEW s \in Seq(Digits), NEW w, IsValue(w, s),
         NEW a \in Nat, NEW n \in 0 .. Len(s), Shifts(d, a, s, n)
  PROVE  w[n] = UpTo(d, v, n - a)
<1>. DEFINE S == [i \in 0 .. n |-> {UpTo(d, v, i - a)}]
<1>1. n \in Nat /\ 0 \in 0 .. n /\ n \in 0 .. n /\ Len(d) \in Nat
  OBVIOUS
<1>2. \A i \in 0 .. Len(d) : v[i] \in Nat
  BY Zenon DEF IsValue
<1>3. w[0] \in S[0]
  <2>1. UpTo(d, v, 0 - a) = 0
    BY DEF UpTo
  <2>2. w[0] = 0
    BY Zenon DEF IsValue
  <2>. QED BY <1>1, <2>1, <2>2
<1>4. ASSUME NEW i \in 1 .. n, w[i - 1] \in S[i - 1] PROVE w[i] \in S[i]
  <2>. DEFINE q == i - a
  <2>1. i \in 0 .. n /\ i - 1 \in 0 .. n /\ i \in 1 .. Len(s) /\ q \in Int /\ (i - 1) - a = q - 1
    BY <1>1
  <2>2. w[i - 1] = UpTo(d, v, q - 1)
    BY <1>4, <2>1
  <2>3. w[i] = 10 * w[i - 1] + DigitAt(d, q)
    BY <2>1, Zenon DEF IsValue, Shifts
  <2>. HIDE DEF q
  <2>4. 10 * UpTo(d, v, q - 1) + DigitAt(d, q) = UpTo(d, v, q)
    <3>1. CASE q <= 0
      BY <2>1, <3>1 DEF UpTo, DigitAt
    <3>2. CASE q = 1 /\ Len(d) >= 1
      <4>1. 1 \in 1 .. Len(d) /\ v[0] = 0 /\ 1 - 1 = 0
        BY <1>1, <3>2 DEF IsValue
      <4>2. v[1] = 10 * v[0] + d[1] /\ d[1] \in Nat
        <5>1. v[1] = 10 * v[1 - 1] + d[1]
          BY <4>1, Zenon DEF IsValue
        <5>2. d[1] \in Digits
          BY <4>1
        <5>3. v[1 - 1] = v[0]
          BY <4>1, Zenon
        <5>4. \A x : x = 0 => 10 * x = 0
          OBVIOUS
        <5>5. v[1] = 10 * v[0] + d[1]
          BY <5>1, <5>3, Zenon
        <5>. QED BY <5>2, <5>5 DEF Digits
      <4>3. UpTo(d, v, q - 1) = 0 /\ UpTo(d, v, q) = v[1] /\ DigitAt(d, q) = d[1]
        BY <1>1, <3>2 DEF UpTo, DigitAt
      <4>. QED BY <4>1, <4>2, <4>3
    <3>3. CASE q > 1 /\ q <= Len(d)
      <4>1. q \in 1 .. Len(d)
        BY <1>1, <2>1, <3>3
      <4>2. v[q] = 10 * v[q - 1] + d[q]
        BY <4>1, Zenon DEF IsValue
      <4>3. UpTo(d, v, q - 1) = v[q - 1] /\ UpTo(d, v, q) = v[q] /\ DigitAt(d, q) = d[q]
        BY <1>1, <2>1, <3>3 DEF UpTo, DigitAt
      <4>. QED BY <4>2, <4>3
    <3>4. CASE q > 0 /\ q > Len(d)
      <4>. DEFINE L == Len(d)
                  k == q - 1 - L
      <4>1. k \in Nat /\ q - L = k + 1
        BY <1>1, <2>1, <3>4
      <4>2. Ten(k) \in Nat /\ Ten(q - L) = 10 * Ten(k) /\ Ten(0) = 1
        BY <4>1, TenIs, Zenon
      <4>3. v[L] \in Nat /\ (L = 0 => v[L] = 0)
        BY <1>1, <1>2 DEF IsValue
      <4>4. UpTo(d, v, q) = v[L] * (10 * Ten(k)) /\ DigitAt(d, q) = 0
        BY <1>1, <2>1, <3>4, <4>2 DEF UpTo, DigitAt
      <4>5. UpTo(d, v, q - 1) = v[L] * Ten(k)
        <5>1. CASE q - 1 <= 0
          <6>1. L = 0
            BY <1>1, <2>1, <3>4, <5>1
          <6>. QED BY <4>2, <4>3, <5>1, <6>1 DEF UpTo
        <5>2. CASE q - 1 > 0 /\ q - 1 <= L
          <6>1. k = 0 /\ q - 1 = L
            BY <1>1, <2>1, <3>4, <5>2
          <6>. QED BY <4>2, <4>3, <5>2, <6>1 DEF UpTo
        <5>3. CASE q - 1 > 0 /\ q - 1 > L
          BY <1>1, <2>1, <5>3 DEF UpTo
        <5>. QED BY <1>1, <2>1, <5>1, <5>2, <5>3
      <4>. HIDE DEF L, k
      <4>. QED BY <4>2, <4>3, <4>4, <4>5
    <3>. QED BY <1>1, <2>1, <3>1, <3>2, <3>3, <3>4
  <2>5. w[i] = UpTo(d, v, i - a)
    BY <2>2, <2>3, <2>4 DEF q
  <2>. QED BY <2>1, <2>5
<1>5. \A i \in 0 .. n : w[i] \in S[i]
  <2>. HIDE DEF S
  <2>. QED BY <1>1, <1>3, <1>4, Climbs, Zenon
<1>. QED BY <1>1, <1>5

-----------------------------------------------------------------------------
(* Rounding.                                                               *)

LEMMA HighestIs ==
  ASSUME NEW n \in Nat, NEW T, T \subseteq 0 .. n, T # {}
  PROVE  Num!Max(T) \in T /\ \A y \in T : Num!Max(T) >= y
<1>1. PICK x \in T : \A y \in T : x >= y
  BY GreatestNatural
<1>. QED BY <1>1, Zenon DEF Num!Max

LEMMA LowestIs ==
  ASSUME NEW T, T \subseteq Nat, T # {}
  PROVE  Num!Min(T) \in T /\ \A y \in T : Num!Min(T) <= y
<1>1. PICK x \in T : \A y \in T : x <= y
  BY LeastNatural
<1>. QED BY <1>1, Zenon DEF Num!Min

\* The place up to which the digits stay: those after it are nines.
LastRise(s, keep, last) ==
  /\ last \in 0 .. keep
  /\ last # 0 => s[last] # 9
  /\ \A i \in last + 1 .. keep : s[i] = 9
RoundedUp(s, keep, last) ==
  [i \in 1 .. keep |-> IF i > last THEN 0 ELSE IF i = last THEN s[i] + 1 ELSE s[i]]

\* What pas_round_half_up makes of a sequence longer than it keeps.
RoundedTo(s, keep, r) ==
  \/ s[keep + 1] < 5 /\ r = [carry |-> FALSE, d |-> SubSeq(s, 1, keep)]
  \/ /\ s[keep + 1] >= 5
     /\ \E last \in 0 .. keep :
          LastRise(s, keep, last) /\ r = [carry |-> last = 0, d |-> RoundedUp(s, keep, last)]

LEMMA RoundingIs ==
  ASSUME NEW s \in Seq(Digits), NEW keep \in 0 .. Len(s) - 1
  PROVE  RoundedTo(s, keep, Num!pas_round_half_up(s, keep))
<1>. DEFINE up == keep < Len(s) /\ s[keep + 1] >= 5
            rises == {i \in 1 .. keep : s[i] # 9}
            last == IF rises = {} THEN 0 ELSE Num!Max(rises)
            r == Num!pas_round_half_up(s, keep)
<1>1. /\ keep \in Nat /\ keep < Len(s) /\ keep + 1 \in 1 .. Len(s) /\ s[keep + 1] \in Int
  BY DEF Digits
<1>2. LastRise(s, keep, last) /\ (rises = {} <=> last = 0)
  <2>1. CASE rises = {}
    BY <1>1, <2>1 DEF LastRise
  <2>2. CASE rises # {}
    <3>1. rises \subseteq 0 .. keep
      OBVIOUS
    <3>2. Num!Max(rises) \in rises /\ \A y \in rises : Num!Max(rises) >= y
      BY <1>1, <2>2, <3>1, HighestIs
    <3>3. last \in rises /\ \A y \in rises : last >= y
      BY <2>2, <3>2, Zenon
    <3>. HIDE DEF last
    <3>4. last \in 1 .. keep /\ s[last] # 9
      BY <3>3
    <3>5. ASSUME NEW i \in last + 1 .. keep PROVE s[i] = 9
      <4>1. i \in 1 .. keep /\ ~(last >= i)
        BY <1>1, <3>4
      <4>. QED BY <3>3, <4>1
    <3>. QED BY <1>1, <2>2, <3>4, <3>5 DEF LastRise
  <2>. QED BY <2>1, <2>2
<1>3. CASE ~up
  <2>1. s[keep + 1] < 5
    BY <1>1, <1>3
  <2>2. r.carry = FALSE /\ r = [carry |-> FALSE, d |-> SubSeq(s, 1, keep)]
    BY <1>1, <1>3 DEF Num!pas_round_half_up
  <2>. HIDE DEF r
  <2>. QED BY <2>1, <2>2 DEF RoundedTo, r
<1>4. CASE up
  <2>1. r = [carry |-> rises = {}, d |-> RoundedUp(s, keep, last)]
    BY <1>4, Zenon DEF Num!pas_round_half_up, RoundedUp
  <2>2. last \in 0 .. keep
    BY <1>2, Zenon DEF LastRise
  <2>3. r = [carry |-> last = 0, d |-> RoundedUp(s, keep, last)]
    BY <1>2, <2>1, Zenon
  <2>. HIDE DEF last, rises, r
  <2>. QED BY <1>2, <1>4, <2>2, <2>3, Zenon DEF RoundedTo, r
<1>. QED BY <1>3, <1>4

\* Nothing is rounded of a sequence no longer than it keeps.
LEMMA NothingRounded ==
  ASSUME NEW s \in Seq(Digits), NEW keep \in Nat, Len(s) <= keep
  PROVE  Num!pas_round_half_up(s, keep).d = s /\ Num!pas_round_half_up(s, keep).carry = FALSE
<1>1. ~(keep < Len(s))
  OBVIOUS
<1>2. SubSeq(s, 1, Len(s)) = s
  OBVIOUS
<1>3. Num!pas_round_half_up(s, keep)
        = [carry |-> FALSE, d |-> SubSeq(s, 1, Len(s))]
  BY <1>1, Zenon DEF Num!pas_round_half_up
<1>. QED BY <1>2, <1>3

\* Rounding looks at what it keeps and one digit more, which might as well be a
\* zero when there is none.
LEMMA RoundsAlike ==
  ASSUME NEW s \in Seq(Digits), NEW t \in Seq(Digits), NEW keep \in 0 .. Len(t) - 1,
         keep <= Len(s), \A i \in 1 .. keep : s[i] = t[i],
         keep < Len(s) => s[keep + 1] = t[keep + 1],
         keep = Len(s) => t[keep + 1] = 0
  PROVE  Num!pas_round_half_up(s, keep) = Num!pas_round_half_up(t, keep)
<1>. DEFINE up(x) == keep < Len(x) /\ x[keep + 1] >= 5
            rises(x) == {i \in 1 .. keep : x[i] # 9}
            last(x) == IF rises(x) = {} THEN 0 ELSE Num!Max(rises(x))
            kept(x) == SubSeq(x, 1, IF keep < Len(x) THEN keep ELSE Len(x))
            made(x) == [carry |-> up(x) /\ rises(x) = {},
                        d |-> IF ~up(x) THEN kept(x) ELSE RoundedUp(x, keep, last(x))]
<1>1. Num!pas_round_half_up(s, keep) = made(s) /\ Num!pas_round_half_up(t, keep) = made(t)
  BY Zenon DEF Num!pas_round_half_up, RoundedUp
<1>2. up(s) = up(t)
  BY DEF Digits
<1>3. rises(s) = rises(t)
  OBVIOUS
<1>4. kept(s) = kept(t)
  <2>1. kept(s) = SubSeq(s, 1, keep) /\ kept(t) = SubSeq(t, 1, keep)
    OBVIOUS
  <2>2. SubSeq(s, 1, keep) = SubSeq(t, 1, keep)
    OBVIOUS
  <2>. QED BY <2>1, <2>2
<1>5. \A n : RoundedUp(s, keep, n) = RoundedUp(t, keep, n)
  BY Zenon DEF RoundedUp
<1>6. last(s) = last(t)
  BY <1>3, Zenon
<1>. HIDE DEF up, rises, kept, last
<1>7. made(s) = made(t)
  BY <1>2, <1>3, <1>4, <1>5, <1>6, Zenon
<1>. QED BY <1>1, <1>7, Zenon

\* The bytes found after the first ones of d are its digits as far as it goes.
FoundAs(d, first, n, f) ==
  /\ Len(f) = n
  /\ (first + n <= Len(d)) = (\A i \in 1 .. n : f[i] # Num!Stray)
  /\ first + n <= Len(d) => f = SubSeq(d, first + 1, first + n)
LEMMA FoundIs ==
  ASSUME NEW d \in Seq(Digits), NEW first \in Nat, NEW n \in Nat, first <= Len(d)
  PROVE  FoundAs(d, first, n, Num!Found(d, first, n))
<1>. DEFINE f == Num!Found(d, first, n)
<1>1. f = [i \in 1 .. n |-> IF first + i <= Len(d) THEN d[first + i] ELSE Num!Stray]
  BY Zenon DEF Num!Found
<1>2. Num!Stray \in Int /\ Num!Stray \notin Digits
  BY DEF Num!Stray, Digits
<1>. HIDE DEF f
<1>3. Len(f) = n /\ \A i \in 1 .. n : f[i] = IF first + i <= Len(d) THEN d[first + i] ELSE Num!Stray
  BY <1>1
<1>4. ASSUME first + n <= Len(d)
      PROVE  (\A i \in 1 .. n : f[i] # Num!Stray) /\ f = SubSeq(d, first + 1, first + n)
  <2>1. ASSUME NEW i \in 1 .. n PROVE f[i] = d[first + i] /\ d[first + i] \in Digits
    BY <1>3, <1>4
  <2>2. f = [i \in 1 .. n |-> d[first + i]]
    BY <1>1, <1>4
  <2>3. SubSeq(d, first + 1, first + n) = [i \in 1 .. n |-> d[first + i]]
    BY <1>4
  <2>. QED BY <1>2, <2>1, <2>2, <2>3, Zenon
<1>5. ASSUME ~(first + n <= Len(d)) PROVE ~(\A i \in 1 .. n : f[i] # Num!Stray)
  <2>1. n \in 1 .. n /\ f[n] = Num!Stray
    BY <1>3, <1>5
  <2>. QED BY <2>1, Zenon
<1>. DEFINE A == first + n <= Len(d)
            B == \A i \in 1 .. n : f[i] # Num!Stray
<1>6. A \in BOOLEAN /\ B \in BOOLEAN /\ (A => B) /\ (~A => ~B)
  BY <1>4, <1>5
<1>7. A = B
  <2>. HIDE DEF A, B
  <2>. QED BY <1>6
<1>. QED BY <1>3, <1>4, <1>7, Zenon DEF f, FoundAs

LEMMA OneMore ==
  ASSUME NEW x \in Nat, NEW y \in Int
  PROVE  10 * x + (y + 1) = (10 * x + y) + 1
OBVIOUS

\* A zero behind x and a nine behind y, which t brings one past x.
NineFollows(x, y, t) == x + t = y + 1 => (10 * x + 0) + 10 * t = (10 * y + 9) + 1
LEMMA NinePlusOne == \A x, y, t \in Nat : NineFollows(x, y, t)
BY DEF NineFollows

\* The digits kept stand for what they stood for, and one more if the next digit
\* is a half or more; the carry out of the top is a digit in front.
LEMMA RoundsUp ==
  ASSUME NEW s \in Seq(Digits), NEW keep \in 0 .. Len(s) - 1, NEW w, IsValue(w, s),
         s[keep + 1] >= 5, NEW last \in 0 .. keep, LastRise(s, keep, last)
  PROVE  /\ RoundedUp(s, keep, last) \in Seq(Digits) /\ Len(RoundedUp(s, keep, last)) = keep
         /\ \A u : IsValue(u, RoundedUp(s, keep, last)) =>
              u[keep] + (IF last = 0 THEN Ten(keep) ELSE 0) = w[keep] + 1
<1>. DEFINE c == RoundedUp(s, keep, last)
<1>1. keep \in Nat /\ keep < Len(s) /\ last \in Nat /\ keep \in 0 .. keep
  OBVIOUS
<1>2. ASSUME NEW i \in 1 .. keep
      PROVE  /\ s[i] \in Digits /\ c[i] \in Digits
             /\ i < last => c[i] = s[i]
             /\ i = last => c[i] = s[i] + 1
             /\ i > last => c[i] = 0 /\ s[i] = 9
  <2>1. s[i] \in Digits
    BY <1>1
  <2>2. c[i] = IF i > last THEN 0 ELSE IF i = last THEN s[i] + 1 ELSE s[i]
    BY DEF RoundedUp
  <2>3. i > last => s[i] = 9
    BY <1>1 DEF LastRise
  <2>4. i = last => s[i] # 9
    BY <1>1 DEF LastRise
  <2>. HIDE DEF c
  <2>. QED BY <1>1, <2>1, <2>2, <2>3, <2>4 DEF Digits
<1>3. c \in [1 .. keep -> Digits]
  <2>1. c = [i \in 1 .. keep |-> c[i]]
    BY DEF RoundedUp
  <2>. HIDE DEF c
  <2>. QED BY <1>2, <2>1, Zenon
<1>. HIDE DEF c
<1>4. c \in Seq(Digits) /\ Len(c) = keep
  BY <1>1, <1>3
<1>5. ASSUME NEW u, IsValue(u, c)
      PROVE  u[keep] + (IF last = 0 THEN Ten(keep) ELSE 0) = w[keep] + 1
  <2>. DEFINE Good(i) ==
                {y \in Nat : IF i < last THEN y = w[i]
                             ELSE y + (IF last = 0 THEN Ten(i) ELSE 0) = w[i] + 1}
              S == [i \in 0 .. keep |-> Good(i)]
  <2>1. /\ \A i \in 0 .. keep : u[i] \in Nat /\ w[i] \in Nat
        /\ u[0] = 0 /\ w[0] = 0
        /\ \A i \in 1 .. keep : u[i] = 10 * u[i - 1] + c[i]
        /\ \A i \in 1 .. keep : w[i] = 10 * w[i - 1] + s[i]
    <3>1. \A i \in 0 .. keep : i \in 0 .. Len(s)
      BY <1>1
    <3>2. \A i \in 1 .. keep : i \in 1 .. Len(s)
      BY <1>1
    <3>. QED BY <1>4, <1>5, <3>1, <3>2, Zenon DEF IsValue
  <2>2. u[0] \in S[0]
    <3>1. u[0] \in Good(0)
      BY <1>1, <2>1, TenIs
    <3>. QED BY <1>1, <3>1
  <2>3. ASSUME NEW i \in 1 .. keep, u[i - 1] \in S[i - 1] PROVE u[i] \in S[i]
    <3>1. i \in 0 .. keep /\ i \in Nat /\ i - 1 \in 0 .. keep /\ i - 1 \in Nat
          /\ (i - 1) + 1 = i
      BY <1>1
    <3>2. u[i - 1] \in Good(i - 1)
      BY <2>3, <3>1
    <3>3. Ten(i - 1) \in Nat /\ Ten(i) \in Nat /\ Ten(i) = 10 * Ten(i - 1)
      BY <1>1, <3>1, TenIs, Zenon
    <3>4. u[i] = 10 * u[i - 1] + c[i] /\ w[i] = 10 * w[i - 1] + s[i]
          /\ u[i - 1] \in Nat /\ w[i - 1] \in Nat /\ u[i] \in Nat /\ w[i] \in Nat
      BY <2>1, <3>1
    <3>5. CASE i < last
      <4>1. u[i - 1] = w[i - 1] /\ c[i] = s[i]
        BY <1>1, <1>2, <3>2, <3>5
      <4>2. u[i] \in Good(i)
        BY <3>4, <3>5, <4>1
      <4>. QED BY <3>1, <4>2
    <3>6. CASE i = last
      <4>1. u[i - 1] = w[i - 1] /\ c[i] = s[i] + 1 /\ s[i] \in Int /\ ~(i < last) /\ last # 0
        BY <1>1, <1>2, <3>2, <3>6, SMTT(60) DEF Digits
      <4>2. u[i] = w[i] + 1
        BY <3>4, <4>1, OneMore
      <4>3. u[i] \in Good(i)
        BY <3>4, <4>1, <4>2
      <4>. QED BY <3>1, <4>3
    <3>7. CASE i > last
      <4>1. c[i] = 0 /\ s[i] = 9 /\ ~(i - 1 < last) /\ ~(i < last)
        BY <1>1, <1>2, <3>7
      <4>2. u[i - 1] + (IF last = 0 THEN Ten(i - 1) ELSE 0) = w[i - 1] + 1
        BY <3>2, <4>1
      <4>3. u[i] + (IF last = 0 THEN Ten(i) ELSE 0) = w[i] + 1
        <5>1. w[i] = 10 * w[i - 1] + 9 /\ u[i] = 10 * u[i - 1] + 0
          BY <3>4, <4>1, Zenon
        <5>2. CASE last = 0
          <6>1. u[i - 1] + Ten(i - 1) = w[i - 1] + 1
            BY <4>2, <5>2
          <6>2. u[i] + Ten(i) = w[i] + 1
            <7>1. (10 * u[i - 1] + 0) + 10 * Ten(i - 1) = (10 * w[i - 1] + 9) + 1
              <8>1. NineFollows(u[i - 1], w[i - 1], Ten(i - 1))
                BY <3>3, <3>4, NinePlusOne, Zenon
              <8>. QED BY <6>1, <8>1, Zenon DEF NineFollows
            <7>2. u[i] + 10 * Ten(i - 1) = w[i] + 1
              BY <5>1, <7>1, Zenon
            <7>. QED BY <3>3, <7>2, Zenon
          <6>. QED BY <5>2, <6>2
        <5>3. CASE last # 0
          <6>1. u[i - 1] = w[i - 1] + 1
            BY <3>4, <4>2, <5>3
          <6>2. u[i] = w[i] + 1
            <7>1. \A x \in Nat : 10 * (x + 1) + 0 = (10 * x + 9) + 1
              OBVIOUS
            <7>2. w[i - 1] \in Nat
              BY <3>4
            <7>. QED BY <5>1, <6>1, <7>1, <7>2, Zenon
          <6>. QED BY <3>4, <5>3, <6>2
        <5>. QED BY <5>2, <5>3
      <4>4. u[i] \in Good(i)
        BY <3>4, <4>1, <4>3
      <4>. QED BY <3>1, <4>4
    <3>. QED BY <1>1, <3>5, <3>6, <3>7
  <2>4. \A i \in 0 .. keep : u[i] \in S[i]
    <3>. HIDE DEF S
    <3>. QED BY <1>1, <2>2, <2>3, Climbs, Zenon
  <2>5. u[keep] \in Good(keep)
    BY <1>1, <2>4
  <2>. QED BY <1>1, <2>5
<1>. QED BY <1>4, <1>5 DEF c

\* What pas_round_half_up answers for digits that stand for w.
RoundsTo(s, keep, w, r) ==
  /\ r.d \in Seq(Digits) /\ Len(r.d) = keep /\ r.carry \in BOOLEAN
  /\ \A u : IsValue(u, r.d) =>
       u[keep] + (IF r.carry THEN Ten(keep) ELSE 0)
         = w[keep] + (IF s[keep + 1] >= 5 THEN 1 ELSE 0)
  /\ r.carry => \A i \in 1 .. keep : r.d[i] = 0 /\ s[i] = 9
  /\ ~r.carry /\ keep >= 1 => r.d[1] >= s[1]

LEMMA RoundingValue ==
  ASSUME NEW s \in Seq(Digits), NEW keep \in 0 .. Len(s) - 1, NEW w, IsValue(w, s)
  PROVE  RoundsTo(s, keep, w, Num!pas_round_half_up(s, keep))
<1>. DEFINE r == Num!pas_round_half_up(s, keep)
<1>1. RoundedTo(s, keep, r)
  BY RoundingIs
<1>. HIDE DEF r
<1>2. /\ keep \in Nat /\ keep + 1 \in 1 .. Len(s) /\ s[keep + 1] \in Int
      /\ \A i \in 1 .. keep : s[i] \in Digits
  BY DEF Digits
<1>3. CASE s[keep + 1] < 5
  <2>. DEFINE c == SubSeq(s, 1, keep)
  <2>1. r = [carry |-> FALSE, d |-> c] /\ ~(s[keep + 1] >= 5)
    BY <1>1, <1>2, <1>3 DEF RoundedTo
  <2>2. c \in Seq(Digits) /\ Len(c) = keep /\ \A i \in 1 .. keep : c[i] = s[i]
    BY <1>2
  <2>. HIDE DEF c
  <2>3. ASSUME NEW u, IsValue(u, c) PROVE u[keep] = w[keep] /\ w[keep] \in Nat
    <3>1. keep \in 0 .. Len(s) /\ keep <= Len(c) /\ keep \in 0 .. keep
      BY <1>2, <2>2
    <3>2. \A i \in 0 .. keep : u[i] = w[i]
      BY <2>2, <2>3, <3>1, ValuesAgree
    <3>3. w[keep] \in Nat
      BY <3>1, Zenon DEF IsValue
    <3>. QED BY <3>1, <3>2, <3>3
  <2>4. ASSUME NEW u, IsValue(u, c) PROVE u[keep] + 0 = w[keep] + 0
    BY <2>3, <2>4
  <2>5. r.carry = FALSE /\ r.d = c
    BY <2>1
  <2>6. keep >= 1 => c[1] >= s[1]
    <3>1. ASSUME keep >= 1 PROVE 1 \in 1 .. keep
      BY <1>2, <3>1
    <3>. QED BY <1>2, <2>2, <3>1 DEF Digits
  <2>. QED BY <2>1, <2>2, <2>4, <2>5, <2>6, Zenon DEF RoundsTo, r
<1>4. CASE ~(s[keep + 1] < 5)
  <2>1. s[keep + 1] >= 5
    BY <1>2, <1>4
  <2>2. PICK last \in 0 .. keep :
          LastRise(s, keep, last) /\ r = [carry |-> last = 0, d |-> RoundedUp(s, keep, last)]
    BY <1>1, <1>4, Zenon DEF RoundedTo
  <2>. DEFINE c == RoundedUp(s, keep, last)
  <2>3. /\ c \in Seq(Digits) /\ Len(c) = keep
        /\ \A u : IsValue(u, c) =>
             u[keep] + (IF last = 0 THEN Ten(keep) ELSE 0) = w[keep] + 1
    BY <2>1, <2>2, RoundsUp
  <2>4. r.carry = (last = 0) /\ r.d = c
    BY <2>2
  <2>5. last = 0 => \A i \in 1 .. keep : c[i] = 0 /\ s[i] = 9
    BY <1>2, <2>2 DEF RoundedUp, LastRise
  <2>6. last # 0 /\ keep >= 1 => c[1] >= s[1]
    <3>1. ASSUME last # 0, keep >= 1 PROVE c[1] >= s[1]
      <4>1. 1 \in 1 .. keep /\ ~(1 > last) /\ s[1] \in Int
        BY <1>2, <3>1 DEF Digits
      <4>2. c[1] = IF 1 = last THEN s[1] + 1 ELSE s[1]
        BY <4>1 DEF RoundedUp
      <4>. QED BY <4>1, <4>2
    <3>. QED BY <3>1
  <2>. HIDE DEF c
  <2>7. (last = 0) \in BOOLEAN
    OBVIOUS
  <2>8. \A u : IsValue(u, r.d) =>
          u[keep] + (IF r.carry THEN Ten(keep) ELSE 0)
            = w[keep] + (IF s[keep + 1] >= 5 THEN 1 ELSE 0)
    BY <2>1, <2>3, <2>4, Zenon
  <2>. QED BY <2>3, <2>4, <2>5, <2>6, <2>7, <2>8, Zenon DEF RoundsTo, r
<1>. QED BY <1>3, <1>4

\* The digits up to the q-th, rounded by the next one, are the number over a
\* power of ten, rounded half up.
LEMMA HalfUp ==
  ASSUME NEW a \in Nat, NEW c \in Digits, NEW h \in Nat, h > 0, NEW n \in Nat,
         (10 * a + c) * h <= n, n < (10 * a + c + 1) * h
  PROVE  (n + 5 * h) \div (10 * h) = a + (IF c >= 5 THEN 1 ELSE 0)
<1>. DEFINE ah == a * h
            ch == c * h
            t == 10 * h
            m == n + 5 * h
<1>1. c \in 0 .. 9 /\ ah \in Nat /\ ch \in Nat /\ t \in Nat /\ t > 0 /\ m \in Nat
  BY DEF Digits
<1>2. (10 * a + c) * h = 10 * ah + ch /\ (10 * a + c + 1) * h = 10 * ah + ch + h
  BY <1>1
<1>3. a * t = 10 * ah /\ (a + 1) * t = 10 * ah + 10 * h /\ ((a + 1) + 1) * t = 10 * ah + 20 * h
  BY <1>1
<1>4. CASE c >= 5
  <2>1. ch >= 5 * h /\ ch <= 9 * h
    BY <1>1, <1>4
  <2>. HIDE DEF ah, ch, t
  <2>2. (a + 1) * t <= m /\ m < ((a + 1) + 1) * t
    BY <1>1, <1>2, <1>3, <2>1
  <2>. HIDE DEF m
  <2>3. m \div t = a + 1
    BY <1>1, <2>2, QuotientIs, a + 1 \in Nat
  <2>. QED BY <1>4, <2>3 DEF m, t
<1>5. CASE ~(c >= 5)
  <2>1. ch <= 4 * h
    BY <1>1, <1>5
  <2>. HIDE DEF ah, ch, t
  <2>2. a * t <= m /\ m < (a + 1) * t
    BY <1>1, <1>2, <1>3, <2>1
  <2>. HIDE DEF m
  <2>3. m \div t = a
    BY <1>1, <2>2, QuotientIs
  <2>. QED BY <1>5, <2>3 DEF m, t
<1>. QED BY <1>4, <1>5

LEMMA TenGrows ==
  ASSUME NEW i \in Nat, NEW k \in Nat
  PROVE  Ten(i) <= Ten(i + k)
<1>. DEFINE g == [j \in 0 .. k |-> Ten(i + j)]
            S == [j \in 0 .. k |-> {x \in Nat : Ten(i) <= x}]
<1>1. 0 \in 0 .. k /\ k \in 0 .. k /\ i + 0 = i
  OBVIOUS
<1>2. g[0] \in S[0]
  BY <1>1, TenIs
<1>3. ASSUME NEW j \in 1 .. k, g[j - 1] \in S[j - 1] PROVE g[j] \in S[j]
  <2>1. /\ j \in 0 .. k /\ j - 1 \in 0 .. k /\ i + (j - 1) \in Nat
        /\ (i + (j - 1)) + 1 = i + j
    OBVIOUS
  <2>2. Ten(i) <= Ten(i + (j - 1))
    BY <1>3, <2>1
  <2>3. Ten(i + (j - 1)) \in Nat /\ Ten(i + j) = 10 * Ten(i + (j - 1)) /\ Ten(i) \in Nat
    BY <2>1, TenIs, Zenon
  <2>4. Ten(i) <= Ten(i + j) /\ Ten(i + j) \in Nat
    BY <2>2, <2>3
  <2>. QED BY <2>1, <2>4
<1>4. \A j \in 0 .. k : g[j] \in S[j]
  <2>. HIDE DEF g, S
  <2>. QED BY <1>2, <1>3, Climbs, Zenon
<1>. QED BY <1>1, <1>4

LEMMA RoundedIs ==
  ASSUME NEW d \in Seq(Digits), NEW v, IsValue(v, d), NEW q \in Int
  PROVE  Rounded(v[Len(d)], Len(d) - q)
           = UpTo(d, v, q) + (IF DigitAt(d, q + 1) >= 5 THEN 1 ELSE 0)
<1>. DEFINE L == Len(d)
            n == v[L]
            k == L - q
<1>1. L \in Nat /\ k \in Int /\ L \in 0 .. L
  OBVIOUS
<1>2. (\A i \in 0 .. L : v[i] \in Nat) /\ v[0] = 0
  BY Zenon DEF IsValue
<1>3. n \in Nat
  BY <1>1, <1>2
<1>4. CASE k <= 0
  <2>1. -k \in Nat /\ -k = q - L /\ q >= L /\ DigitAt(d, q + 1) = 0
    BY <1>1, <1>4 DEF DigitAt
  <2>2. Ten(-k) \in Nat /\ Ten(0) = 1
    BY <2>1, TenIs, Zenon
  <2>3. UpTo(d, v, q) = n * Ten(-k)
    <3>1. CASE q <= 0
      <4>1. L = 0 /\ n = 0
        BY <1>1, <1>2, <2>1, <3>1
      <4>. QED BY <2>2, <3>1, <4>1 DEF UpTo
    <3>2. CASE q > 0 /\ q <= L
      <4>1. q = L /\ -k = 0
        BY <1>1, <2>1, <3>2
      <4>. QED BY <1>3, <2>2, <3>2, <4>1 DEF UpTo
    <3>3. CASE q > 0 /\ q > L
      BY <1>1, <2>1, <3>3 DEF UpTo
    <3>. QED BY <1>1, <3>1, <3>2, <3>3
  <2>4. Rounded(n, k) = n * Ten(-k)
    BY <1>4, Zenon DEF Rounded
  <2>. HIDE DEF n, k
  <2>5. n * Ten(-k) \in Nat
    BY <1>3, <2>2
  <2>. QED BY <2>1, <2>3, <2>4, <2>5 DEF n, k, L
<1>5. CASE k > 0 /\ q >= 0
  <2>. DEFINE h == Ten(k - 1)
              a == v[q]
              c == d[q + 1]
  <2>1. k - 1 \in Nat /\ (k - 1) + 1 = k /\ ~(k <= 0) /\ q \in 0 .. L /\ q + 1 \in 1 .. L
        /\ q + 1 \in 0 .. L /\ (q + 1) + (k - 1) = L /\ k - 1 \in 0 .. L - (q + 1)
    BY <1>1, <1>5
  <2>2. h \in Nat /\ h > 0 /\ Ten(k) = 10 * h
    BY <2>1, TenIs, Zenon
  <2>3. a \in Nat /\ c \in Digits
    BY <1>2, <2>1
  <2>4. v[q + 1] = 10 * a + c
    <3>1. v[q + 1] = 10 * v[(q + 1) - 1] + d[q + 1]
      BY <2>1, Zenon DEF IsValue
    <3>2. (q + 1) - 1 = q
      OBVIOUS
    <3>. QED BY <3>1, <3>2, Zenon
  <2>5. v[q + 1] * h <= n /\ n < (v[q + 1] + 1) * h
    <3>1. v[q + 1] * h <= v[(q + 1) + (k - 1)] /\ v[(q + 1) + (k - 1)] < (v[q + 1] + 1) * h
      BY <2>1, ValueSplits, Zenon
    <3>. QED BY <2>1, <3>1, Zenon
  <2>6. Rounded(n, k) = (n + 5 * h) \div Ten(k)
    BY <2>1, Zenon DEF Rounded
  <2>7. DigitAt(d, q + 1) = c
    BY <2>1, Zenon DEF DigitAt
  <2>8. UpTo(d, v, q) = a
    <3>1. CASE q = 0
      BY <1>2, <3>1 DEF UpTo
    <3>2. CASE q # 0
      <4>1. ~(q <= 0) /\ q <= Len(d)
        BY <1>1, <1>5, <3>2
      <4>. QED BY <4>1, Zenon DEF UpTo
    <3>. QED BY <3>1, <3>2
  <2>. HIDE DEF n, h, a, c, k
  <2>9. (10 * a + c) * h <= n /\ n < (10 * a + c + 1) * h
    BY <2>4, <2>5, Zenon
  <2>10. (n + 5 * h) \div (10 * h) = a + (IF c >= 5 THEN 1 ELSE 0)
    BY <1>3, <2>2, <2>3, <2>9, HalfUp
  <2>. QED BY <2>2, <2>6, <2>7, <2>8, <2>10, Zenon DEF n, k, L
<1>6. CASE k > 0 /\ q < 0
  <2>. DEFINE h == Ten(k - 1)
              e == (k - 1) - L
  <2>1. k - 1 \in Nat /\ (k - 1) + 1 = k /\ ~(k <= 0) /\ e \in Nat /\ L + e = k - 1
        /\ 0 \in 0 .. L /\ L \in 0 .. L - 0 /\ 0 + L = L
    BY <1>1, <1>6
  <2>2. h \in Nat /\ h > 0 /\ Ten(k) = 10 * h
    BY <2>1, TenIs, Zenon
  <2>3. v[0] * Ten(L) <= v[0 + L] /\ v[0 + L] < (v[0] + 1) * Ten(L)
    BY <2>1, ValueSplits, Zenon
  <2>4. Ten(L) \in Nat /\ Ten(L) <= Ten(L + e)
    BY <1>1, <2>1, TenIs, TenGrows, Zenon
  <2>5. n < (0 + 1) * Ten(L)
    BY <1>2, <2>1, <2>3, Zenon
  <2>6. Rounded(n, k) = (n + 5 * h) \div Ten(k)
    BY <2>1, Zenon DEF Rounded
  <2>7. DigitAt(d, q + 1) = 0 /\ UpTo(d, v, q) = 0
    BY <1>6 DEF DigitAt, UpTo
  <2>8. Ten(L) <= h
    BY <2>1, <2>4, Zenon
  <2>. HIDE DEF n, h, k, e
  <2>9. n < h
    BY <1>3, <2>2, <2>4, <2>5, <2>8
  <2>10. (10 * 0 + 0) * h <= n /\ n < (10 * 0 + 0 + 1) * h /\ 0 \in Digits /\ 0 \in Nat
    BY <1>3, <2>2, <2>9 DEF Digits
  <2>11. (n + 5 * h) \div (10 * h) = 0 + (IF 0 >= 5 THEN 1 ELSE 0)
    BY <1>3, <2>2, <2>10, HalfUp
  <2>. QED BY <2>2, <2>6, <2>7, <2>11, Zenon DEF n, k, L
<1>. QED BY <1>1, <1>4, <1>5, <1>6

\* Digits d shifted right by a zeros to s, and rounded to r after keep of them.
ShiftedTo(d, a, s, keep, r) ==
  /\ r.d \in Seq(Digits) /\ Len(r.d) = keep /\ r.carry \in BOOLEAN
  /\ r.carry => \A i \in 1 .. keep : r.d[i] = 0 /\ s[i] = 9
  /\ ~r.carry /\ keep >= 1 => r.d[1] >= s[1]
  /\ Num!Natural(r.d) + (IF r.carry THEN Ten(keep) ELSE 0)
       = Rounded(Num!Natural(d), Len(d) - (keep - a))
LEMMA ShiftedRounds ==
  ASSUME NEW d \in Seq(Digits), NEW s \in Seq(Digits), NEW keep \in 0 .. Len(s) - 1,
         NEW a \in Nat, \A i \in 1 .. keep + 1 : s[i] = DigitAt(d, i - a)
  PROVE  ShiftedTo(d, a, s, keep, Num!pas_round_half_up(s, keep))
<1>. DEFINE r == Num!pas_round_half_up(s, keep)
            v == ValueTo(d)
            w == ValueTo(s)
            u == ValueTo(r.d)
            q == keep - a
<1>1. IsValue(v, d) /\ Num!Natural(d) = v[Len(d)] /\ IsValue(w, s)
  BY ValueExists, Zenon
<1>. HIDE DEF v, w
<1>2. RoundsTo(s, keep, w, r)
  BY <1>1, RoundingValue, Zenon
<1>. HIDE DEF r
<1>3. r.d \in Seq(Digits) /\ Len(r.d) = keep
  BY <1>2, Zenon DEF RoundsTo
<1>4. IsValue(u, r.d) /\ Num!Natural(r.d) = u[keep]
  BY <1>3, ValueExists, Zenon
<1>. HIDE DEF u
<1>5. keep \in 0 .. Len(s) /\ q \in Int /\ keep + 1 \in 1 .. keep + 1
      /\ (keep + 1) - a = q + 1 /\ \A i \in 1 .. keep : i \in 1 .. keep + 1
  OBVIOUS
<1>6. w[keep] = UpTo(d, v, q)
  <2>1. Shifts(d, a, s, keep)
    BY <1>5, Zenon DEF Shifts
  <2>. QED BY <1>1, <1>5, <2>1, ShiftedValue
<1>7. s[keep + 1] = DigitAt(d, q + 1)
  BY <1>5, Zenon
<1>8. Rounded(v[Len(d)], Len(d) - q)
        = UpTo(d, v, q) + (IF DigitAt(d, q + 1) >= 5 THEN 1 ELSE 0)
  BY <1>1, <1>5, RoundedIs
<1>9. u[keep] + (IF r.carry THEN Ten(keep) ELSE 0)
        = w[keep] + (IF s[keep + 1] >= 5 THEN 1 ELSE 0)
  BY <1>2, <1>4, Zenon DEF RoundsTo
<1>10. Num!Natural(r.d) + (IF r.carry THEN Ten(keep) ELSE 0)
         = Rounded(Num!Natural(d), Len(d) - (keep - a))
  BY <1>1, <1>4, <1>6, <1>7, <1>8, <1>9, Zenon
<1>. QED BY <1>2, <1>10, Zenon DEF RoundsTo, ShiftedTo, r

-----------------------------------------------------------------------------
(* The fixed-point form.                                                   *)

LEMMA ZerosAre ==
  ASSUME NEW n \in Nat
  PROVE  /\ Num!Zeros(n) \in Seq(Digits) /\ Len(Num!Zeros(n)) = n
         /\ \A i \in 1 .. n : Num!Zeros(n)[i] = 0
BY DEF Num!Zeros, Digits

LEMMA JoinIs ==
  ASSUME NEW S, NEW a \in Seq(S), NEW b \in Seq(S)
  PROVE  /\ a \o b \in Seq(S) /\ Len(a \o b) = Len(a) + Len(b)
         /\ \A i \in 1 .. Len(a) : (a \o b)[i] = a[i]
         /\ \A i \in Len(a) + 1 .. Len(a) + Len(b) : (a \o b)[i] = b[i - Len(a)]
OBVIOUS

LEMMA IntDigitsAre ==
  ASSUME NEW d \in Seq(Digits), NEW e \in Int
  PROVE  LET x == Num!IntDigits(RealOf(d, e))
         IN /\ x \in Seq(Digits)
            /\ e < 0 => Len(x) = 1 /\ x[1] = 0
            /\ e >= 0 => Len(x) = e + 1 /\ \A i \in 1 .. e + 1 : x[i] = DigitAt(d, i)
<1>. DEFINE x == Num!IntDigits(RealOf(d, e))
            z == Num!Zeros(e + 1)
<1>1. RealOf(d, e).exp = e /\ RealOf(d, e).digits = d
  BY DEF RealOf
<1>2. CASE e < 0
  <2>1. x = <<0>>
    BY <1>1, <1>2, Zenon DEF Num!IntDigits
  <2>. QED BY <1>2, <2>1 DEF Digits
<1>3. CASE ~(e < 0)
  <2>1. x = SubSeq(d \o z, 1, e + 1)
    BY <1>1, <1>3, Zenon DEF Num!IntDigits
  <2>2. e + 1 \in Nat
    BY <1>3
  <2>3. z \in Seq(Digits) /\ Len(z) = e + 1 /\ \A i \in 1 .. e + 1 : z[i] = 0
    BY <2>2, ZerosAre
  <2>. HIDE DEF z
  <2>4. /\ d \o z \in Seq(Digits) /\ Len(d \o z) = Len(d) + (e + 1)
        /\ \A i \in 1 .. e + 1 : (d \o z)[i] = DigitAt(d, i)
    BY <2>2, <2>3 DEF DigitAt
  <2>. DEFINE y == d \o z
  <2>. HIDE DEF y
  <2>5. /\ y \in Seq(Digits) /\ e + 1 <= Len(y)
        /\ \A i \in 1 .. e + 1 : y[i] = DigitAt(d, i)
    BY <2>2, <2>4 DEF y
  <2>6. x = SubSeq(y, 1, e + 1)
    BY <2>1 DEF y
  <2>. HIDE DEF x
  <2>7. x \in Seq(Digits) /\ Len(x) = e + 1 /\ \A i \in 1 .. e + 1 : x[i] = y[i]
    BY <2>2, <2>5, <2>6
  <2>. QED BY <1>3, <2>2, <2>5, <2>7 DEF x
<1>. QED BY <1>2, <1>3

LEMMA FracDigitsAre ==
  ASSUME NEW d \in Seq(Digits), NEW e \in Int, NEW want \in Nat
  PROVE  LET y == Num!FracDigits(RealOf(d, e), want)
         IN /\ y \in Seq(Digits) /\ Len(y) = want
            /\ \A i \in 1 .. want : y[i] = DigitAt(d, i + (e + 1))
<1>. DEFINE all == IF e < 0 THEN Num!Zeros(-e - 1) \o d ELSE SubSeq(d, e + 2, Len(d))
            z == Num!Zeros(want)
            y == Num!FracDigits(RealOf(d, e), want)
<1>1. RealOf(d, e).exp = e /\ RealOf(d, e).digits = d
  BY DEF RealOf
<1>2. y = SubSeq(all \o z, 1, want)
  BY <1>1, Zenon DEF Num!FracDigits
<1>3. z \in Seq(Digits) /\ Len(z) = want /\ \A i \in 1 .. want : z[i] = 0
  BY ZerosAre
<1>4. /\ all \in Seq(Digits)
      /\ \A i \in 1 .. Len(all) : all[i] = DigitAt(d, i + (e + 1))
      /\ \A i \in Nat : i > Len(all) => DigitAt(d, i + (e + 1)) = 0
  <2>1. CASE e < 0
    <3>. DEFINE o == Num!Zeros(-e - 1)
    <3>1. -e - 1 \in Nat
      BY <2>1
    <3>2. o \in Seq(Digits) /\ Len(o) = -e - 1 /\ \A i \in 1 .. -e - 1 : o[i] = 0
      BY <3>1, ZerosAre
    <3>3. all = o \o d
      BY <2>1
    <3>. HIDE DEF o, all
    <3>4. all \in Seq(Digits) /\ Len(all) = -e - 1 + Len(d)
      BY <3>1, <3>2, <3>3
    <3>5. ASSUME NEW i \in 1 .. Len(all) PROVE all[i] = DigitAt(d, i + (e + 1))
      <4>1. CASE i <= -e - 1
        <5>1. i \in 1 .. -e - 1 /\ i + (e + 1) \notin 1 .. Len(d)
          BY <3>1, <4>1
        <5>2. all[i] = o[i]
          BY <3>1, <3>2, <3>3, <5>1
        <5>. QED BY <3>2, <5>1, <5>2, Zenon DEF DigitAt
      <4>2. CASE i > -e - 1
        <5>1. i + (e + 1) \in 1 .. Len(d) /\ i - (-e - 1) = i + (e + 1)
          BY <3>1, <3>4, <4>2
        <5>2. all[i] = d[i - (-e - 1)]
          BY <3>1, <3>2, <3>3, <4>2, <5>1
        <5>. QED BY <5>1, <5>2, Zenon DEF DigitAt
      <4>. QED BY <3>1, <4>1, <4>2
    <3>6. \A i \in Nat : i > Len(all) => DigitAt(d, i + (e + 1)) = 0
      BY <3>1, <3>4 DEF DigitAt
    <3>. QED BY <3>4, <3>5, <3>6
  <2>2. CASE ~(e < 0)
    <3>1. all = SubSeq(d, e + 2, Len(d)) /\ e \in Nat /\ Len(d) \in Nat
      BY <2>2
    <3>. HIDE DEF all
    <3>2. CASE e + 2 <= Len(d)
      <4>1. all \in Seq(Digits) /\ Len(all) = Len(d) - (e + 1)
            /\ \A i \in 1 .. Len(all) : all[i] = d[e + 2 + i - 1]
        BY <3>1, <3>2
      <4>2. ASSUME NEW i \in 1 .. Len(all) PROVE all[i] = DigitAt(d, i + (e + 1))
        <5>1. e + 2 + i - 1 = i + (e + 1) /\ i + (e + 1) \in 1 .. Len(d)
          BY <3>1, <4>1
        <5>. QED BY <4>1, <5>1, Zenon DEF DigitAt
      <4>3. \A i \in Nat : i > Len(all) => DigitAt(d, i + (e + 1)) = 0
        BY <3>1, <4>1 DEF DigitAt
      <4>. QED BY <4>1, <4>2, <4>3
    <3>3. CASE ~(e + 2 <= Len(d))
      <4>1. all = <<>>
        BY <3>1, <3>3
      <4>2. \A i \in Nat : i > 0 => DigitAt(d, i + (e + 1)) = 0
        BY <3>1, <3>3 DEF DigitAt
      <4>. QED BY <4>1, <4>2
    <3>. QED BY <3>2, <3>3
  <2>. QED BY <2>1, <2>2
<1>. HIDE DEF all, z
<1>. DEFINE t == all \o z
<1>5. /\ t \in Seq(Digits) /\ want <= Len(t)
      /\ \A i \in 1 .. want : t[i] = IF i <= Len(all) THEN all[i] ELSE z[i - Len(all)]
  BY <1>3, <1>4
<1>. HIDE DEF t
<1>6. ASSUME NEW i \in 1 .. want PROVE t[i] = DigitAt(d, i + (e + 1))
  <2>1. CASE i <= Len(all)
    <3>1. i \in 1 .. Len(all)
      BY <1>4, <2>1
    <3>. QED BY <1>4, <1>5, <2>1, <3>1, Zenon
  <2>2. CASE ~(i <= Len(all))
    <3>1. i \in Nat /\ i > Len(all) /\ i - Len(all) \in 1 .. want
      BY <1>4, <2>2
    <3>. QED BY <1>3, <1>4, <1>5, <2>2, <3>1, Zenon
  <2>. QED BY <2>1, <2>2
<1>7. y = SubSeq(t, 1, want)
  BY <1>2 DEF t
<1>. HIDE DEF y
<1>8. y \in Seq(Digits) /\ Len(y) = want /\ \A i \in 1 .. want : y[i] = t[i]
  BY <1>5, <1>7
<1>. QED BY <1>6, <1>8 DEF y

\* The digits that the fixed-point form rounds: those of the expansion behind
\* as many zeros as the first one is to the right of the spare digit.
Before(e) == IF e < 0 THEN 1 - e ELSE 1
FixedDigits(d, e, want) ==
  <<0>> \o Num!IntDigits(RealOf(d, e)) \o Num!FracDigits(RealOf(d, e), want)
LEMMA FixedDigitsAre ==
  ASSUME NEW d \in Seq(Digits), NEW e \in Int, NEW want \in Nat
  PROVE  LET s == FixedDigits(d, e, want)
             ilen == 1 + Len(Num!IntDigits(RealOf(d, e)))
         IN /\ s \in Seq(Digits) /\ ilen \in Nat /\ ilen >= 2 /\ Len(s) = ilen + want
            /\ ilen - Before(e) = e + 1
            /\ \A i \in 1 .. Len(s) : s[i] = DigitAt(d, i - Before(e))
<1>. DEFINE x == Num!IntDigits(RealOf(d, e))
            y == Num!FracDigits(RealOf(d, e), want)
            s == FixedDigits(d, e, want)
            n == Len(x)
<1>1. /\ x \in Seq(Digits)
      /\ e < 0 => Len(x) = 1 /\ x[1] = 0
      /\ e >= 0 => Len(x) = e + 1 /\ \A i \in 1 .. e + 1 : x[i] = DigitAt(d, i)
  BY IntDigitsAre
<1>2. /\ y \in Seq(Digits) /\ Len(y) = want
      /\ \A i \in 1 .. want : y[i] = DigitAt(d, i + (e + 1))
  BY FracDigitsAre
<1>3. s = <<0>> \o x \o y
  BY DEF FixedDigits
<1>. HIDE DEF x, y, s
<1>4. n \in Nat /\ n >= 1 /\ (e < 0 => n = 1) /\ (e >= 0 => n = e + 1) /\ Before(e) \in Nat
      /\ Before(e) >= 1 /\ (1 + n) - Before(e) = e + 1
  BY <1>1 DEF Before
<1>. DEFINE o == <<0>> \o x
<1>5. /\ o \in Seq(Digits) /\ Len(o) = 1 + n /\ o[1] = 0
      /\ \A i \in 2 .. 1 + n : o[i] = x[i - 1]
  BY <1>1 DEF Digits
<1>6. s = o \o y
  BY <1>3
<1>. HIDE DEF o, n
<1>7. /\ s \in Seq(Digits) /\ Len(s) = 1 + n + want
      /\ \A i \in 1 .. 1 + n : s[i] = o[i]
      /\ \A i \in 1 + n + 1 .. Len(s) : s[i] = y[i - (1 + n)]
  <2>1. /\ s \in Seq(Digits) /\ Len(s) = Len(o) + Len(y)
        /\ \A i \in 1 .. Len(o) : s[i] = o[i]
        /\ \A i \in Len(o) + 1 .. Len(o) + Len(y) : s[i] = y[i - Len(o)]
    BY <1>2, <1>5, <1>6, JoinIs, Zenon
  <2>. QED BY <1>2, <1>5, <2>1, Zenon
<1>8. ASSUME NEW i \in 1 .. Len(s) PROVE s[i] = DigitAt(d, i - Before(e))
  <2>1. CASE i = 1
    <3>1. i - Before(e) \notin 1 .. Len(d) /\ i \in 1 .. 1 + n
      BY <1>4, <2>1
    <3>. QED BY <1>5, <1>7, <2>1, <3>1, Zenon DEF DigitAt
  <2>2. CASE i \in 2 .. 1 + n
    <3>1. s[i] = x[i - 1] /\ i - 1 \in 1 .. n
      BY <1>4, <1>5, <1>7, <2>2
    <3>2. CASE e < 0
      <4>1. i - 1 = 1 /\ i - Before(e) \notin 1 .. Len(d)
        BY <1>4, <2>2, <3>2 DEF Before
      <4>2. x[1] = 0
        BY <1>1, <3>2
      <4>. QED BY <3>1, <4>1, <4>2, Zenon DEF DigitAt
    <3>3. CASE ~(e < 0)
      <4>1. i - Before(e) = i - 1 /\ i - 1 \in 1 .. e + 1 /\ e >= 0
        BY <1>4, <3>1, <3>3 DEF Before
      <4>. QED BY <1>1, <3>1, <4>1, Zenon
    <3>. QED BY <3>2, <3>3
  <2>3. CASE i \in 1 + n + 1 .. Len(s)
    <3>1. i - (1 + n) \in 1 .. want /\ (i - (1 + n)) + (e + 1) = i - Before(e)
      <4>1. i \in Int /\ 1 + n + 1 <= i /\ i <= 1 + n + want /\ n \in Int
        BY <1>4, <1>7, <2>3
      <4>2. Before(e) \in Int /\ (1 + n) - Before(e) = e + 1
        BY <1>4
      <4>. QED BY <4>1, <4>2
    <3>. QED BY <1>2, <1>7, <2>3, <3>1, Zenon
  <2>. QED BY <1>4, <1>7, <2>1, <2>2, <2>3
<1>9. /\ s \in Seq(Digits) /\ 1 + n \in Nat /\ 1 + n >= 2 /\ Len(s) = (1 + n) + want
      /\ (1 + n) - Before(e) = e + 1
  BY <1>4, <1>7
<1>. QED BY <1>8, <1>9, Zenon DEF s, x, n

LEMMA DropZeros ==
  ASSUME NEW d \in Seq(Digits), NEW first \in 1 .. Len(d), \A i \in 1 .. first - 1 : d[i] = 0
  PROVE  Num!Natural(SubSeq(d, first, Len(d))) = Num!Natural(d)
<1>. DEFINE t == SubSeq(d, first, Len(d))
            a == first - 1
            v == ValueTo(t)
            w == ValueTo(d)
            n == Len(d)
<1>1. /\ t \in Seq(Digits) /\ Len(t) = n - a /\ a \in Nat /\ n - a \in Nat /\ n - a >= 1
      /\ \A i \in 1 .. Len(t) : t[i] = d[i + a]
  <2>1. \A i \in 1 .. Len(t) : i + a = first + i - 1
    OBVIOUS
  <2>. QED BY <2>1
<1>. HIDE DEF t
<1>2. IsValue(v, t) /\ Num!Natural(t) = v[Len(t)] /\ IsValue(w, d) /\ Num!Natural(d) = w[n]
  BY <1>1, ValueExists, Zenon
<1>. HIDE DEF v, w
<1>3. ASSUME NEW i \in 1 .. n PROVE d[i] = DigitAt(t, i - a)
  <2>1. CASE i <= a
    <3>1. i \in 1 .. first - 1 /\ i - a \notin 1 .. Len(t)
      BY <1>1, <2>1
    <3>. QED BY <3>1, Zenon DEF DigitAt
  <2>2. CASE ~(i <= a)
    <3>1. i - a \in 1 .. Len(t) /\ (i - a) + a = i
      BY <1>1, <2>2
    <3>2. t[i - a] = d[(i - a) + a]
      BY <1>1, <3>1, Zenon
    <3>. QED BY <3>1, <3>2, Zenon DEF DigitAt
  <2>. QED BY <2>1, <2>2
<1>4. n \in 0 .. Len(d)
  OBVIOUS
<1>5. w[n] = UpTo(t, v, n - a)
  <2>1. Shifts(t, a, d, n)
    BY <1>3, Zenon DEF Shifts
  <2>2. a \in Nat /\ t \in Seq(Digits) /\ d \in Seq(Digits) /\ IsValue(v, t) /\ IsValue(w, d)
    BY <1>1, <1>2, Zenon
  <2>. HIDE DEF a, n
  <2>. QED BY <1>4, <2>1, <2>2, ShiftedValue, Zenon
<1>6. UpTo(t, v, n - a) = v[Len(t)]
  BY <1>1 DEF UpTo
<1>. QED BY <1>2, <1>5, <1>6, Zenon DEF t

LEMMA ZeroIs ==
  ASSUME NEW d \in Seq(Digits)
  PROVE  Num!Natural(d) = 0 <=> \A i \in 1 .. Len(d) : d[i] = 0
<1>. DEFINE v == ValueTo(d)
            n == Len(d)
<1>1. IsValue(v, d) /\ Num!Natural(d) = v[n] /\ n \in Nat /\ n \in 0 .. n
  BY ValueExists
<1>. HIDE DEF v
<1>2. ASSUME \A i \in 1 .. n : d[i] = 0 PROVE v[n] = 0
  <2>. DEFINE S == [i \in 0 .. n |-> {0}]
  <2>1. v[0] \in S[0]
    BY <1>1 DEF IsValue
  <2>2. ASSUME NEW i \in 1 .. n, v[i - 1] \in S[i - 1] PROVE v[i] \in S[i]
    <3>1. i \in 0 .. n /\ i - 1 \in 0 .. n
      BY <1>1
    <3>2. v[i - 1] = 0
      BY <2>2, <3>1
    <3>3. v[i] = 10 * v[i - 1] + d[i] /\ d[i] = 0
      BY <1>1, <1>2, Zenon DEF IsValue
    <3>4. v[i] = 0
      BY <3>2, <3>3
    <3>. QED BY <3>1, <3>4
  <2>3. \A i \in 0 .. n : v[i] \in S[i]
    <3>. HIDE DEF S, n
    <3>. QED BY <1>1, <2>1, <2>2, Climbs, Zenon
  <2>. QED BY <1>1, <2>3
<1>3. ASSUME NEW i \in 1 .. n, d[i] # 0 PROVE v[n] # 0
  <2>. DEFINE t == Ten(n - i)
  <2>1. i \in 0 .. n /\ i - 1 \in 0 .. n /\ n - i \in Nat /\ n - i \in 0 .. n - i /\ i + (n - i) = n
    BY <1>1
  <2>2. v[i] \in Nat /\ v[i - 1] \in Nat /\ v[n] \in Nat
    BY <1>1, <2>1, Zenon DEF IsValue
  <2>3. v[i] = 10 * v[i - 1] + d[i]
    BY <1>1, Zenon DEF IsValue
  <2>4. d[i] \in Nat /\ d[i] > 0
    BY <1>1, <1>3 DEF Digits
  <2>5. v[i] > 0
    BY <2>2, <2>3, <2>4
  <2>6. v[i] * t <= v[i + (n - i)]
    BY <1>1, <2>1, ValueSplits, Zenon
  <2>7. t \in Nat /\ t > 0
    BY <2>1, TenIs, Zenon
  <2>8. v[i] * t <= v[n]
    BY <2>1, <2>6, Zenon
  <2>. HIDE DEF t
  <2>9. v[i] * t \in Nat /\ v[i] * t > 0
    BY <2>2, <2>5, <2>7
  <2>. QED BY <2>2, <2>8, <2>9
<1>. QED BY <1>1, <1>2, <1>3, Zenon

LEMMA IntPlacesAre ==
  ASSUME NEW d \in Seq(Digits), NEW e \in Int
  PROVE  Len(Num!IntDigits(RealOf(d, e))) = IntPlaces(e)
<1>. DEFINE x == Num!IntDigits(RealOf(d, e))
<1>1. (e < 0 => Len(x) = 1) /\ (e >= 0 => Len(x) = e + 1)
  BY IntDigitsAre, Zenon
<1>. HIDE DEF x
<1>2. Len(x) = IntPlaces(e)
  BY <1>1 DEF IntPlaces
<1>. QED BY <1>2 DEF x

FixedHold(d, e, want, s) ==
  /\ s \in Seq(Digits) /\ Len(s) = 1 + IntPlaces(e) + want
  /\ (1 + IntPlaces(e)) - Before(e) = e + 1
  /\ \A i \in 1 .. Len(s) : s[i] = DigitAt(d, i - Before(e))
LEMMA FixedDigitsHold ==
  ASSUME NEW d \in Seq(Digits), NEW e \in Int, NEW want \in Nat
  PROVE  FixedHold(d, e, want, FixedDigits(d, e, want))
<1>. DEFINE s == FixedDigits(d, e, want)
            n == Len(Num!IntDigits(RealOf(d, e)))
<1>1. /\ s \in Seq(Digits) /\ Len(s) = 1 + n + want /\ (1 + n) - Before(e) = e + 1
      /\ \A i \in 1 .. Len(s) : s[i] = DigitAt(d, i - Before(e))
  BY FixedDigitsAre, Zenon
<1>2. n = IntPlaces(e)
  BY IntPlacesAre, Zenon
<1>. HIDE DEF s, n
<1>3. FixedHold(d, e, want, s)
  BY <1>1, <1>2, Zenon DEF FixedHold
<1>. QED BY <1>3 DEF s

LEMMA SmallerIs ==
  ASSUME NEW a \in Int, NEW b \in Int
  PROVE  Num!Min({a, b}) = IF a <= b THEN a ELSE b
<1>. DEFINE c == IF a <= b THEN a ELSE b
<1>1. c \in {a, b} /\ \A y \in {a, b} : c <= y
  OBVIOUS
<1>2. \A x \in {a, b} : (\A y \in {a, b} : x <= y) => x = c
  OBVIOUS
<1>. HIDE DEF c
<1>3. Num!Min({a, b}) \in {a, b} /\ \A y \in {a, b} : Num!Min({a, b}) <= y
  BY <1>1, Zenon DEF Num!Min
<1>4. Num!Min({a, b}) = c
  BY <1>2, <1>3, Zenon
<1>. QED BY <1>4 DEF c

\* What the fixed-point form writes, from the digits that its buffer holds.
HeldFrac(e, prec) ==
  LET want == Num!Max({prec + 1, ExactFrac})
  IN Num!Min({want, RealBuf - 3 - IntPlaces(e)})
Held(d, e, prec) ==
  Num!pas_round_half_up(FixedDigits(d, e, HeldFrac(e, prec)), 1 + IntPlaces(e) + prec).d
FirstOf(c, ilen) == Num!Min({i \in 1 .. ilen : c[i] # 0} \cup {ilen})
LEMMA FixedParts ==
  ASSUME NEW d \in Seq(Digits), Len(d) > 0, NEW e \in Int, NEW prec \in Nat, NEW width \in Int
  PROVE  LET w == Num!WriteFixed(RealOf(d, e), width, prec)
             ilen == 1 + IntPlaces(e)
             c == Held(d, e, prec)
         IN /\ w.int = SubSeq(c, FirstOf(c, ilen), ilen) /\ w.frac = Num!Found(c, ilen, prec)
            /\ w.minus = ~Num!pas_digits_all_zero(c)
<1>. DEFINE r == RealOf(d, e)
            x == Num!IntDigits(r)
            n == Len(x)
            ilen == 1 + n
            flen == Num!Min({Num!Max({prec + 1, ExactFrac}), RealBuf - 3 - n})
            c == Num!pas_round_half_up(<<0>> \o x \o Num!FracDigits(r, flen), ilen + prec).d
            first == Num!Min({i \in 1 .. ilen : c[i] # 0} \cup {ilen})
            w == Num!WriteFixed(r, width, prec)
<1>1. r.negative = TRUE
  BY DEF RealOf
<1>2. n = IntPlaces(e)
  BY IntPlacesAre, Zenon
<1>3. PICK p :
        w = [pad |-> p, minus |-> r.negative /\ ~Num!pas_digits_all_zero(c),
             int |-> SubSeq(c, first, ilen), frac |-> Num!Found(c, ilen, prec)]
  BY Zenon DEF Num!WriteFixed
<1>. HIDE DEF w, n
<1>4. c = Held(d, e, prec)
  BY <1>2, Zenon DEF Held, HeldFrac, FixedDigits
<1>5. first = FirstOf(c, ilen)
  BY Zenon DEF FirstOf
<1>. HIDE DEF c, first
<1>6. /\ w.int = SubSeq(c, first, ilen) /\ w.frac = Num!Found(c, ilen, prec)
      /\ w.minus = (r.negative /\ ~Num!pas_digits_all_zero(c))
  <2>. HIDE DEF r, ilen
  <2>. QED BY <1>3
<1>7. w.minus = ~Num!pas_digits_all_zero(c)
  BY <1>1, <1>6, Zenon
<1>. QED BY <1>2, <1>4, <1>5, <1>6, <1>7, Zenon DEF w

\* The digits the buffer holds round as all of them do when there is room for
\* the places asked for; when there is not, none are rounded.
LEMMA HeldRounds ==
  ASSUME NEW d \in Seq(Digits), Len(d) > 0, NEW e \in Int, NEW prec \in Nat, IsExact(d, e)
  PROVE  /\ IntPlaces(e) \in Nat /\ IntPlaces(e) >= 1
         /\ IntPlaces(e) + prec + 3 <= RealBuf =>
              \E want \in Nat :
                /\ want >= prec + 1
                /\ Held(d, e, prec)
                     = Num!pas_round_half_up(FixedDigits(d, e, want), 1 + IntPlaces(e) + prec).d
         /\ ~(IntPlaces(e) + prec + 3 <= RealBuf) =>
              /\ Held(d, e, prec) \in Seq(Digits)
              /\ 1 + IntPlaces(e) <= Len(Held(d, e, prec))
              /\ Len(Held(d, e, prec)) < 1 + IntPlaces(e) + prec
<1>. DEFINE n == IntPlaces(e)
            ilen == 1 + n
            room == RealBuf - 3 - n
            full == Num!Max({prec + 1, ExactFrac})
            flen == HeldFrac(e, prec)
            keep == ilen + prec
            b == FixedDigits(d, e, flen)
<1>1. n \in Nat /\ n >= 1 /\ room \in Int /\ room >= ExactFrac /\ ExactFrac \in Nat
      /\ Len(d) - 1 - e <= room /\ Len(d) \in Nat
  BY ValuesAssumption DEF IntPlaces, IsExact
<1>2. full = IF prec + 1 >= ExactFrac THEN prec + 1 ELSE ExactFrac
  BY <1>1, LargerIs, prec + 1 \in Int, ExactFrac \in Int
<1>. HIDE DEF full
<1>3. full \in Int /\ full >= prec + 1 /\ full >= ExactFrac
  BY <1>1, <1>2
<1>4. flen = IF full <= room THEN full ELSE room
  <2>1. flen = Num!Min({full, room})
    BY Zenon DEF HeldFrac, full
  <2>. QED BY <1>1, <1>3, <2>1, SmallerIs, Zenon
<1>. HIDE DEF flen, n, room
<1>5. flen \in Nat
  BY <1>1, <1>3, <1>4
<1>6. /\ b \in Seq(Digits) /\ Len(b) = ilen + flen
      /\ ilen - Before(e) = e + 1 /\ \A i \in 1 .. Len(b) : b[i] = DigitAt(d, i - Before(e))
  BY <1>5, FixedDigitsHold, Zenon DEF FixedHold, n
<1>7. Held(d, e, prec) = Num!pas_round_half_up(b, keep).d
  BY Zenon DEF Held, flen, n
<1>8. (n + prec + 3 <= RealBuf) <=> prec <= room
  BY <1>1, ValuesAssumption DEF room
<1>. HIDE DEF b
<1>9. ASSUME prec <= room
       PROVE  \E want \in Nat :
                /\ want >= prec + 1
                /\ Held(d, e, prec) = Num!pas_round_half_up(FixedDigits(d, e, want), keep).d
  <2>1. CASE flen >= prec + 1
    BY <1>5, <1>7, <2>1, Zenon DEF b
  <2>2. CASE ~(flen >= prec + 1)
    <3>. DEFINE t == FixedDigits(d, e, prec + 1)
                a == Before(e)
    <3>1. flen = prec /\ room = prec
      BY <1>1, <1>3, <1>4, <1>9, <2>2
    <3>2. prec + 1 \in Nat
      OBVIOUS
    <3>3. /\ t \in Seq(Digits) /\ Len(t) = ilen + (prec + 1)
          /\ \A i \in 1 .. Len(t) : t[i] = DigitAt(d, i - a)
      BY <3>2, FixedDigitsHold, Zenon DEF FixedHold, n
    <3>4. a \in Int /\ ilen - a = e + 1
      BY <1>6 DEF Before
    <3>. HIDE DEF t, a
    <3>5. /\ keep \in 0 .. Len(t) - 1 /\ keep = Len(b) /\ keep \in Nat
          /\ keep + 1 \in 1 .. Len(t) /\ (keep + 1) - a \notin 1 .. Len(d)
          /\ \A i \in 1 .. keep : i \in 1 .. Len(t) /\ i \in 1 .. Len(b)
      BY <1>1, <1>6, <3>1, <3>3, <3>4
    <3>6. t[keep + 1] = 0
      BY <3>3, <3>5, Zenon DEF DigitAt
    <3>7. \A i \in 1 .. keep : b[i] = t[i]
      BY <1>6, <3>3, <3>5, Zenon DEF a
    <3>8. keep <= Len(b) /\ ~(keep < Len(b))
      BY <3>5
    <3>. HIDE DEF keep
    <3>9. Num!pas_round_half_up(b, keep) = Num!pas_round_half_up(t, keep)
      BY <1>6, <3>3, <3>5, <3>6, <3>7, <3>8, RoundsAlike, Zenon
    <3>10. prec + 1 >= prec + 1
      OBVIOUS
    <3>. QED BY <1>7, <3>2, <3>9, <3>10, Zenon DEF t
  <2>. QED BY <2>1, <2>2
<1>10. ASSUME ~(prec <= room)
       PROVE  /\ Held(d, e, prec) \in Seq(Digits) /\ ilen <= Len(Held(d, e, prec))
              /\ Len(Held(d, e, prec)) < keep
  <2>1. ilen <= Len(b) /\ Len(b) < keep /\ Len(b) <= keep /\ keep \in Nat
    BY <1>1, <1>3, <1>4, <1>5, <1>6, <1>10
  <2>2. Held(d, e, prec) = b
    BY <1>6, <1>7, <2>1, NothingRounded
  <2>. QED BY <1>6, <2>1, <2>2, Zenon
<1>11. n \in Nat /\ n >= 1
  BY <1>1
<1>. QED BY <1>8, <1>9, <1>10, <1>11, Zenon DEF n

RightlyFixed(d, e, prec, c) ==
  LET ilen == 1 + IntPlaces(e)
      int == SubSeq(c, FirstOf(c, ilen), ilen)
      frac == SubSeq(c, ilen + 1, ilen + prec)
      m == Rounded(Num!Natural(d), Len(d) - 1 - e - prec)
  IN /\ c \in Seq(Digits) /\ Len(c) = ilen + prec
     /\ Num!Natural(int \o frac) = m
     /\ Len(frac) = prec /\ (Len(int) > 1 => int[1] # 0)
     /\ (~Num!pas_digits_all_zero(c)) = (m # 0)
LEMMA FixedValue ==
  ASSUME NEW d \in Seq(Digits), Len(d) > 0, NEW e \in Int, NEW prec \in Nat,
         NEW want \in Nat, want >= prec + 1
  PROVE  RightlyFixed(d, e, prec,
           Num!pas_round_half_up(FixedDigits(d, e, want), 1 + IntPlaces(e) + prec).d)
<1>. DEFINE ilen == 1 + IntPlaces(e)
            s == FixedDigits(d, e, want)
            keep == ilen + prec
            a == Before(e)
            r == Num!pas_round_half_up(s, keep)
            c == r.d
            T == {i \in 1 .. ilen : c[i] # 0} \cup {ilen}
            first == FirstOf(c, ilen)
            int == SubSeq(c, first, ilen)
            frac == SubSeq(c, ilen + 1, ilen + prec)
            m == Rounded(Num!Natural(d), Len(d) - 1 - e - prec)
<1>1. /\ s \in Seq(Digits) /\ ilen \in Nat /\ ilen >= 2 /\ Len(s) = ilen + want
      /\ ilen - a = e + 1 /\ \A i \in 1 .. Len(s) : s[i] = DigitAt(d, i - a)
  <2>1. ilen \in Nat /\ ilen >= 2
    BY DEF IntPlaces
  <2>. QED BY <2>1, FixedDigitsHold, Zenon DEF FixedHold
<1>. HIDE DEF ilen, s
<1>2. /\ keep \in 0 .. Len(s) - 1 /\ a \in Nat /\ a >= 1 /\ keep >= 1 /\ keep - a = e + 1 + prec
      /\ \A i \in 1 .. keep + 1 : i \in 1 .. Len(s)
  BY <1>1 DEF Before
<1>. HIDE DEF a
<1>3. /\ c \in Seq(Digits) /\ Len(c) = keep /\ r.carry \in BOOLEAN
      /\ r.carry => \A i \in 1 .. keep : c[i] = 0 /\ s[i] = 9
      /\ Num!Natural(c) + (IF r.carry THEN Ten(keep) ELSE 0)
           = Rounded(Num!Natural(d), Len(d) - (keep - a))
  <2>1. \A i \in 1 .. keep + 1 : s[i] = DigitAt(d, i - a)
    BY <1>1, <1>2, Zenon
  <2>2. ShiftedTo(d, a, s, keep, r)
    <3>. HIDE DEF keep
    <3>. QED BY <1>1, <1>2, <2>1, ShiftedRounds, Zenon
  <2>. QED BY <2>2, Zenon DEF ShiftedTo
<1>. HIDE DEF r
<1>4. r.carry = FALSE
  <2>1. 1 \in 1 .. keep /\ 1 \in 1 .. Len(s) /\ 1 - a \notin 1 .. Len(d)
    BY <1>2
  <2>2. s[1] = 0
    BY <1>1, <2>1, Zenon DEF DigitAt
  <2>3. 0 # 9
    OBVIOUS
  <2>. QED BY <1>3, <2>1, <2>2, <2>3, Zenon
<1>. HIDE DEF c
<1>5. Num!Natural(c) = m
  <2>1. Len(d) - (keep - a) = Len(d) - 1 - e - prec
    <3>1. Len(d) \in Int
      OBVIOUS
    <3>. HIDE DEF keep
    <3>. QED BY <1>2, <3>1
  <2>2. Num!Natural(c) \in Nat
    BY <1>3, ValueExists, NaturalIs, Zenon
  <2>3. Num!Natural(c) + 0 = Rounded(Num!Natural(d), Len(d) - 1 - e - prec)
    BY <1>3, <1>4, <2>1, Zenon
  <2>. HIDE DEF m
  <2>4. Num!Natural(c) + 0 = Num!Natural(c)
    BY <2>2
  <2>. QED BY <2>3, <2>4, Zenon DEF m
<1>. HIDE DEF m
<1>6. first \in T /\ \A y \in T : first <= y
  <2>1. T \subseteq Nat /\ T # {}
    BY <1>1
  <2>. HIDE DEF T
  <2>. QED BY <2>1, LowestIs, Zenon DEF FirstOf, T
<1>. HIDE DEF first
<1>7. first \in 1 .. ilen /\ (first # ilen => c[first] # 0)
  BY <1>1, <1>6
<1>8. \A i \in 1 .. first - 1 : c[i] = 0
  <2>1. SUFFICES ASSUME NEW i \in 1 .. first - 1, c[i] # 0 PROVE FALSE
    OBVIOUS
  <2>2. i \in 1 .. ilen /\ ~(first <= i)
    BY <1>1, <1>7
  <2>. QED BY <1>6, <2>1, <2>2, Zenon
<1>. HIDE DEF T
<1>9. int \o frac = SubSeq(c, first, Len(c))
  <2>1. first \in 1 .. Len(c) + 1 /\ ilen \in first - 1 .. Len(c) /\ Len(c) \in ilen .. Len(c)
        /\ Len(c) = ilen + prec
    BY <1>1, <1>3, <1>7
  <2>. QED BY <1>3, <2>1, ConcatAdjacentSubSeq, Zenon
<1>10. Num!Natural(int \o frac) = m
  <2>1. first \in 1 .. Len(c)
    BY <1>1, <1>3, <1>7
  <2>. QED BY <1>3, <1>5, <1>8, <1>9, <2>1, DropZeros, Zenon
<1>11. Len(frac) = prec /\ (Len(int) > 1 => int[1] # 0)
  <2>1. Len(frac) = prec
    BY <1>1, <1>3
  <2>2. Len(int) = ilen - first + 1 /\ int[1] = c[first]
    BY <1>1, <1>3, <1>7
  <2>. QED BY <1>1, <1>7, <2>1, <2>2
<1>12. (~Num!pas_digits_all_zero(c)) = (m # 0)
  <2>1. Num!pas_digits_all_zero(c) <=> \A i \in 1 .. Len(c) : c[i] = 0
    BY <1>3 DEF Num!pas_digits_all_zero
  <2>2. Num!pas_digits_all_zero(c) <=> m = 0
    BY <1>3, <1>5, <2>1, ZeroIs, Zenon
  <2>3. Num!pas_digits_all_zero(c) \in BOOLEAN
    BY DEF Num!pas_digits_all_zero
  <2>. QED BY <2>2, <2>3
<1>. QED BY <1>3, <1>10, <1>11, <1>12, Zenon DEF RightlyFixed, c, r, s, m, first, T, ilen


\* The fixed-point form of every real is its exact expansion rounded half up, a
\* minus before it only if it is not zero, for as many places as the buffer has
\* room for.
LEMMA FixedRounds ==
  ASSUME NEW d \in Seq(Digits), Len(d) > 0, NEW e \in Int, NEW prec \in Nat, NEW width \in Int
  PROVE  FixedIsRounded(d, e, prec, width)
<1>. DEFINE w == Num!WriteFixed(RealOf(d, e), width, prec)
            n == IntPlaces(e)
            ilen == 1 + n
            keep == ilen + prec
            c == Held(d, e, prec)
            a == Before(e)
            m == Rounded(Num!Natural(d), Len(d) - 1 - e - prec)
            fits == n + prec + 3 <= RealBuf
            Good == /\ Len(w.frac) = prec
                    /\ fits = (\A i \in 1 .. prec : w.frac[i] # Num!Stray)
                    /\ fits => /\ Num!Natural(w.int \o w.frac) = m
                               /\ (Len(w.int) > 1 => w.int[1] # 0)
                               /\ w.minus = (m # 0)
<1>. SUFFICES ASSUME IsExact(d, e) PROVE Good
  BY Zenon DEF FixedIsRounded
<1>1. /\ w.int = SubSeq(c, FirstOf(c, ilen), ilen) /\ w.frac = Num!Found(c, ilen, prec)
      /\ w.minus = ~Num!pas_digits_all_zero(c)
  BY FixedParts, Zenon
<1>2. n \in Nat /\ n >= 1 /\ ilen \in Nat /\ ilen >= 2 /\ fits \in BOOLEAN
  BY HeldRounds
<1>3. ASSUME ~fits PROVE Good
  <2>1. c \in Seq(Digits) /\ ilen <= Len(c) /\ ~(keep <= Len(c))
    BY <1>2, <1>3, HeldRounds
  <2>. DEFINE f == w.frac
  <2>2. Len(f) = prec /\ (keep <= Len(c)) = (\A i \in 1 .. prec : f[i] # Num!Stray)
    <3>. HIDE DEF c, ilen, w
    <3>1. FoundAs(c, ilen, prec, f)
      BY <1>1, <1>2, <2>1, FoundIs, Zenon
    <3>. QED BY <3>1, Zenon DEF FoundAs
  <2>3. ~(\A i \in 1 .. prec : f[i] # Num!Stray)
    BY <2>1, <2>2, Zenon
  <2>4. FALSE = (\A i \in 1 .. prec : f[i] # Num!Stray)
    BY <2>3
  <2>. HIDE DEF fits, w
  <2>. QED BY <1>2, <1>3, <2>2, <2>4
<1>4. ASSUME fits PROVE Good
  <2>1. PICK want \in Nat :
          want >= prec + 1 /\ c = Num!pas_round_half_up(FixedDigits(d, e, want), 1 + IntPlaces(e) + prec).d
    BY <1>4, HeldRounds, Zenon
  <2>2. RightlyFixed(d, e, prec, c)
    BY <2>1, FixedValue, Zenon
  <2>. DEFINE f == SubSeq(c, ilen + 1, ilen + prec)
              g == SubSeq(c, FirstOf(c, ilen), ilen)
  <2>3. /\ c \in Seq(Digits) /\ Len(c) = keep /\ Num!Natural(g \o f) = m
        /\ Len(f) = prec /\ (Len(g) > 1 => g[1] # 0) /\ (~Num!pas_digits_all_zero(c)) = (m # 0)
    BY <2>2, Zenon DEF RightlyFixed
  <2>4. ilen <= Len(c) /\ keep <= Len(c)
    <3>. HIDE DEF c, ilen
    <3>. QED BY <1>2, <2>3
  <2>5. /\ w.frac = f
        /\ (keep <= Len(c)) = (\A i \in 1 .. prec : w.frac[i] # Num!Stray)
    <3>. HIDE DEF c, ilen, w
    <3>1. FoundAs(c, ilen, prec, w.frac)
      BY <1>1, <1>2, <2>3, <2>4, FoundIs, Zenon
    <3>. QED BY <2>4, <3>1, Zenon DEF FoundAs
  <2>6. \A i \in 1 .. prec : w.frac[i] # Num!Stray
    BY <2>4, <2>5, Zenon
  <2>7. fits = (\A i \in 1 .. prec : w.frac[i] # Num!Stray)
    BY <1>4, <2>6
  <2>8. w.int = g /\ w.minus = (m # 0)
    BY <1>1, <2>3, Zenon
  <2>. HIDE DEF fits, w, g, f
  <2>. QED BY <2>3, <2>5, <2>7, <2>8, Zenon
<1>. QED BY <1>3, <1>4

-----------------------------------------------------------------------------
(* The floating-point form.                                                *)

\* A one and n zeros behind it.
LEMMA OneAndZeros ==
  ASSUME NEW d \in Seq(Digits), NEW n \in Nat, Len(d) = n + 1, d[1] = 1,
         \A i \in 2 .. n + 1 : d[i] = 0
  PROVE  Num!Natural(d) = Ten(n)
<1>. DEFINE v == ValueTo(d)
            g == [i \in 0 .. n |-> v[i + 1]]
            S == [i \in 0 .. n |-> {Ten(i)}]
<1>1. IsValue(v, d) /\ Num!Natural(d) = v[n + 1]
  BY ValueExists, Zenon
<1>. HIDE DEF v
<1>2. 0 \in 0 .. n /\ n \in 0 .. n /\ 1 \in 1 .. Len(d) /\ 1 - 1 = 0 /\ 0 + 1 = 1
  OBVIOUS
<1>3. g[0] \in S[0]
  <2>1. v[1] = 10 * v[1 - 1] + d[1] /\ v[0] = 0
    BY <1>1, <1>2, Zenon DEF IsValue
  <2>2. v[1] = 10 * v[0] + 1
    BY <1>2, <2>1, Zenon
  <2>3. v[1] = 1 /\ Ten(0) = 1
    <3>1. v[1] = 10 * 0 + 1 /\ Ten(0) = 1
      BY <2>1, <2>2, TenIs, Zenon
    <3>. QED BY <3>1
  <2>. QED BY <1>2, <2>3
<1>4. ASSUME NEW i \in 1 .. n, g[i - 1] \in S[i - 1] PROVE g[i] \in S[i]
  <2>1. /\ i \in 0 .. n /\ i - 1 \in 0 .. n /\ i - 1 \in Nat /\ (i - 1) + 1 = i
        /\ i + 1 \in 1 .. Len(d) /\ i + 1 \in 2 .. n + 1 /\ (i + 1) - 1 = i
    OBVIOUS
  <2>2. v[i] = Ten(i - 1)
    BY <1>4, <2>1
  <2>3. v[i + 1] = 10 * v[(i + 1) - 1] + d[i + 1] /\ d[i + 1] = 0
    BY <1>1, <2>1, Zenon DEF IsValue
  <2>4. Ten(i) = 10 * Ten(i - 1) /\ Ten(i - 1) \in Nat
    BY <2>1, TenIs, Zenon
  <2>5. v[i + 1] = 10 * Ten(i - 1) + 0
    BY <2>1, <2>2, <2>3, Zenon
  <2>6. v[i + 1] = Ten(i)
    BY <2>4, <2>5
  <2>. QED BY <2>1, <2>6
<1>5. \A i \in 0 .. n : g[i] \in S[i]
  <2>. HIDE DEF g, S
  <2>. QED BY <1>3, <1>4, Climbs, Zenon
<1>. QED BY <1>1, <1>2, <1>5

\* A number of n digits is less than the n-th power of ten.
LEMMA NaturalBelow ==
  ASSUME NEW d \in Seq(Digits)
  PROVE  Num!Natural(d) \in Nat /\ Num!Natural(d) < Ten(Len(d))
<1>. DEFINE v == ValueTo(d)
            n == Len(d)
<1>1. IsValue(v, d) /\ Num!Natural(d) = v[n]
  BY ValueExists, Zenon
<1>2. v[0] = 0 /\ v[n] \in Nat
  BY <1>1, NaturalIs, Zenon DEF IsValue
<1>. HIDE DEF v
<1>3. 0 \in 0 .. n /\ n \in 0 .. n - 0 /\ 0 + n = n /\ n \in Nat
  OBVIOUS
<1>4. v[0 + n] < (v[0] + 1) * Ten(n)
  BY <1>1, <1>3, ValueSplits, Zenon
<1>5. v[n] < (0 + 1) * Ten(n) /\ Ten(n) \in Nat
  BY <1>2, <1>3, <1>4, TenIs, Zenon
<1>6. v[n] < Ten(n)
  BY <1>2, <1>5
<1>. QED BY <1>1, <1>2, <1>6, Zenon

Exponents == -999 .. 998
LEMMA ExponentDigits ==
  ASSUME NEW e \in Exponents
  PROVE  /\ Num!ExpDigits(e) \in {2, 3}
         /\ Num!Max({Num!ExpDigits(e), Num!NumDigits(Num!Magnitude(e))}) = Num!ExpDigits(e)
         /\ Num!Max({Num!ExpDigits(e), Num!ExpDigits(e + 1)})
              = IF e = 99 THEN 3 ELSE Num!ExpDigits(e)
         /\ e # 99 =>
              Num!Max({Num!ExpDigits(e), Num!NumDigits(Num!Magnitude(e + 1))}) = Num!ExpDigits(e)
<1>1. e \in Int /\ e >= -999 /\ e <= 998
  BY DEF Exponents
<1>2. /\ Num!ExpDigits(e) = IF e >= 100 \/ e <= -100 THEN 3 ELSE 2
      /\ Num!ExpDigits(e + 1) = IF e >= 99 \/ e <= -101 THEN 3 ELSE 2
      /\ Num!NumDigits(Num!Magnitude(e)) \in {1, 2, 3}
      /\ Num!NumDigits(Num!Magnitude(e + 1)) \in {1, 2, 3}
      /\ Num!NumDigits(Num!Magnitude(e)) = 3 <=> e >= 100 \/ e <= -100
      /\ Num!NumDigits(Num!Magnitude(e + 1)) = 3 <=> e >= 99 \/ e <= -101
  BY <1>1, SMT DEF Num!ExpDigits, Num!Magnitude, Num!NumDigits
<1>. DEFINE a == Num!ExpDigits(e)
            b == Num!ExpDigits(e + 1)
            c == Num!NumDigits(Num!Magnitude(e))
            f == Num!NumDigits(Num!Magnitude(e + 1))
<1>. HIDE DEF a, b, c, f
<1>3. a \in Int /\ b \in Int /\ c \in Int /\ f \in Int
  BY <1>2, SMT DEF a, b, c, f
<1>4. /\ Num!Max({a, b}) = (IF a >= b THEN a ELSE b)
      /\ Num!Max({a, c}) = (IF a >= c THEN a ELSE c)
      /\ Num!Max({a, f}) = (IF a >= f THEN a ELSE f)
  BY <1>3, LargerIs, Zenon
<1>5. a \in {2, 3} /\ (IF a >= c THEN a ELSE c) = a /\ (e # 99 => (IF a >= f THEN a ELSE f) = a)
      /\ (IF a >= b THEN a ELSE b) = (IF e = 99 THEN 3 ELSE a)
  BY <1>1, <1>2, SMT DEF a, b, c, f
<1>. QED BY <1>4, <1>5, Zenon DEF a, b, c, f

\* What the floating-point form writes of the digits r that it rounded to.
FloatForm(e, dec, r, w) ==
  LET x == Num!ExpDigits(e)
      c == IF r.carry THEN <<1>> \o r.d ELSE r.d
      exp == IF r.carry THEN e + 1 ELSE e
      xs == IF r.carry THEN Num!Max({x, Num!ExpDigits(exp)}) ELSE x
  IN /\ w.lead = c[1] /\ w.frac = Num!Found(c, 1, dec) /\ w.exp = exp
     /\ w.expDigits = Num!Max({xs, Num!NumDigits(Num!Magnitude(exp))})
     /\ w.actWidth = dec + x + 5
RightlyFloat(d, e, dec, w) ==
  LET m == Rounded(Num!Natural(d), Len(d) - 1 - dec)
      over == m = Ten(dec + 1)
  IN /\ Len(w.frac) = dec /\ (\A i \in 1 .. dec : w.frac[i] # Num!Stray)
     /\ Num!Natural(<<w.lead>> \o w.frac) = IF over THEN Ten(dec) ELSE m
     /\ w.exp = IF over THEN e + 1 ELSE e
     /\ w.lead # 0 /\ dec > 0
     /\ ~(over /\ e = 99) => dec + w.expDigits + 5 = w.actWidth
LEMMA FloatValue ==
  ASSUME NEW d \in Seq(Digits), Len(d) > 0, d[1] # 0, NEW e \in Exponents,
         NEW dec \in Nat, dec >= 1, NEW r, NEW w,
         r = Num!pas_round_half_up(d \o Num!Zeros(dec + 1), 1 + dec), FloatForm(e, dec, r, w)
  PROVE  RightlyFloat(d, e, dec, w)
<1>. DEFINE x == Num!ExpDigits(e)
            act == dec + x + 5
            s == d \o Num!Zeros(dec + 1)
            keep == 1 + dec
            c == IF r.carry THEN <<1>> \o r.d ELSE r.d
            exp == IF r.carry THEN e + 1 ELSE e
            xs == IF r.carry THEN Num!Max({x, Num!ExpDigits(exp)}) ELSE x
            m == Rounded(Num!Natural(d), Len(d) - 1 - dec)
<1>1. /\ x \in {2, 3} /\ Num!Max({x, Num!NumDigits(Num!Magnitude(e))}) = x
      /\ Num!Max({x, Num!ExpDigits(e + 1)}) = (IF e = 99 THEN 3 ELSE x)
      /\ e # 99 => Num!Max({x, Num!NumDigits(Num!Magnitude(e + 1))}) = x
  BY ExponentDigits, Zenon
<1>. HIDE DEF x
<1>2. dec \in Nat /\ dec >= 1 /\ act = dec + x + 5
  OBVIOUS
<1>. HIDE DEF act
<1>3. r = Num!pas_round_half_up(s, keep)
  BY Zenon
<1>4. /\ s \in Seq(Digits) /\ Len(s) = Len(d) + (dec + 1) /\ s[1] = d[1]
      /\ \A i \in 1 .. Len(s) : s[i] = DigitAt(d, i - 0)
  <2>. DEFINE z == Num!Zeros(dec + 1)
  <2>1. dec + 1 \in Nat
    BY <1>2
  <2>2. z \in Seq(Digits) /\ Len(z) = dec + 1 /\ \A i \in 1 .. dec + 1 : z[i] = 0
    BY <2>1, ZerosAre
  <2>. HIDE DEF z
  <2>3. /\ d \o z \in Seq(Digits) /\ Len(d \o z) = Len(d) + Len(z)
        /\ \A i \in 1 .. Len(d) : (d \o z)[i] = d[i]
        /\ \A i \in Len(d) + 1 .. Len(d) + Len(z) : (d \o z)[i] = z[i - Len(d)]
    BY <2>2, JoinIs, Zenon
  <2>4. s = d \o z
    BY DEF z
  <2>. HIDE DEF s
  <2>5. ASSUME NEW i \in 1 .. Len(s) PROVE s[i] = DigitAt(d, i - 0)
    <3>1. i - 0 = i
      OBVIOUS
    <3>2. CASE i \in 1 .. Len(d)
      BY <2>3, <2>4, <3>1, <3>2, Zenon DEF DigitAt
    <3>3. CASE i \notin 1 .. Len(d)
      <4>1. i \in Len(d) + 1 .. Len(d) + Len(z) /\ i - Len(d) \in 1 .. dec + 1
        BY <1>2, <2>2, <2>3, <2>4, <3>3
      <4>. QED BY <2>2, <2>3, <2>4, <3>1, <3>3, <4>1, Zenon DEF DigitAt
    <3>. QED BY <3>2, <3>3
  <2>6. s[1] = d[1]
    <3>1. 1 \in 1 .. Len(d)
      OBVIOUS
    <3>. QED BY <2>3, <2>4, <3>1, Zenon
  <2>. QED BY <2>2, <2>3, <2>4, <2>5, <2>6, Zenon
<1>. HIDE DEF s
<1>5. /\ keep \in 0 .. Len(s) - 1 /\ keep >= 1 /\ keep \in Nat /\ 0 \in Nat
      /\ Len(d) - (keep - 0) = Len(d) - 1 - dec
      /\ \A i \in 1 .. keep + 1 : i \in 1 .. Len(s)
  BY <1>2, <1>4
<1>6. ShiftedTo(d, 0, s, keep, r)
  <2>1. \A i \in 1 .. keep + 1 : s[i] = DigitAt(d, i - 0)
    BY <1>4, <1>5, Zenon
  <2>. HIDE DEF keep
  <2>. QED BY <1>3, <1>4, <1>5, <2>1, ShiftedRounds, Zenon
<1>7. /\ r.d \in Seq(Digits) /\ Len(r.d) = keep /\ r.carry \in BOOLEAN
      /\ r.carry => \A i \in 1 .. keep : r.d[i] = 0
      /\ ~r.carry => r.d[1] >= s[1]
      /\ Num!Natural(r.d) + (IF r.carry THEN Ten(keep) ELSE 0) = m
  BY <1>5, <1>6, Zenon DEF ShiftedTo
<1>. HIDE DEF m
<1>8. Num!Natural(r.d) \in Nat /\ Num!Natural(r.d) < Ten(keep) /\ Ten(keep) \in Nat
  BY <1>5, <1>7, NaturalBelow, TenIs, Zenon
<1>9. c \in Seq(Digits) /\ 1 <= Len(c) /\ 1 + dec <= Len(c)
  <2>. DEFINE o == r.d
  <2>1. o \in Seq(Digits) /\ Len(o) = keep
    BY <1>7
  <2>2. CASE r.carry
    <3>1. c = <<1>> \o o
      BY <2>2
    <3>. HIDE DEF c, o
    <3>. QED BY <1>2, <2>1, <3>1 DEF Digits
  <2>3. CASE ~r.carry
    <3>1. c = o
      BY <2>3
    <3>. HIDE DEF c, o
    <3>. QED BY <1>2, <2>1, <3>1
  <2>. QED BY <2>2, <2>3
<1>10. /\ w.lead = c[1] /\ w.frac = SubSeq(c, 2, 1 + dec) /\ w.exp = exp /\ w.actWidth = act
      /\ w.expDigits = Num!Max({xs, Num!NumDigits(Num!Magnitude(exp))})
      /\ Len(w.frac) = dec /\ \A i \in 1 .. dec : w.frac[i] # Num!Stray
  <2>1. /\ w.lead = c[1] /\ w.frac = Num!Found(c, 1, dec) /\ w.exp = exp /\ w.actWidth = act
        /\ w.expDigits = Num!Max({xs, Num!NumDigits(Num!Magnitude(exp))})
    BY Zenon DEF FloatForm, act, x
  <2>. HIDE DEF c, exp, xs
  <2>2. 1 \in Nat /\ 1 + 1 = 2
    OBVIOUS
  <2>3. FoundAs(c, 1, dec, w.frac)
    BY <1>2, <1>9, <2>1, <2>2, FoundIs, Zenon
  <2>. QED BY <1>9, <2>1, <2>2, <2>3, Zenon DEF FoundAs
<1>11. keep = dec + 1
  BY <1>2
<1>. DEFINE over == m = Ten(dec + 1)
            Good == /\ Num!Natural(<<w.lead>> \o w.frac) = IF over THEN Ten(dec) ELSE m
                    /\ w.exp = IF over THEN e + 1 ELSE e
                    /\ w.lead # 0 /\ dec > 0
                    /\ ~(over /\ e = 99) => dec + w.expDigits + 5 = w.actWidth
<1>12. ASSUME r.carry PROVE Good
  <2>1. c = <<1>> \o r.d /\ exp = e + 1 /\ xs = Num!Max({x, Num!ExpDigits(e + 1)})
    BY <1>12, Zenon
  <2>2. over
    <3>1. Num!Natural(r.d) = 0
      BY <1>7, <1>12, ZeroIs, Zenon
    <3>2. 0 + Ten(keep) = m
      BY <1>7, <1>12, <3>1, Zenon
    <3>3. Ten(keep) = m
      BY <1>8, <3>2
    <3>. QED BY <1>11, <3>3, Zenon
  <2>. HIDE DEF c, exp, xs
  <2>3. c[1] = 1 /\ \A i \in 2 .. 1 + dec : c[i] = 0 /\ c \in Seq(Digits) /\ Len(c) = keep + 1
    <3>1. \A i \in 2 .. 1 + dec : i - 1 \in 1 .. keep
      BY <1>2
    <3>2. /\ c \in Seq(Digits) /\ Len(c) = keep + 1 /\ c[1] = 1
          /\ \A i \in 2 .. keep + 1 : c[i] = r.d[i - 1]
      <4>. DEFINE o == r.d
      <4>. HIDE DEF o
      <4>1. o \in Seq(Digits) /\ Len(o) = keep /\ c = <<1>> \o o
        BY <1>7, <2>1 DEF o
      <4>2. /\ c \in Seq(Digits) /\ Len(c) = keep + 1 /\ c[1] = 1
            /\ \A i \in 2 .. keep + 1 : c[i] = o[i - 1]
        <5>. HIDE DEF keep
        <5>. QED BY <1>5, <4>1 DEF Digits
      <4>. QED BY <4>2 DEF o
    <3>3. \A i \in 2 .. 1 + dec : i \in 2 .. keep + 1
      BY <1>2
    <3>. QED BY <1>7, <1>12, <3>1, <3>2, <3>3, Zenon
  <2>4. Num!Natural(<<w.lead>> \o w.frac) = Ten(dec)
    <3>. DEFINE t == <<w.lead>> \o w.frac
    <3>1. w.lead = 1 /\ w.frac = SubSeq(c, 2, 1 + dec)
      BY <1>10, <2>3, Zenon
    <3>. DEFINE f == w.frac
    <3>2. /\ f \in Seq(Digits) /\ Len(f) = dec /\ \A i \in 1 .. dec : f[i] = 0
      <4>1. c \in Seq(Digits) /\ Len(c) = dec + 2
        BY <1>2, <2>3, <1>11
      <4>2. f \in Seq(Digits) /\ Len(f) = dec /\ \A i \in 1 .. dec : f[i] = c[2 + i - 1]
        BY <1>2, <3>1, <4>1
      <4>3. \A i \in 1 .. dec : 2 + i - 1 \in 2 .. 1 + dec
        BY <1>2
      <4>. QED BY <2>3, <4>2, <4>3, Zenon
    <3>3. t = <<1>> \o f
      BY <3>1, Zenon
    <3>. HIDE DEF f, t
    <3>4. t \in Seq(Digits) /\ Len(t) = dec + 1 /\ t[1] = 1 /\ \A i \in 2 .. dec + 1 : t[i] = 0
      BY <1>2, <3>2, <3>3 DEF Digits
    <3>5. Num!Natural(t) = Ten(dec)
      BY <1>2, <3>4, OneAndZeros
    <3>. QED BY <3>5 DEF t
  <2>5. w.lead # 0 /\ dec > 0
    BY <1>10, <1>2, <2>3
  <2>6. e # 99 => dec + w.expDigits + 5 = w.actWidth
    <3>1. ASSUME e # 99 PROVE w.expDigits = x
      BY <1>10, <1>1, <2>1, <3>1, Zenon
    <3>. QED BY <1>10, <1>1, <1>2, <3>1
  <2>7. w.exp = e + 1
    BY <1>10, <2>1, Zenon
  <2>. HIDE DEF over
  <2>. QED BY <2>2, <2>4, <2>5, <2>6, <2>7, Zenon
<1>13. ASSUME ~r.carry PROVE Good
  <2>1. c = r.d /\ exp = e /\ xs = x
    BY <1>13, Zenon
  <2>2. Num!Natural(r.d) = m
    <3>1. Num!Natural(r.d) + 0 = m
      BY <1>7, <1>13, Zenon
    <3>. QED BY <1>8, <3>1
  <2>3. ~over
    <3>1. m < Ten(keep) /\ m \in Nat
      BY <1>8, <2>2, Zenon
    <3>. QED BY <1>8, <1>11, <3>1
  <2>. HIDE DEF c, exp, xs
  <2>4. <<w.lead>> \o w.frac = r.d
    <3>. DEFINE o == r.d
    <3>1. o \in Seq(Digits) /\ Len(o) = dec + 1
      BY <1>7, <1>11, Zenon
    <3>2. w.lead = o[1] /\ w.frac = SubSeq(o, 2, dec + 1)
      <4>1. 1 + dec = dec + 1
        BY <1>2
      <4>. QED BY <1>10, <2>1, <4>1, Zenon
    <3>. HIDE DEF o
    <3>3. <<o[1]>> \o SubSeq(o, 2, dec + 1) = o
      BY <1>2, <3>1
    <3>. QED BY <3>2, <3>3, Zenon DEF o
  <2>5. w.lead # 0 /\ dec > 0
    <3>1. s[1] \in Nat /\ s[1] # 0
      BY <1>4 DEF Digits
    <3>2. r.d[1] \in Int
      <4>. DEFINE o == r.d
      <4>1. o \in Seq(Digits) /\ Len(o) = keep
        BY <1>7
      <4>. HIDE DEF o
      <4>2. o[1] \in Int
        BY <1>5, <4>1, SMTT(60) DEF Digits
      <4>. QED BY <4>2 DEF o
    <3>3. w.lead = r.d[1] /\ r.d[1] >= s[1]
      BY <1>10, <1>7, <1>13, <2>1, Zenon
    <3>. QED BY <1>2, <3>1, <3>2, <3>3
  <2>6. dec + w.expDigits + 5 = w.actWidth
    <3>1. w.expDigits = x
      BY <1>10, <1>1, <2>1, Zenon
    <3>. QED BY <1>10, <1>1, <1>2, <3>1
  <2>7. w.exp = e
    BY <1>10, <2>1, Zenon
  <2>. HIDE DEF over
  <2>. QED BY <2>2, <2>3, <2>4, <2>5, <2>6, <2>7, Zenon
<1>14. Good
  BY <1>12, <1>13
<1>. QED BY <1>10, <1>14, Zenon DEF RightlyFloat, m

\* The digits that the floating-point form's buffer holds.
HeldSig(d) == SubSeq(d \o Num!Zeros(ExactSig + 1), 1, ExactSig + 1)
SigHold(d, b) ==
  /\ b \in Seq(Digits) /\ Len(b) = ExactSig + 1
  /\ \A i \in 1 .. ExactSig + 1 : b[i] = DigitAt(d, i)
PaddedWith(d, n, s) ==
  /\ s \in Seq(Digits) /\ Len(s) = Len(d) + n
  /\ \A i \in 1 .. Len(d) + n : s[i] = DigitAt(d, i)
LEMMA DigitsPadded ==
  ASSUME NEW d \in Seq(Digits), NEW n \in Nat
  PROVE  PaddedWith(d, n, d \o Num!Zeros(n))
<1>. DEFINE z == Num!Zeros(n)
<1>1. z \in Seq(Digits) /\ Len(z) = n /\ \A i \in 1 .. n : z[i] = 0
  BY ZerosAre
<1>. HIDE DEF z
<1>2. /\ d \o z \in Seq(Digits) /\ Len(d \o z) = Len(d) + n
      /\ \A i \in 1 .. Len(d) + n : (d \o z)[i] = DigitAt(d, i)
  BY <1>1 DEF DigitAt
<1>. QED BY <1>2, Zenon DEF PaddedWith, z

LEMMA SigHeld ==
  ASSUME NEW d \in Seq(Digits)
  PROVE  SigHold(d, HeldSig(d))
<1>. DEFINE n == ExactSig + 1
            t == d \o Num!Zeros(n)
            b == HeldSig(d)
<1>1. n \in Nat
  BY ValuesAssumption
<1>2. b = SubSeq(t, 1, n)
  BY Zenon DEF HeldSig
<1>. HIDE DEF n, b
<1>3. PaddedWith(d, n, t)
  BY <1>1, DigitsPadded, Zenon
<1>. HIDE DEF t
<1>4. /\ b \in Seq(Digits) /\ Len(b) = n /\ \A i \in 1 .. n : b[i] = t[i]
  BY <1>1, <1>2, <1>3 DEF PaddedWith
<1>5. \A i \in 1 .. n : t[i] = DigitAt(d, i)
  <2>1. \A i \in 1 .. n : i \in 1 .. Len(d) + n
    BY <1>1
  <2>. QED BY <1>3, <2>1, Zenon DEF PaddedWith
<1>. QED BY <1>4, <1>5, Zenon DEF SigHold, n, b

\* The floating-point form of every real is its exact expansion rounded half up
\* to the digits there is room for, with a digit that is not zero before the
\* point, and as wide as was asked for, as far as its buffer reaches.
LEMMA FloatRounds ==
  ASSUME NEW d \in Seq(Digits), Len(d) > 0, d[1] # 0, NEW e \in Exponents, NEW width \in Int
  PROVE  FloatIsRounded(d, e, width)
<1>. DEFINE x == Num!ExpDigits(e)
            act == Num!Max({x + 6, IF width < 0 THEN x + 17 ELSE width})
            dec == act - x - 5
            b == HeldSig(d)
            r == Num!pas_round_half_up(b, 1 + dec)
            c == IF r.carry THEN <<1>> \o r.d ELSE r.d
            exp == IF r.carry THEN e + 1 ELSE e
            xs == IF r.carry THEN Num!Max({x, Num!ExpDigits(exp)}) ELSE x
            w == Num!WriteFloat(RealOf(d, e), width)
            places == Len(w.frac)
            m == Rounded(Num!Natural(d), Len(d) - 1 - places)
            over == m = Ten(places + 1)
            fits == places <= ExactSig
            Good == /\ places > 0 /\ fits = (\A i \in 1 .. places : w.frac[i] # Num!Stray)
                    /\ fits => /\ Num!Natural(<<w.lead>> \o w.frac) = IF over THEN Ten(places) ELSE m
                               /\ w.exp = IF over THEN e + 1 ELSE e
                               /\ w.lead # 0
                               /\ ~(over /\ e = 99) => places + w.expDigits + 5 = w.actWidth
<1>. SUFFICES ASSUME Len(d) <= ExactSig PROVE Good
  BY Zenon DEF FloatIsRounded
<1>1. RealOf(d, e).exp = e /\ RealOf(d, e).digits = d /\ ~Num!IsZero(RealOf(d, e))
  <2>1. RealOf(d, e).exp = e /\ RealOf(d, e).digits = d
    BY DEF RealOf
  <2>2. d # <<0>>
    OBVIOUS
  <2>. QED BY <2>1, <2>2, Zenon DEF Num!IsZero
<1>2. /\ w.lead = c[1] /\ w.frac = Num!Found(c, 1, dec) /\ w.exp = exp /\ w.actWidth = act
      /\ w.expDigits = Num!Max({xs, Num!NumDigits(Num!Magnitude(exp))})
  <2>1. PICK p :
          w = [minus |-> p, lead |-> c[1], frac |-> Num!Found(c, 1, dec), exp |-> exp,
               expDigits |-> Num!Max({xs, Num!NumDigits(Num!Magnitude(exp))}), actWidth |-> act]
    BY <1>1, Zenon DEF Num!WriteFloat, HeldSig
  <2>. HIDE DEF w, c, dec, exp, xs, act
  <2>. QED BY <2>1
<1>. HIDE DEF w
<1>3. x \in {2, 3}
  BY ExponentDigits, Zenon
<1>4. act \in Int /\ act >= x + 6
  <2>. HIDE DEF x
  <2>. DEFINE y == IF width < 0 THEN x + 17 ELSE width
  <2>1. x + 6 \in Int /\ y \in Int
    BY <1>3
  <2>2. act = IF x + 6 >= y THEN x + 6 ELSE y
    BY <2>1, LargerIs, Zenon
  <2>. HIDE DEF y, act
  <2>. QED BY <2>1, <2>2
<1>. HIDE DEF act
<1>5. dec \in Nat /\ dec >= 1 /\ act = dec + x + 5
  <2>. HIDE DEF x
  <2>. QED BY <1>3, <1>4
<1>. HIDE DEF dec
<1>6. b \in Seq(Digits) /\ Len(b) = ExactSig + 1 /\ \A i \in 1 .. ExactSig + 1 : b[i] = DigitAt(d, i)
  BY SigHeld, Zenon DEF SigHold
<1>. HIDE DEF b
<1>7. ExactSig \in Nat /\ Len(d) \in Nat
  BY ValuesAssumption
<1>8. FloatForm(e, dec, r, w)
  <2>1. w.actWidth = dec + x + 5
    BY <1>2, <1>5, Zenon
  <2>. HIDE DEF r
  <2>. QED BY <1>2, <2>1, Zenon DEF FloatForm
<1>9. ASSUME dec <= ExactSig PROVE Good
  <2>. DEFINE t == d \o Num!Zeros(dec + 1)
              keep == 1 + dec
  <2>1. PaddedWith(d, dec + 1, t)
    <3>1. dec + 1 \in Nat
      BY <1>5
    <3>. QED BY <3>1, DigitsPadded, Zenon
  <2>. HIDE DEF t
  <2>2. t \in Seq(Digits) /\ Len(t) = Len(d) + (dec + 1)
        /\ \A i \in 1 .. Len(d) + (dec + 1) : t[i] = DigitAt(d, i)
    BY <2>1, Zenon DEF PaddedWith
  <2>3. /\ keep \in 0 .. Len(t) - 1 /\ keep <= Len(b) /\ keep + 1 \in 1 .. Len(d) + (dec + 1)
        /\ \A i \in 1 .. keep : i \in 1 .. ExactSig + 1 /\ i \in 1 .. Len(d) + (dec + 1)
        /\ keep < Len(b) => keep + 1 \in 1 .. ExactSig + 1
        /\ keep = Len(b) => keep + 1 \notin 1 .. Len(d)
    BY <1>5, <1>6, <1>7, <1>9, <2>2
  <2>4. \A i \in 1 .. keep : b[i] = t[i]
    BY <1>6, <2>2, <2>3, Zenon
  <2>5. keep < Len(b) => b[keep + 1] = t[keep + 1]
    BY <1>6, <2>2, <2>3, Zenon
  <2>6. keep = Len(b) => t[keep + 1] = 0
    BY <2>2, <2>3, Zenon DEF DigitAt
  <2>7. r = Num!pas_round_half_up(t, keep)
    <3>1. r = Num!pas_round_half_up(b, keep)
      BY Zenon
    <3>. HIDE DEF r, keep
    <3>. QED BY <1>6, <2>2, <2>3, <2>4, <2>5, <2>6, <3>1, RoundsAlike, Zenon
  <2>. HIDE DEF r
  <2>8. RightlyFloat(d, e, dec, w)
    BY <1>5, <1>8, <2>7, FloatValue, Zenon DEF t
  <2>9. places = dec
    BY <2>8, Zenon DEF RightlyFloat
  <2>10. fits = (\A i \in 1 .. places : w.frac[i] # Num!Stray)
    <3>1. \A i \in 1 .. places : w.frac[i] # Num!Stray
      BY <2>8, <2>9, Zenon DEF RightlyFloat
    <3>2. fits
      BY <1>9, <2>9, Zenon
    <3>. HIDE DEF fits, places
    <3>. QED BY <3>1, <3>2
  <2>. HIDE DEF fits, places
  <2>. QED BY <2>8, <2>9, <2>10, Zenon DEF RightlyFloat
<1>10. ASSUME ~(dec <= ExactSig) PROVE Good
  <2>1. Len(b) <= 1 + dec /\ 1 + dec \in Nat /\ 1 <= Len(b) /\ ~(1 + dec <= Len(b))
    BY <1>5, <1>6, <1>7, <1>10
  <2>2. r.d = b /\ r.carry = FALSE
    BY <1>6, <2>1, NothingRounded, Zenon
  <2>3. c = b
    BY <2>2, Zenon
  <2>4. FoundAs(b, 1, dec, w.frac)
    <3>1. 1 \in Nat
      OBVIOUS
    <3>. HIDE DEF c
    <3>. QED BY <1>2, <1>5, <1>6, <2>1, <2>3, <3>1, FoundIs, Zenon
  <2>5. places = dec /\ (1 + dec <= Len(b)) = (\A i \in 1 .. dec : w.frac[i] # Num!Stray)
    BY <2>4, Zenon DEF FoundAs
  <2>6. ~fits /\ places > 0
    <3>. HIDE DEF places
    <3>. QED BY <1>5, <1>10, <2>5
  <2>7. ~(\A i \in 1 .. places : w.frac[i] # Num!Stray)
    BY <2>1, <2>5, Zenon
  <2>8. fits = (\A i \in 1 .. places : w.frac[i] # Num!Stray)
    <3>1. fits \in BOOLEAN
      BY DEF fits
    <3>. HIDE DEF fits, places
    <3>. QED BY <2>6, <2>7, <3>1
  <2>. HIDE DEF fits, places
  <2>. QED BY <2>6, <2>8, Zenon
<1>. QED BY <1>9, <1>10

-----------------------------------------------------------------------------
(* Integer powers.                                                         *)

\* What the multiplications have made after each of them.
AccStep(b, f, i) ==
  IF i = 0 THEN 1
  ELSE LET acc == f[i - 1] * b
       IN IF f[i - 1] = MaxInt + 1 \/ Num!Magnitude(acc) > MaxInt THEN MaxInt + 1 ELSE acc
Accs(b, n) == CHOOSE f : f = [i \in 0 .. n |-> AccStep(b, f, i)]

LEMMA AccsExist ==
  ASSUME NEW b \in Int, NEW n \in Nat
  PROVE  /\ Accs(b, n)[0] = 1
         /\ \A i \in 1 .. n : Accs(b, n)[i] = AccStep(b, Accs(b, n), i)
<1>. DEFINE Times(y) ==
              IF y = MaxInt + 1 \/ Num!Magnitude(y * b) > MaxInt THEN MaxInt + 1 ELSE y * b
            F == [i \in 1 .. n |-> [y \in Int |-> Times(y)]]
<1>1. 0 \in 0 .. n /\ 1 \in Int
  OBVIOUS
<1>2. F \in [1 .. n -> [Int -> Int]]
  <2>1. \A y \in Int : Times(y) \in Int
    <3>1. MaxInt + 1 \in Int
      BY ValuesAssumption
    <3>2. \A y \in Int : y * b \in Int
      OBVIOUS
    <3>. QED BY <3>1, <3>2, Zenon
  <2>. HIDE DEF Times
  <2>. QED BY <2>1
<1>. HIDE DEF F
<1>3. Iterable(n, Int, 1, F)
  BY <1>1, <1>2, Iterates, Zenon
<1>4. PICK f \in [0 .. n -> Int] : f[0] = 1 /\ \A j \in 1 .. n : f[j] = F[j][f[j - 1]]
  BY <1>3, Zenon DEF Iterable
<1>5. ASSUME NEW j \in 0 .. n PROVE f[j] = AccStep(b, f, j)
  <2>1. CASE j = 0
    BY <1>4, <2>1, Zenon DEF AccStep
  <2>2. CASE j # 0
    <3>1. j \in 1 .. n /\ j - 1 \in 0 .. n
      BY <2>2
    <3>2. f[j - 1] \in Int
      BY <3>1
    <3>3. f[j] = Times(f[j - 1])
      <4>. HIDE DEF Times
      <4>. QED BY <1>4, <3>1, <3>2, Zenon DEF F
    <3>. QED BY <2>2, <3>3, Zenon DEF AccStep
  <2>. QED BY <2>1, <2>2
<1>6. f = [j \in 0 .. n |-> AccStep(b, f, j)]
  <2>1. f = [j \in 0 .. n |-> f[j]]
    OBVIOUS
  <2>. QED BY <1>5, <2>1, Zenon
<1>. DEFINE g == Accs(b, n)
<1>7. g = [j \in 0 .. n |-> AccStep(b, g, j)]
  BY <1>6, Zenon DEF Accs
<1>. HIDE DEF g
<1>8. \A j \in 0 .. n : g[j] = AccStep(b, g, j)
  BY <1>7, Zenon
<1>9. g[0] = 1
  BY <1>1, <1>8, Zenon DEF AccStep
<1>10. ASSUME NEW j \in 1 .. n PROVE g[j] = AccStep(b, g, j)
  <2>1. j \in 0 .. n
    OBVIOUS
  <2>. QED BY <1>8, <2>1, Zenon
<1>. QED BY <1>9, <1>10, Zenon DEF g

\* Multiplying by what is not zero makes no number smaller.
LEMMA ProductGrows ==
  ASSUME NEW b \in Int, b # 0, NEW p \in Int
  PROVE  p * b = b * p /\ Num!Magnitude(b * p) >= Num!Magnitude(p)
<1>1. ASSUME NEW x \in Nat, NEW y \in Nat, x # 0 PROVE x * y >= y
  <2>1. (x - 1) * y >= 0
    BY <1>1
  <2>2. x * y = (x - 1) * y + y
    BY <1>1
  <2>. QED BY <1>1, <2>1, <2>2
<1>2. /\ b * p = (-b) * (-p) /\ -(b * p) = (-b) * p /\ -(b * p) = b * (-p)
      /\ p * b = b * p
  OBVIOUS
<1>3. CASE b > 0 /\ p >= 0
  <2>1. b \in Nat /\ p \in Nat
    BY <1>3
  <2>2. b * p >= p
    BY <1>1, <2>1
  <2>. QED BY <1>2, <1>3, <2>2 DEF Num!Magnitude
<1>4. CASE b > 0 /\ p < 0
  <2>1. b \in Nat /\ -p \in Nat
    BY <1>4
  <2>2. b * (-p) >= -p
    BY <1>1, <2>1
  <2>. QED BY <1>2, <1>4, <2>2 DEF Num!Magnitude
<1>5. CASE b < 0 /\ p >= 0
  <2>1. -b \in Nat /\ -b # 0 /\ p \in Nat
    BY <1>5
  <2>2. (-b) * p >= p
    BY <1>1, <2>1
  <2>. QED BY <1>2, <1>5, <2>2 DEF Num!Magnitude
<1>6. CASE b < 0 /\ p < 0
  <2>1. -b \in Nat /\ -b # 0 /\ -p \in Nat
    BY <1>6
  <2>2. (-b) * (-p) >= -p
    BY <1>1, <2>1
  <2>. QED BY <1>2, <1>6, <2>2 DEF Num!Magnitude
<1>. QED BY <1>3, <1>4, <1>5, <1>6

\* The multiplications make the power, or stop at the first that is too large.
Capped(q) == IF Num!Magnitude(q) <= MaxInt THEN q ELSE MaxInt + 1
LEMMA CappedSteps ==
  ASSUME NEW b \in Int, b # 0, NEW p \in Int, NEW f, NEW i \in Nat, i # 0, f[i - 1] = Capped(p)
  PROVE  AccStep(b, f, i) = Capped(b * p)
<1>. DEFINE c == Capped(p)
<1>1. AccStep(b, f, i) =
        IF c = MaxInt + 1 \/ Num!Magnitude(c * b) > MaxInt THEN MaxInt + 1 ELSE c * b
  BY Zenon DEF AccStep
<1>2. /\ p * b = b * p /\ Num!Magnitude(b * p) >= Num!Magnitude(p)
      /\ Num!Magnitude(p) \in Nat /\ Num!Magnitude(b * p) \in Nat
  <2>1. \A n \in Int : Num!Magnitude(n) \in Nat
    BY DEF Num!Magnitude
  <2>2. b * p \in Int
    OBVIOUS
  <2>. QED BY <2>1, <2>2, ProductGrows
<1>3. MaxInt \in Nat
  BY ValuesAssumption
<1>4. CASE Num!Magnitude(p) <= MaxInt
  <2>1. c = p
    BY <1>4, Zenon DEF Capped
  <2>2. p # MaxInt + 1
    BY <1>3, <1>4 DEF Num!Magnitude
  <2>3. Num!Magnitude(p * b) > MaxInt <=> ~(Num!Magnitude(b * p) <= MaxInt)
    <3>1. Num!Magnitude(b * p) > MaxInt <=> ~(Num!Magnitude(b * p) <= MaxInt)
      BY <1>2, <1>3
    <3>. QED BY <1>2, <3>1, Zenon
  <2>4. AccStep(b, f, i) = IF Num!Magnitude(p * b) > MaxInt THEN MaxInt + 1 ELSE b * p
    BY <1>1, <1>2, <2>1, <2>2, Zenon
  <2>. QED BY <2>3, <2>4, Zenon DEF Capped
<1>5. CASE ~(Num!Magnitude(p) <= MaxInt)
  <2>1. c = MaxInt + 1
    BY <1>5, Zenon DEF Capped
  <2>2. ~(Num!Magnitude(b * p) <= MaxInt)
    BY <1>2, <1>3, <1>5
  <2>. QED BY <1>1, <2>1, <2>2, Zenon DEF Capped
<1>. QED BY <1>4, <1>5

LEMMA AccsAre ==
  ASSUME NEW b \in Int, b # 0, NEW n \in Nat
  PROVE  Accs(b, n)[n] = Capped(Power(b, n))
<1>. DEFINE g == Accs(b, n)
            S == [i \in 0 .. n |-> {Capped(Power(b, i))}]
<1>1. g[0] = 1 /\ \A i \in 1 .. n : g[i] = AccStep(b, g, i)
  BY AccsExist, Zenon
<1>. HIDE DEF g
<1>2. 0 \in 0 .. n /\ n \in 0 .. n
  OBVIOUS
<1>3. g[0] \in S[0]
  <2>1. Num!Magnitude(1) <= MaxInt
    BY ValuesAssumption DEF Num!Magnitude
  <2>2. Capped(Power(b, 0)) = 1
    BY <2>1, PowerIs, Zenon DEF Capped
  <2>. QED BY <1>1, <1>2, <2>2
<1>4. ASSUME NEW i \in 1 .. n, g[i - 1] \in S[i - 1] PROVE g[i] \in S[i]
  <2>1. /\ i \in 0 .. n /\ i - 1 \in 0 .. n /\ i - 1 \in Nat /\ (i - 1) + 1 = i
        /\ i \in Nat /\ i # 0
    OBVIOUS
  <2>2. g[i - 1] = Capped(Power(b, i - 1))
    BY <1>4, <2>1
  <2>3. Power(b, i - 1) \in Int /\ Power(b, i) = b * Power(b, i - 1)
    BY <2>1, PowerIs, Zenon
  <2>4. AccStep(b, g, i) = Capped(b * Power(b, i - 1))
    BY <2>1, <2>2, <2>3, CappedSteps, Zenon
  <2>5. g[i] = Capped(Power(b, i))
    BY <1>1, <2>3, <2>4, Zenon
  <2>. QED BY <2>1, <2>5
<1>5. \A i \in 0 .. n : g[i] \in S[i]
  <2>. HIDE DEF S
  <2>. QED BY <1>3, <1>4, Climbs, Zenon
<1>. QED BY <1>2, <1>5 DEF g

\* The powers of one and of minus one.
UnitPower(x, n) == IF x = 1 \/ n % 2 = 0 THEN 1 ELSE -1
LEMMA UnitPowers ==
  ASSUME NEW x \in {1, -1}, NEW n \in Nat
  PROVE  Power(x, n) = UnitPower(x, n)
<1>. DEFINE g == [i \in 0 .. n |-> Power(x, i)]
            S == [i \in 0 .. n |-> {UnitPower(x, i)}]
<1>1. 0 \in 0 .. n /\ n \in 0 .. n /\ x \in Int
  OBVIOUS
<1>2. g[0] \in S[0]
  <2>1. Power(x, 0) = 1
    BY <1>1, PowerIs
  <2>2. UnitPower(x, 0) = 1
    BY DEF UnitPower
  <2>. QED BY <1>1, <2>1, <2>2
<1>3. ASSUME NEW i \in 1 .. n, g[i - 1] \in S[i - 1] PROVE g[i] \in S[i]
  <2>1. i \in 0 .. n /\ i - 1 \in 0 .. n /\ i - 1 \in Nat /\ (i - 1) + 1 = i
    OBVIOUS
  <2>2. Power(x, i - 1) = UnitPower(x, i - 1)
    BY <1>3, <2>1
  <2>3. Power(x, i) = x * UnitPower(x, i - 1)
    BY <1>1, <2>1, <2>2, PowerIs, Zenon
  <2>4. x * UnitPower(x, i - 1) = UnitPower(x, i)
    BY DEF UnitPower
  <2>. QED BY <2>1, <2>3, <2>4
<1>4. \A i \in 0 .. n : g[i] \in S[i]
  <2>. HIDE DEF g, S
  <2>. QED BY <1>2, <1>3, Climbs, Zenon
<1>. QED BY <1>1, <1>4

\* Every integer power is the power itself, or refused as too large.
LEMMA PowersAreExact ==
  ASSUME NEW x \in Int, NEW y \in Int
  PROVE  PowerIsExact(x, y)
<1>. DEFINE b == IF y < 0 THEN (IF Num!Magnitude(x) = 1 THEN x ELSE 0) ELSE x
            n == Num!Magnitude(y)
            q == Accs(b, n)[n]
            p == Num!pas_pow_int(x, y)
<1>1. p = IF x = 0 /\ y <= 0 THEN Num!Refused("undefined")
          ELSE IF x = 0 THEN Num!Answer(0)
          ELSE IF y = 0 THEN Num!Answer(1)
          ELSE IF b = 0 THEN Num!Answer(0)
          ELSE IF q = MaxInt + 1 THEN Num!Refused("overflow")
          ELSE Num!Answer(q)
  BY Zenon DEF Num!pas_pow_int, Accs, AccStep
<1>. HIDE DEF p
<1>2. n \in Nat /\ b \in Int
  BY DEF Num!Magnitude
<1>3. b # 0 => q = Capped(Power(b, n))
  <2>. HIDE DEF b, n
  <2>. QED BY <1>2, AccsAre, Zenon
<1>. HIDE DEF q
<1>4. /\ Num!Refused("undefined").error = "undefined" /\ Num!Refused("overflow").error = "overflow"
  BY DEF Num!Refused
<1>5. MaxInt \in Nat /\ MaxInt >= 1
  BY ValuesAssumption
<1>6. CASE x = 0 /\ y <= 0
  <2>1. p.error = "undefined"
    BY <1>1, <1>4, <1>6, Zenon
  <2>. QED BY <1>6, <2>1, Zenon DEF PowerIsExact, Num!pas_pow_real, Num!pas_pow_realint, p
<1>7. CASE x = 0 /\ ~(y <= 0)
  <2>1. ~(y < 0) /\ y - 1 \in Nat /\ (y - 1) + 1 = y
    BY <1>7
  <2>2. Power(0, y) = 0
    <3>1. 0 \in Int
      OBVIOUS
    <3>2. Power(0, y) = 0 * Power(0, y - 1) /\ Power(0, y - 1) \in Int
      BY <2>1, <3>1, PowerIs, Zenon
    <3>. QED BY <3>2
  <2>3. Num!Magnitude(0) <= MaxInt
    BY <1>5 DEF Num!Magnitude
  <2>4. p = Num!Answer(0)
    BY <1>1, <1>7, Zenon
  <2>. QED BY <1>7, <2>1, <2>2, <2>3, <2>4, Zenon DEF PowerIsExact, p
<1>8. CASE x # 0 /\ y = 0
  <2>1. Power(x, y) = 1 /\ ~(y < 0)
    BY <1>8, PowerIs
  <2>2. Num!Magnitude(1) <= MaxInt
    BY <1>5 DEF Num!Magnitude
  <2>3. p = Num!Answer(1)
    BY <1>1, <1>8, Zenon
  <2>. QED BY <1>8, <2>1, <2>2, <2>3, Zenon DEF PowerIsExact, p
<1>9. CASE x # 0 /\ y > 0
  <2>1. ~(y < 0) /\ y # 0 /\ n = y /\ b = x
    BY <1>9 DEF Num!Magnitude
  <2>2. q = Capped(Power(x, y)) /\ Power(x, y) \in Int
    BY <1>2, <1>3, <1>9, <2>1, PowerIs, Zenon
  <2>. HIDE DEF b, n
  <2>3. CASE Num!Magnitude(Power(x, y)) <= MaxInt
    <3>1. q = Power(x, y)
      BY <2>2, <2>3, Zenon DEF Capped
    <3>2. q # MaxInt + 1
      BY <1>5, <2>2, <2>3, <3>1 DEF Num!Magnitude
    <3>3. p = Num!Answer(Power(x, y))
      BY <1>1, <1>9, <2>1, <3>1, <3>2, Zenon
    <3>. QED BY <1>9, <2>1, <2>3, <3>3, Zenon DEF PowerIsExact, p
  <2>4. CASE ~(Num!Magnitude(Power(x, y)) <= MaxInt)
    <3>1. q = MaxInt + 1
      BY <2>2, <2>4, Zenon DEF Capped
    <3>2. p.error = "overflow"
      BY <1>1, <1>4, <1>9, <2>1, <3>1, Zenon
    <3>. QED BY <1>9, <2>1, <2>4, <3>2, Zenon DEF PowerIsExact, p
  <2>. QED BY <2>3, <2>4
<1>10. CASE x # 0 /\ y < 0
  <2>. DEFINE Quotient == IF x = 1 THEN 1 ELSE IF x # -1 THEN 0 ELSE IF y % 2 = 0 THEN 1 ELSE -1
  <2>1. p = Num!Answer(Quotient)
    <3>1. CASE x = 1 \/ x = -1
      <4>1. b = x /\ y # 0 /\ x # 0 /\ x \in {1, -1}
        BY <1>10, <3>1 DEF Num!Magnitude
      <4>2. q = Capped(UnitPower(x, n))
        <5>. HIDE DEF b, n
        <5>. QED BY <1>2, <1>3, <4>1, UnitPowers, Zenon
      <4>3. UnitPower(x, n) = Quotient
        <5>1. n % 2 = 0 <=> y % 2 = 0
          BY <1>10 DEF Num!Magnitude
        <5>. HIDE DEF n
        <5>. QED BY <3>1, <5>1 DEF UnitPower
      <4>4. Num!Magnitude(Quotient) <= MaxInt /\ Quotient # MaxInt + 1
        BY <1>5 DEF Num!Magnitude
      <4>. HIDE DEF Quotient, b, n
      <4>5. q = Quotient
        BY <4>2, <4>3, <4>4, Zenon DEF Capped
      <4>. QED BY <1>1, <4>1, <4>4, <4>5, Zenon
    <3>2. CASE ~(x = 1 \/ x = -1)
      <4>1. b = 0 /\ y # 0 /\ Quotient = 0
        BY <1>10, <3>2 DEF Num!Magnitude
      <4>. HIDE DEF Quotient, b, n
      <4>. QED BY <1>1, <1>10, <4>1, Zenon
    <3>. QED BY <3>1, <3>2
  <2>. QED BY <1>10, <2>1, Zenon DEF PowerIsExact, p
<1>11. y <= 0 \/ y > 0
  OBVIOUS
<1>12. y <= 0 => y < 0 \/ y = 0
  OBVIOUS
<1>. QED BY <1>6, <1>7, <1>8, <1>9, <1>10, <1>11, <1>12, Zenon

-----------------------------------------------------------------------------
(* The calendar.                                                           *)

\* The days up to the end of each month.
DayStep(y, f, m) == IF m = 0 THEN 0 ELSE f[m - 1] + Num!pas_days_in_month(y, m)
DaysTo(y) == CHOOSE f : f = [m \in 0 .. 12 |-> DayStep(y, f, m)]

Leap(y) == y % 4 = 0 /\ (y % 100 # 0 \/ y % 400 = 0)
MonthLengths == <<31, 28, 31, 30, 31, 30, 31, 31, 30, 31, 30, 31>>

LEMMA MonthsAre ==
  ASSUME NEW y \in Int, NEW m \in 1 .. 12
  PROVE  /\ Num!pas_days_in_month(y, m) = IF m = 2 /\ Leap(y) THEN 29 ELSE MonthLengths[m]
         /\ Num!pas_days_in_month(y, m) \in 28 .. 31
<1>1. Num!pas_days_in_month(y, m) = IF m = 2 /\ Leap(y) THEN 29 ELSE MonthLengths[m]
  BY Zenon DEF Num!pas_days_in_month, Leap, MonthLengths
<1>2. MonthLengths[m] \in 28 .. 31
  BY DEF MonthLengths
<1>3. 29 \in 28 .. 31
  OBVIOUS
<1>. QED BY <1>1, <1>2, <1>3, Zenon

LEMMA DaysExist ==
  ASSUME NEW y \in Nat
  PROVE  /\ Days(y) = DaysTo(y)[12] /\ DaysTo(y)[0] = 0
         /\ \A m \in 1 .. 12 : DaysTo(y)[m] = DaysTo(y)[m - 1] + Num!pas_days_in_month(y, m)
<1>. DEFINE D(m) == Num!pas_days_in_month(y, m)
            F == [m \in 1 .. 12 |-> [x \in Int |-> x + D(m)]]
<1>1. 0 \in 0 .. 12 /\ 0 \in Int /\ 12 \in Nat
  OBVIOUS
<1>2. F \in [1 .. 12 -> [Int -> Int]]
  <2>1. \A m \in 1 .. 12 : D(m) \in 28 .. 31
    BY y \in Int, MonthsAre, Zenon
  <2>. HIDE DEF D
  <2>2. ASSUME NEW m \in 1 .. 12 PROVE [x \in Int |-> x + D(m)] \in [Int -> Int]
    <3>1. D(m) \in Int
      BY <2>1
    <3>. QED BY <3>1
  <2>. QED BY <2>2, Zenon
<1>. HIDE DEF F
<1>3. Iterable(12, Int, 0, F)
  BY <1>1, <1>2, Iterates, Zenon
<1>4. PICK f \in [0 .. 12 -> Int] : f[0] = 0 /\ \A j \in 1 .. 12 : f[j] = F[j][f[j - 1]]
  BY <1>3, Zenon DEF Iterable
<1>5. ASSUME NEW j \in 0 .. 12 PROVE f[j] = DayStep(y, f, j)
  <2>1. CASE j = 0
    BY <1>4, <2>1, Zenon DEF DayStep
  <2>2. CASE j # 0
    <3>1. j \in 1 .. 12 /\ j - 1 \in 0 .. 12
      BY <2>2
    <3>2. f[j - 1] \in Int
      BY <3>1
    <3>3. f[j] = f[j - 1] + D(j)
      BY <1>4, <3>1, <3>2, Zenon DEF F
    <3>. QED BY <2>2, <3>3, Zenon DEF DayStep
  <2>. QED BY <2>1, <2>2
<1>6. f = [j \in 0 .. 12 |-> DayStep(y, f, j)]
  <2>1. f = [j \in 0 .. 12 |-> f[j]]
    OBVIOUS
  <2>. QED BY <1>5, <2>1, Zenon
<1>. DEFINE g == DaysTo(y)
<1>7. g = [j \in 0 .. 12 |-> DayStep(y, g, j)]
  BY <1>6, Zenon DEF DaysTo
<1>. HIDE DEF g
<1>8. \A j \in 0 .. 12 : g[j] = DayStep(y, g, j)
  BY <1>7, Zenon
<1>9. g[0] = 0
  BY <1>1, <1>8, Zenon DEF DayStep
<1>10. ASSUME NEW j \in 1 .. 12 PROVE g[j] = g[j - 1] + D(j)
  <2>1. j \in 0 .. 12 /\ j # 0
    OBVIOUS
  <2>. QED BY <1>8, <2>1, Zenon DEF DayStep
<1>11. Days(y) = g[12]
  BY Zenon DEF Days, DaysTo, DayStep, g
<1>. QED BY <1>9, <1>10, <1>11, Zenon DEF g

\* A year has the days by which the count of all days before it grows.
LEMMA YearsAre ==
  ASSUME NEW y \in Nat \ {0}
  PROVE  Days(y) = DaysBefore(y + 1) - DaysBefore(y)
<1>. DEFINE g == DaysTo(y)
            D(m) == Num!pas_days_in_month(y, m)
<1>1. /\ Days(y) = g[12] /\ g[0] = 0 /\ \A m \in 1 .. 12 : g[m] = g[m - 1] + D(m)
  BY DaysExist, Zenon
<1>2. \A m \in 1 .. 12 : D(m) = IF m = 2 /\ Leap(y) THEN 29 ELSE MonthLengths[m]
  BY y \in Int, MonthsAre, Zenon
<1>. HIDE DEF g, D
<1>3. /\ g[1] = g[0] + D(1) /\ g[2] = g[1] + D(2) /\ g[3] = g[2] + D(3) /\ g[4] = g[3] + D(4)
      /\ g[5] = g[4] + D(5) /\ g[6] = g[5] + D(6) /\ g[7] = g[6] + D(7) /\ g[8] = g[7] + D(8)
      /\ g[9] = g[8] + D(9) /\ g[10] = g[9] + D(10) /\ g[11] = g[10] + D(11)
      /\ g[12] = g[11] + D(12)
  BY <1>1
<1>4. /\ D(1) = 31 /\ D(2) = (IF Leap(y) THEN 29 ELSE 28) /\ D(3) = 31 /\ D(4) = 30
      /\ D(5) = 31 /\ D(6) = 30 /\ D(7) = 31 /\ D(8) = 31 /\ D(9) = 30 /\ D(10) = 31
      /\ D(11) = 30 /\ D(12) = 31
  <2>. HIDE DEF Leap
  <2>. QED BY <1>2 DEF MonthLengths
<1>5. g[12] = IF Leap(y) THEN 366 ELSE 365
  BY <1>1, <1>3, <1>4
<1>6. ASSUME NEW k \in {4, 100, 400}
      PROVE  y \div k = (y - 1) \div k + (IF y % k = 0 THEN 1 ELSE 0)
  <2>1. CASE k = 4
    BY <2>1
  <2>2. CASE k = 100
    BY <2>2
  <2>3. CASE k = 400
    BY <2>3
  <2>. QED BY <2>1, <2>2, <2>3
<1>7. /\ y \div 4 = (y - 1) \div 4 + (IF y % 4 = 0 THEN 1 ELSE 0)
      /\ y \div 100 = (y - 1) \div 100 + (IF y % 100 = 0 THEN 1 ELSE 0)
      /\ y \div 400 = (y - 1) \div 400 + (IF y % 400 = 0 THEN 1 ELSE 0)
  BY <1>6
<1>8. (y % 100 = 0 => y % 4 = 0) /\ (y % 400 = 0 => y % 100 = 0)
  OBVIOUS
<1>9. DaysBefore(y + 1) - DaysBefore(y) = IF Leap(y) THEN 366 ELSE 365
  BY <1>7, <1>8 DEF DaysBefore, Leap
<1>. QED BY <1>1, <1>5, <1>9

\* What a clock or a calendar answers: nothing, or an instant of any year, leap
\* seconds included.
IsInstant(t) ==
  \/ t = Num!NoTime
  \/ /\ t # Num!NoTime /\ t[1] \in Int /\ t[2] + 1 \in 1 .. 12
     /\ t[3] \in 1 .. Num!pas_days_in_month(t[1] + 1900, t[2] + 1)
     /\ t[4] \in 0 .. 23 /\ t[5] \in 0 .. 59 /\ t[6] \in Nat

\* Six digits of a time are a time of day.
LEMMA TimesAre ==
  ASSUME NEW h \in 0 .. 23, NEW m \in 0 .. 59, NEW s \in 0 .. 59
  PROVE  TimeOfDay(Num!Natural(Num!pas_time(h, m, s)))
<1>. DEFINE d == Num!pas_time(h, m, s)
            v == ValueTo(d)
<1>1. /\ h \div 10 \in Digits /\ h % 10 \in Digits /\ m \div 10 \in Digits
      /\ m % 10 \in Digits /\ s \div 10 \in Digits /\ s % 10 \in Digits
  BY DEF Digits
<1>2. d = <<h \div 10, h % 10, m \div 10, m % 10, s \div 10, s % 10>>
  BY Zenon DEF Num!pas_time
<1>. HIDE DEF d
<1>3. d \in Seq(Digits) /\ Len(d) = 6
  <2>. HIDE DEF Digits
  <2>. QED BY <1>1, <1>2
<1>4. /\ d[1] = h \div 10 /\ d[2] = h % 10 /\ d[3] = m \div 10
      /\ d[4] = m % 10 /\ d[5] = s \div 10 /\ d[6] = s % 10
  BY <1>2
<1>5. IsValue(v, d) /\ Num!Natural(d) = v[6]
  BY <1>3, ValueExists, Zenon
<1>. HIDE DEF v
<1>6. v[0] = 0 /\ \A i \in 1 .. 6 : v[i] = 10 * v[i - 1] + d[i]
  BY <1>3, <1>5, Zenon DEF IsValue
<1>7. /\ v[1] = 10 * v[0] + d[1] /\ v[2] = 10 * v[1] + d[2] /\ v[3] = 10 * v[2] + d[3]
      /\ v[4] = 10 * v[3] + d[4] /\ v[5] = 10 * v[4] + d[5] /\ v[6] = 10 * v[5] + d[6]
  BY <1>6
<1>. DEFINE A == 100 * h + m
            B == 100 * A + s
<1>8. /\ 10 * (10 * 0 + (h \div 10)) + (h % 10) = h
      /\ 10 * (10 * h + (m \div 10)) + (m % 10) = A
  BY SMT
<1>9. 10 * (10 * A + (s \div 10)) + (s % 10) = B /\ TimeOfDay(B)
  <2>1. A \in Nat /\ A \div 100 = h /\ A % 100 = m
    BY SMT
  <2>. HIDE DEF A
  <2>2. 10 * (10 * A + (s \div 10)) + (s % 10) = B
    BY <2>1, SMT
  <2>3. B \in Nat /\ B \div 100 = A /\ B % 100 = s
    BY <2>1, SMT
  <2>4. TimeOfDay(B)
    <3>. HIDE DEF B
    <3>. QED BY <2>1, <2>3 DEF TimeOfDay
  <2>. QED BY <2>2, <2>4, Zenon
<1>. HIDE DEF A, B
<1>10. v[2] = h
  BY <1>4, <1>6, <1>7, <1>8, Zenon
<1>11. v[4] = A
  BY <1>4, <1>7, <1>8, <1>10, Zenon
<1>12. v[6] = B
  BY <1>4, <1>7, <1>9, <1>11, Zenon
<1>. QED BY <1>5, <1>9, <1>12, Zenon DEF d

\* A time stamp of any instant is a day of the calendar and a time of day, of the
\* instant that is named when one is, and says whether there was one.
LEMMA StampsAre ==
  ASSUME NEW named \in BOOLEAN, NEW calendar, NEW clock, IsInstant(calendar), IsInstant(clock)
  PROVE  StampIsDate(named, calendar, clock)
<1>. DEFINE t == IF named THEN calendar ELSE clock
            s == Num!pas_gettimestamp(named, calendar, clock)
<1>1. IsInstant(t)
  OBVIOUS
<1>2. ASSUME NEW y \in Int, NEW m \in 1 .. 12, NEW d \in 1 .. Num!pas_days_in_month(y, m)
      PROVE  (Num!pas_date(y, m, d) # <<>>) = (y \in Num!Years)
  <2>1. ~(d < 1) /\ ~(d > Num!pas_days_in_month(y, m)) /\ ~(m \notin 1 .. 12)
    <3>1. Num!pas_days_in_month(y, m) \in 28 .. 31
      BY MonthsAre, Zenon
    <3>. QED BY <3>1
  <2>2. CASE y \in Num!Years
    <3>1. Num!pas_date(y, m, d) # <<>>
      BY <2>1, <2>2, SMT DEF Num!pas_date
    <3>. QED BY <2>2, <3>1
  <2>3. CASE y \notin Num!Years
    <3>1. Num!pas_date(y, m, d) = <<>>
      BY <2>3, Zenon DEF Num!pas_date
    <3>. QED BY <2>3, <3>1
  <2>. QED BY <2>2, <2>3
<1>3. CASE t = Num!NoTime
  <2>1. s = <<FALSE, FALSE, 1, 1, 1, 0, 0, 0>>
    BY <1>3, Zenon DEF Num!pas_gettimestamp
  <2>2. /\ s[1] = FALSE /\ s[3] = 1 /\ s[4] = 1 /\ s[5] = 1 /\ s[6] = 0 /\ s[7] = 0 /\ s[8] = 0
    <3>. HIDE DEF s
    <3>. QED BY <2>1
  <2>. HIDE DEF s
  <2>3. /\ 1 \in 1 .. 12 /\ 1 \in 1 .. Num!pas_days_in_month(1, 1)
        /\ (Num!pas_date(1, 1, 1) # <<>>) = (1 \in Num!Years)
    <3>1. 1 \in Int /\ 1 \in 1 .. 12
      OBVIOUS
    <3>2. Num!pas_days_in_month(1, 1) \in 28 .. 31
      BY <3>1, MonthsAre, Zenon
    <3>3. 1 \in 1 .. Num!pas_days_in_month(1, 1)
      BY <3>2
    <3>. QED BY <1>2, <3>1, <3>3, Zenon
  <2>4. TimeOfDay(Num!Natural(Num!pas_time(0, 0, 0))) /\ 0 \in 0 .. 59
    <3>1. 0 \in 0 .. 23 /\ 0 \in 0 .. 59
      OBVIOUS
    <3>. QED BY <3>1, TimesAre, Zenon
  <2>5. s[1] = (t # Num!NoTime)
    BY <1>3, <2>2, Zenon
  <2>. QED BY <2>2, <2>3, <2>4, <2>5, Zenon DEF StampIsDate, s
<1>4. CASE t # Num!NoTime
  <2>. DEFINE sec == IF t[6] > 59 THEN 59 ELSE t[6]
              year == t[1] + 1900
              month == t[2] + 1
  <2>1. s = <<TRUE, TRUE, year, month, t[3], t[4], t[5], sec>>
    BY <1>4, Zenon DEF Num!pas_gettimestamp
  <2>2. /\ s[1] = TRUE /\ s[3] = year /\ s[4] = month /\ s[5] = t[3]
        /\ s[6] = t[4] /\ s[7] = t[5] /\ s[8] = sec
    <3>. HIDE DEF s, sec, t, year, month
    <3>. QED BY <2>1
  <2>3. /\ year \in Int /\ month \in 1 .. 12
        /\ t[3] \in 1 .. Num!pas_days_in_month(year, month)
        /\ t[4] \in 0 .. 23 /\ t[5] \in 0 .. 59 /\ t[6] \in Nat
    <3>. HIDE DEF t
    <3>. QED BY <1>1, <1>4, SMT DEF IsInstant
  <2>. HIDE DEF s, t, year, month
  <2>4. sec \in 0 .. 59
    BY <2>3
  <2>. HIDE DEF sec
  <2>5. /\ s[4] \in 1 .. 12 /\ s[5] \in 1 .. Num!pas_days_in_month(s[3], s[4])
        /\ (Num!pas_date(s[3], s[4], s[5]) # <<>>) = (s[3] \in Num!Years)
    <3>1. (Num!pas_date(year, month, t[3]) # <<>>) = (year \in Num!Years)
      BY <1>2, <2>3, Zenon
    <3>. QED BY <2>2, <2>3, <3>1, Zenon
  <2>6. TimeOfDay(Num!Natural(Num!pas_time(s[6], s[7], s[8])))
    <3>1. TimeOfDay(Num!Natural(Num!pas_time(t[4], t[5], sec)))
      BY <2>3, <2>4, TimesAre, Zenon
    <3>. QED BY <2>2, <3>1, Zenon
  <2>7. s[1] = (t # Num!NoTime)
    BY <1>4, <2>2, Zenon
  <2>. QED BY <2>2, <2>4, <2>5, <2>6, <2>7, Zenon DEF StampIsDate, s, t
<1>. QED BY <1>3, <1>4

\* The years and the stamps the runs look at.
LEMMA DatesAreDates ==
  StampsAreDates
<1>1. \A y \in 1 .. 401 : Days(y) = DaysBefore(y + 1) - DaysBefore(y)
  <2>1. \A y \in 1 .. 401 : y \in Nat \ {0}
    OBVIOUS
  <2>. QED BY <2>1, YearsAre, Zenon
<1>2. IsInstant(Num!NoTime)
  BY Zenon DEF IsInstant
<1>3. \A y \in Int, m \in 1 .. 12 :
        /\ Num!pas_days_in_month(y, m) = IF m = 2 /\ Leap(y) THEN 29 ELSE MonthLengths[m]
        /\ Num!pas_days_in_month(y, m) \in 28 .. 31
  BY MonthsAre, Zenon
<1>4. ASSUME NEW t \in {<<70, 0, 1, 0, 0, 60>>, <<8100, 0, 1, 0, 0, 0>>} PROVE IsInstant(t)
  <2>1. /\ t[1] \in Int /\ t[2] = 0 /\ t[3] = 1 /\ t[4] = 0 /\ t[5] = 0 /\ t[6] \in Nat
        /\ t # Num!NoTime
    BY DEF Num!NoTime
  <2>. DEFINE y == t[1] + 1900
  <2>2. y \in Int /\ 1 \in 1 .. 12
    BY <2>1
  <2>3. 1 \in 1 .. Num!pas_days_in_month(y, 1)
    <3>. HIDE DEF y
    <3>1. Num!pas_days_in_month(y, 1) \in 28 .. 31
      BY <1>3, <2>2, SMT
    <3>. QED BY <3>1
  <2>4. t[2] + 1 = 1 /\ 0 \in 0 .. 23 /\ 0 \in 0 .. 59
    BY <2>1
  <2>. QED BY <2>1, <2>3, <2>4, SMT DEF IsInstant
<1>5. ASSUME NEW t \in {<<100, 1, 29, 23, 59, 59>>, <<-1900, 11, 31, 23, 59, 59>>} PROVE IsInstant(t)
  <2>. DEFINE y == t[1] + 1900
              m == t[2] + 1
  <2>1. /\ t[1] \in Int /\ t[4] = 23 /\ t[5] = 59 /\ t[6] = 59 /\ t # Num!NoTime
        /\ y \in Int /\ m \in 1 .. 12
        /\ (m = 2 /\ Leap(y) /\ t[3] = 29) \/ (m = 12 /\ t[3] = 31)
    BY DEF Num!NoTime, Leap
  <2>2. Num!pas_days_in_month(y, m) = IF m = 2 /\ Leap(y) THEN 29 ELSE MonthLengths[m]
    <3>. HIDE DEF y, m
    <3>. HIDE DEF Leap
    <3>. QED BY <1>3, <2>1, SMT
  <2>3. t[3] \in 1 .. Num!pas_days_in_month(y, m)
    <3>. HIDE DEF y, m, Leap
    <3>. QED BY <2>1, <2>2 DEF MonthLengths
  <2>. QED BY <2>1, <2>3, SMT DEF IsInstant
<1>. DEFINE T == {Num!NoTime, <<70, 0, 1, 0, 0, 60>>, <<100, 1, 29, 23, 59, 59>>,
                  <<8100, 0, 1, 0, 0, 0>>, <<-1900, 11, 31, 23, 59, 59>>}
<1>6. \A t \in T : IsInstant(t)
  BY <1>2, <1>4, <1>5
<1>7. \A named \in BOOLEAN : \A calendar, clock \in T : StampIsDate(named, calendar, clock)
  <2>. HIDE DEF T
  <2>. QED BY <1>6, StampsAre, Zenon
<1>. QED BY <1>1, <1>7 DEF StampsAreDates

-----------------------------------------------------------------------------
(* Numbers.                                                                *)

\* The digits of a real: the first is not zero.
Expansions == {d \in Seq(Digits) : Len(d) > 0 /\ d[1] # 0}

\* Every real is written rounded half away from zero in either form, and past the
\* digits that its buffer holds as no digits at all (pas_write_real); every
\* integer power is exact or refused (pas_pow_int); and every instant is stamped
\* as a day of the calendar and a time of day (pas_gettimestamp), whatever the
\* digits, the exponent, the places and the width asked for, and the buffers.
THEOREM NumbersAreWritten ==
  /\ \A d \in Expansions, e \in Int, prec \in Nat, width \in Int : FixedIsRounded(d, e, prec, width)
  /\ \A d \in Expansions, e \in Exponents, width \in Int : FloatIsRounded(d, e, width)
  /\ \A x, y \in Int : PowerIsExact(x, y)
  /\ \A y \in Nat \ {0} : Days(y) = DaysBefore(y + 1) - DaysBefore(y)
  /\ \A named \in BOOLEAN : \A calendar, clock :
       IsInstant(calendar) /\ IsInstant(clock) => StampIsDate(named, calendar, clock)
  /\ Spec => []NumbersAreRounded
<1>1. \A d \in Expansions, e \in Int, prec \in Nat, width \in Int : FixedIsRounded(d, e, prec, width)
  BY FixedRounds, Zenon DEF Expansions
<1>2. \A d \in Expansions, e \in Exponents, width \in Int : FloatIsRounded(d, e, width)
  BY FloatRounds, Zenon DEF Expansions
<1>3. \A x, y \in Int : PowerIsExact(x, y)
  BY PowersAreExact, Zenon
<1>4. \A y \in Nat \ {0} : Days(y) = DaysBefore(y + 1) - DaysBefore(y)
  BY YearsAre, Zenon
<1>5. \A named \in BOOLEAN : \A calendar, clock :
        IsInstant(calendar) /\ IsInstant(clock) => StampIsDate(named, calendar, clock)
  BY StampsAre, Zenon
<1>. DEFINE Expands == about = "reals" /\ given # <<>> => given \in Expansions
<1>6. Init => Expands
  BY Zenon DEF Init
<1>7. Expands /\ [Next]_vars => Expands'
  <2>. SUFFICES ASSUME Expands, [Next]_vars, about' = "reals", given' # <<>>
                PROVE  given' \in Expansions
    OBVIOUS
  <2>1. CASE UNCHANGED vars
    <3>1. about' = about /\ given' = given
      BY <2>1, Zenon DEF vars
    <3>. QED BY <3>1
  <2>2. CASE Next
    <3>1. about = "reals" /\ \E c \in (IF given = <<>> THEN 1 .. 9 ELSE {0, 4, 5, 9}) : given' = Append(given, c)
      <4>1. about' = about
        BY <2>2, Zenon DEF Next
      <4>2. /\ "reals" # "bytes" /\ "reals" # "normal" /\ "reals" # "elements" /\ "reals" # "strings"
            /\ "reals" # "writes" /\ "reals" # "texts" /\ "reals" # "arena"
        OBVIOUS
      <4>. QED BY <2>2, <4>1, <4>2, Zenon DEF Next, Lengthen
    <3>2. CASE given = <<>>
      <4>1. PICK c \in 1 .. 9 : given' = Append(<<>>, c)
        BY <3>1, <3>2, Zenon
      <4>2. Append(<<>>, c) = <<c>>
        OBVIOUS
      <4>3. <<c>> \in Seq(Digits) /\ Len(<<c>>) = 1 /\ <<c>>[1] = c /\ c # 0
        BY DEF Digits
      <4>. QED BY <4>1, <4>2, <4>3 DEF Expansions
    <3>3. CASE given # <<>>
      <4>1. PICK c \in {0, 4, 5, 9} : given' = Append(given, c)
        BY <3>1, <3>3, Zenon
      <4>2. c \in Digits
        BY DEF Digits
      <4>3. given \in Seq(Digits) /\ Len(given) > 0 /\ given[1] # 0
        BY <3>1, <3>3, Zenon DEF Expansions
      <4>4. Append(given, c) \in Seq(Digits) /\ Len(Append(given, c)) > 0 /\ Append(given, c)[1] = given[1]
        <5>. HIDE DEF Digits
        <5>. QED BY <4>2, <4>3
      <4>. QED BY <4>1, <4>3, <4>4 DEF Expansions
    <3>. QED BY <3>2, <3>3
  <2>. QED BY <2>1, <2>2
<1>8. Expands => NumbersAreRounded
  <2>. SUFFICES ASSUME Expands PROVE NumbersAreRounded
    OBVIOUS
  <2>1. ASSUME about = "reals", given # <<>>
        PROVE  /\ \A e \in -2 .. 1, prec \in {0, 1, 2, 5, 6, 7}, width \in {0, 5} :
                    FixedIsRounded(given, e, prec, width)
               /\ \A e \in {-101, -100, -99, -1, 0, 98, 99, 100}, width \in {-1, 0, 9, 11, 12} :
                    FloatIsRounded(given, e, width)
               /\ \A y \in -3 .. 4 : PowerIsExact(given[1] - 5, y)
    <3>1. given \in Expansions
      BY <2>1
    <3>2. given[1] - 5 \in Int /\ \A y \in -3 .. 4 : y \in Int
      BY <3>1 DEF Expansions, Digits
    <3>3. /\ \A e \in -2 .. 1 : e \in Int
          /\ \A prec \in {0, 1, 2, 5, 6, 7} : prec \in Nat
          /\ \A width \in {0, 5} : width \in Int
      OBVIOUS
    <3>. DEFINE E == {-101, -100, -99, -1, 0, 98, 99, 100}
    <3>4. /\ \A e \in E : e \in Exponents
          /\ \A width \in {-1, 0, 9, 11, 12} : width \in Int
      BY DEF Exponents
    <3>5. \A e \in -2 .. 1, prec \in {0, 1, 2, 5, 6, 7}, width \in {0, 5} :
            FixedIsRounded(given, e, prec, width)
      BY <1>1, <3>1, <3>3, Zenon
    <3>6. \A e \in E, width \in {-1, 0, 9, 11, 12} : FloatIsRounded(given, e, width)
      <4>. HIDE DEF E
      <4>. QED BY <1>2, <3>1, <3>4, Zenon
    <3>7. \A y \in -3 .. 4 : PowerIsExact(given[1] - 5, y)
      BY <1>3, <3>2, Zenon
    <3>. QED BY <3>5, <3>6, <3>7, Zenon
  <2>. QED BY <2>1, DatesAreDates, Zenon DEF NumbersAreRounded
<1>9. Spec => []NumbersAreRounded
  BY <1>6, <1>7, <1>8, PTL DEF Spec
<1>. QED BY <1>1, <1>2, <1>3, <1>4, <1>5, <1>9, Zenon
=============================================================================
