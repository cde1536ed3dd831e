--------------------------- MODULE PasArenaProofs ---------------------------
(***************************************************************************)
(* Proofs about PasArena, for every size of the arena and of the values,   *)
(* and every nesting of activations and statements.                        *)
(*                                                                         *)
(* The arena is shared out between the activations: each has the stretch   *)
(* from the level it found to the level its callee found, or to the        *)
(* present one.  What is said of an activation is said of its statements   *)
(* and the two ends of its stretch.                                        *)
(***************************************************************************)
EXTENDS PasArena, TLAPS

Phases == {"expr", "body", "end"}
Statements ==
  [kind : Kinds, own : BOOLEAN, any : BOOLEAN, held : SUBSET SUBSET Int, entry : Nat,
   phase : Phases]
Frames == [base : Nat, open : Seq(Statements)]

\* A statement that walks a text it holds.
Walks(s) == s.kind = "forin" /\ s.held # {} /\ s.phase = "body"
IsWhile(s) == s.kind \in {"while", "repeat"}

\* The statements o of an activation whose stretch is from b to t.  What they
\* hold lies in it and is held by one whose expression is under way or that
\* walks it; all but the innermost are executing their body.
HeldHere(o, b, t) ==
  \A k \in DOMAIN o : \A v \in o[k].held : v \subseteq b .. t - 1
HeldFor(o) ==
  \A k \in DOMAIN o :
    /\ o[k].own => o[k].any
    /\ o[k].held # {} => o[k].own /\ (o[k].phase = "expr" \/ Walks(o[k]))
OuterInBody(o) == \A k \in DOMAIN o : k < Len(o) => o[k].phase = "body"
QuietBodies(o) ==
  \A k, l \in DOMAIN o : k < l /\ Walks(o[k]) => ~o[l].any
Disjoint(o) ==
  \A k, l \in DOMAIN o : \A v \in o[k].held, w \in o[l].held :
    <<k, v>> # <<l, w>> => v \cap w = {}

\* Nothing is kept without a statement that will give it back; and a loop
\* that has nothing of its condition's, nor any statement inside it, has not
\* raised the level it began with.
KeepNothing(o) == \A k \in DOMAIN o : ~Keeps(o[k])
LevelIsKept(o, b, t) == KeepNothing(o) => t = b
LoopLevels(o, b, t) ==
  \A k \in DOMAIN o : IsWhile(o[k]) =>
    /\ b <= o[k].entry
    /\ o[k].held = {} /\ (\A l \in DOMAIN o : l > k => ~Keeps(o[l])) => t <= o[k].entry

FrameInv(o, b, t) ==
  /\ b <= t
  /\ HeldHere(o, b, t) /\ HeldFor(o) /\ OuterInBody(o) /\ QuietBodies(o) /\ Disjoint(o)
  /\ LevelIsKept(o, b, t) /\ LoopLevels(o, b, t)

\* The end of the stretch of activation i.
TopOf(i) == IF i = Len(frames) THEN pas_str_at ELSE frames[i + 1].base

\* The stretches follow one another, and those of activations that keep
\* nothing are empty.
BasesRise ==
  \A i, j \in DOMAIN frames : i <= j => frames[i].base <= frames[j].base
StretchesMeet ==
  \A i, j \in DOMAIN frames :
    i <= j /\ (\A m \in i .. j : KeepNothing(frames[m].open)) => frames[i].base = TopOf(j)

ArenaTyped ==
  /\ pas_str_at \in 0 .. ArenaSize /\ frames \in Seq(Frames) /\ frames # <<>>
  /\ overfull \in BOOLEAN
ArenaInv ==
  /\ ArenaTyped /\ BasesRise /\ StretchesMeet
  /\ \A i \in DOMAIN frames : FrameInv(frames[i].open, frames[i].base, TopOf(i))

-----------------------------------------------------------------------------
(* The statements of one activation.                                       *)

\* No statement around one that takes storage holds any.
LEMMA OuterHoldNothing ==
  ASSUME NEW o \in Seq(Statements), NEW b, NEW t, FrameInv(o, b, t), o # <<>>, o[Len(o)].any
  PROVE  \A k \in DOMAIN o : k # Len(o) => o[k].held = {}
<1> SUFFICES ASSUME NEW k \in DOMAIN o, k # Len(o), o[k].held # {} PROVE FALSE
  OBVIOUS
<1>1. k < Len(o) /\ Len(o) \in DOMAIN o
  OBVIOUS
<1>2. o[k].phase = "body"
  BY <1>1 DEF FrameInv, OuterInBody
<1>3. Walks(o[k])
  BY <1>2 DEF FrameInv, HeldFor
<1> QED BY <1>1, <1>3 DEF FrameInv, QuietBodies

\* The innermost statement goes on as s, and the level becomes t2: that of the
\* activation's entry, or the same, or one raised for what s now holds.
LEMMA InnerGoesOn ==
  ASSUME NEW o \in Seq(Statements), NEW b \in Int, NEW t \in Int, FrameInv(o, b, t), o # <<>>,
         NEW s \in Statements, NEW last, last = o[Len(o)],
         s.kind = last.kind, s.entry = last.entry, s.any = last.any, s.own = last.own,
         s.held # {} => s.own /\ (s.phase = "expr" \/ Walks(s)),
         NEW t2 \in Int, b <= t2,
         \A v \in s.held : v \subseteq b .. t2 - 1,
         \A v, w \in s.held : v # w => v \cap w = {},
         \A k \in DOMAIN o : k # Len(o) => \A v \in o[k].held, w \in s.held : v \cap w = {},
         t <= t2 \/ \A k \in DOMAIN o : k # Len(o) => o[k].held = {},
         \/ t2 = b
         \/ /\ t2 = t /\ (Keeps(last) => Keeps(s))
            /\ IsWhile(s) /\ s.held = {} => last.held = {}
         \/ Keeps(s) /\ s.held # {}
  PROVE  LET o2 == [o EXCEPT ![Len(o)] = s]
         IN o2 \in Seq(Statements) /\ FrameInv(o2, b, t2)
<1> DEFINE o2 == [o EXCEPT ![Len(o)] = s]
           n == Len(o)
<1>1. /\ o2 \in Seq(Statements) /\ DOMAIN o2 = DOMAIN o /\ Len(o2) = n /\ o2[n] = s
      /\ \A k \in DOMAIN o : k # n => o2[k] = o[k]
      /\ n \in DOMAIN o /\ \A k \in DOMAIN o : k # n => k < n
      /\ \A k \in DOMAIN o : k \in Int /\ k <= n
  OBVIOUS
<1> HIDE DEF o2, n
<1>2. HeldHere(o2, b, t2)
  <2> SUFFICES ASSUME NEW k \in DOMAIN o, NEW v \in o2[k].held PROVE v \subseteq b .. t2 - 1
    BY <1>1 DEF HeldHere
  <2>1. CASE k = n
    BY <2>1, <1>1
  <2>2. CASE k # n
    <3>1. v \in o[k].held /\ t <= t2
      BY <2>2, <1>1 DEF n
    <3>2. v \subseteq b .. t - 1
      BY <3>1 DEF FrameInv, HeldHere
    <3> QED BY <3>1, <3>2
  <2> QED BY <2>1, <2>2
<1>3. HeldFor(o2)
  <2>1. last.own => last.any
    BY <1>1 DEF FrameInv, HeldFor, n
  <2> QED BY <2>1, <1>1 DEF FrameInv, HeldFor
<1>4. OuterInBody(o2)
  BY <1>1 DEF FrameInv, OuterInBody, n
<1>5. QuietBodies(o2)
  <2> SUFFICES ASSUME NEW k \in DOMAIN o, NEW l \in DOMAIN o, k < l, Walks(o2[k]), o2[l].any
               PROVE  FALSE
    BY <1>1 DEF QuietBodies
  <2>1. k # n /\ o2[k] = o[k]
    BY <1>1
  <2>2. o[l].any
    BY <1>1 DEF n
  <2> QED BY <2>1, <2>2 DEF FrameInv, QuietBodies
<1>6. Disjoint(o2)
  <2> SUFFICES ASSUME NEW k \in DOMAIN o, NEW l \in DOMAIN o,
                      NEW v \in o2[k].held, NEW w \in o2[l].held, <<k, v>> # <<l, w>>
               PROVE  v \cap w = {}
    BY <1>1 DEF Disjoint
  <2>1. CASE k = n /\ l = n
    BY <2>1, <1>1
  <2>2. CASE k = n /\ l # n
    BY <2>2, <1>1 DEF n
  <2>3. CASE k # n /\ l = n
    BY <2>3, <1>1 DEF n
  <2>4. CASE k # n /\ l # n
    BY <2>4, <1>1 DEF FrameInv, Disjoint
  <2> QED BY <2>1, <2>2, <2>3, <2>4
<1>7. LevelIsKept(o2, b, t2)
  <2> SUFFICES ASSUME \A k \in DOMAIN o : ~Keeps(o2[k]) PROVE t2 = b
    BY <1>1 DEF LevelIsKept, KeepNothing
  <2>1. ~ Keeps(s)
    BY <1>1
  <2>2. CASE t2 = b
    BY <2>2
  <2>3. CASE t2 = t /\ (Keeps(last) => Keeps(s))
    <3>1. \A k \in DOMAIN o : ~Keeps(o[k])
      BY <2>1, <2>3, <1>1 DEF n
    <3> QED BY <3>1, <2>3 DEF FrameInv, LevelIsKept, KeepNothing
  <2> QED BY <2>1, <2>2, <2>3
<1>8. LoopLevels(o2, b, t2)
  <2> SUFFICES ASSUME NEW k \in DOMAIN o, IsWhile(o2[k])
               PROVE  /\ b <= o2[k].entry
                      /\ o2[k].held = {} /\ (\A l \in DOMAIN o : l > k => ~Keeps(o2[l])) =>
                           t2 <= o2[k].entry
    BY <1>1 DEF LoopLevels
  <2>1. IsWhile(o[k]) /\ o2[k].entry = o[k].entry
    BY <1>1 DEF IsWhile, n
  <2>2. b <= o[k].entry /\ o[k].entry \in Int
    <3>1. o[k] \in Statements
      OBVIOUS
    <3>2. b <= o[k].entry
      BY <2>1 DEF FrameInv, LoopLevels
    <3> QED BY <3>1, <3>2 DEF Statements
  <2>3. ASSUME o2[k].held = {}, \A l \in DOMAIN o : l > k => ~Keeps(o2[l])
        PROVE  t2 <= o[k].entry
    <3>1. CASE t2 = b
      BY <3>1, <2>2
    <3>2. CASE Keeps(s) /\ s.held # {}
      BY <3>2, <2>3, <1>1
    <3>3. CASE /\ t2 = t /\ (Keeps(last) => Keeps(s))
               /\ IsWhile(s) /\ s.held = {} => last.held = {}
      <4>1. o[k].held = {}
        BY <3>3, <2>3, <1>1 DEF n
      <4>2. \A l \in DOMAIN o : l > k => ~Keeps(o[l])
        BY <3>3, <2>3, <1>1 DEF n
      <4> QED BY <4>1, <4>2, <3>3, <2>1 DEF FrameInv, LoopLevels
    <3> QED BY <3>1, <3>2, <3>3
  <2> QED BY <2>1, <2>2, <2>3
<1> QED
  BY <1>1, <1>2, <1>3, <1>4, <1>5, <1>6, <1>7, <1>8 DEF FrameInv, o2

\* The statements beyond the m-th are gone, the level given back to that of
\* the activation's entry, or nothing kept by those that are gone.
LEMMA StatementsGo ==
  ASSUME NEW o \in Seq(Statements), NEW b \in Int, NEW t \in Int, FrameInv(o, b, t),
         NEW m \in 0 .. Len(o), NEW t2 \in Int,
         \/ t2 = b /\ \A k \in 1 .. m : o[k].held = {}
         \/ t2 = t /\ \A k \in DOMAIN o : k > m => ~Keeps(o[k])
  PROVE  SubSeq(o, 1, m) \in Seq(Statements) /\ FrameInv(SubSeq(o, 1, m), b, t2)
<1> DEFINE o2 == SubSeq(o, 1, m)
<1>1. /\ o2 \in Seq(Statements) /\ DOMAIN o2 = 1 .. m /\ Len(o2) = m
      /\ \A k \in 1 .. m : o2[k] = o[k] /\ k \in DOMAIN o /\ k \in Int
      /\ \A k \in DOMAIN o : k \in Int /\ k <= Len(o) /\ (k \in 1 .. m \/ k > m)
      /\ Len(o) \in Nat
  OBVIOUS
<1> HIDE DEF o2
<1>2. b <= t2
  BY DEF FrameInv
<1>3. HeldHere(o2, b, t2)
  BY <1>1 DEF FrameInv, HeldHere
<1>4. HeldFor(o2)
  BY <1>1 DEF FrameInv, HeldFor
<1>5. OuterInBody(o2)
  BY <1>1 DEF FrameInv, OuterInBody
<1>6. QuietBodies(o2)
  BY <1>1 DEF FrameInv, QuietBodies
<1>7. Disjoint(o2)
  BY <1>1 DEF FrameInv, Disjoint
<1>8. LevelIsKept(o2, b, t2)
  BY <1>1 DEF FrameInv, LevelIsKept, KeepNothing
<1>9. LoopLevels(o2, b, t2)
  <2> SUFFICES ASSUME NEW k \in 1 .. m, IsWhile(o[k])
               PROVE  /\ b <= o[k].entry
                      /\ o[k].held = {} /\ (\A l \in 1 .. m : l > k => ~Keeps(o[l])) =>
                           t2 <= o[k].entry
    BY <1>1 DEF LoopLevels
  <2>1. k \in DOMAIN o /\ b <= o[k].entry
    BY <1>1 DEF FrameInv, LoopLevels
  <2>2. ASSUME o[k].held = {}, \A l \in 1 .. m : l > k => ~Keeps(o[l]), t2 = t,
               \A l \in DOMAIN o : l > m => ~Keeps(o[l])
        PROVE  t2 <= o[k].entry
    <3>1. \A l \in DOMAIN o : l > k => ~Keeps(o[l])
      BY <2>2, <1>1
    <3> QED BY <3>1, <2>1, <2>2 DEF FrameInv, LoopLevels
  <2> QED BY <2>1, <2>2
<1> QED
  BY <1>1, <1>2, <1>3, <1>4, <1>5, <1>6, <1>7, <1>8, <1>9 DEF FrameInv, o2

\* A statement begins, inside one that executes its body.
LEMMA StatementBegins ==
  ASSUME NEW o \in Seq(Statements), NEW b \in Int, NEW t \in Int, FrameInv(o, b, t),
         o # <<>> => o[Len(o)].phase = "body",
         NEW s \in Statements, s.held = {}, s.own => s.any, IsWhile(s) => s.entry = t,
         QuietBodies(Append(o, s))
  PROVE  Append(o, s) \in Seq(Statements) /\ FrameInv(Append(o, s), b, t)
<1> DEFINE o2 == Append(o, s)
           n == Len(o)
<1>1. /\ o2 \in Seq(Statements) /\ DOMAIN o2 = 1 .. n + 1 /\ Len(o2) = n + 1 /\ o2[n + 1] = s
      /\ \A k \in DOMAIN o : o2[k] = o[k] /\ k \in DOMAIN o2 /\ k \in Int /\ k <= n
      /\ \A k \in 1 .. n + 1 : k \in DOMAIN o \/ k = n + 1
      /\ n \in Nat /\ (n # 0 => o # <<>>)
  OBVIOUS
<1> HIDE DEF o2, n
<1>2. b <= t /\ QuietBodies(o2)
  BY DEF FrameInv, o2
<1>3. HeldHere(o2, b, t)
  BY <1>1 DEF FrameInv, HeldHere
<1>4. HeldFor(o2)
  BY <1>1 DEF FrameInv, HeldFor
<1>5. OuterInBody(o2)
  BY <1>1 DEF FrameInv, OuterInBody, n
<1>6. Disjoint(o2)
  BY <1>1 DEF FrameInv, Disjoint
<1>7. LevelIsKept(o2, b, t)
  BY <1>1 DEF FrameInv, LevelIsKept, KeepNothing
<1>8. LoopLevels(o2, b, t)
  <2> SUFFICES ASSUME NEW k \in 1 .. n + 1, IsWhile(o2[k])
               PROVE  /\ b <= o2[k].entry
                      /\ o2[k].held = {} /\ (\A l \in 1 .. n + 1 : l > k => ~Keeps(o2[l])) =>
                           t <= o2[k].entry
    BY <1>1 DEF LoopLevels
  <2>1. CASE k = n + 1
    BY <2>1, <1>1, <1>2
  <2>2. CASE k \in DOMAIN o
    <3>1. IsWhile(o[k]) /\ o2[k] = o[k]
      BY <2>2, <1>1
    <3>2. ASSUME \A l \in 1 .. n + 1 : l > k => ~Keeps(o2[l])
          PROVE  \A l \in DOMAIN o : l > k => ~Keeps(o[l])
      BY <3>2, <1>1
    <3> QED BY <3>1, <3>2, <2>2 DEF FrameInv, LoopLevels
  <2> QED BY <2>1, <2>2, <1>1
<1> QED
  BY <1>1, <1>2, <1>3, <1>4, <1>5, <1>6, <1>7, <1>8 DEF FrameInv, o2
-----------------------------------------------------------------------------
(* The activations.                                                        *)

\* The activations beyond the m-th are gone, and of the m-th the statements
\* and the level have changed.
LEMMA FramesStep ==
  ASSUME ArenaInv, NEW m \in DOMAIN frames,
         frames' \in Seq(Frames), Len(frames') = m,
         \A i \in 1 .. m - 1 : frames'[i] = frames[i],
         frames'[m].base = frames[m].base,
         pas_str_at' \in 0 .. ArenaSize, overfull' \in BOOLEAN,
         FrameInv(frames'[m].open, frames[m].base, pas_str_at')
  PROVE  ArenaInv'
<1> USE PasArenaAssumption
<1>1. /\ DOMAIN frames' = 1 .. m /\ m \in Nat \ {0} /\ frames' # <<>>
      /\ DOMAIN frames = 1 .. Len(frames) /\ Len(frames) \in Nat /\ m <= Len(frames)
      /\ \A i \in 1 .. m : i \in DOMAIN frames /\ frames'[i].base = frames[i].base
  BY DEF ArenaInv, ArenaTyped
<1>2. /\ TopOf(m)' = pas_str_at'
      /\ \A i \in 1 .. m - 1 : TopOf(i)' = TopOf(i) /\ TopOf(i) = frames[i + 1].base
  <2>1. TopOf(m)' = pas_str_at'
    BY DEF TopOf
  <2>2. ASSUME NEW i \in 1 .. m - 1
        PROVE  TopOf(i)' = TopOf(i) /\ TopOf(i) = frames[i + 1].base
    <3>1. m \in Nat /\ Len(frames) \in Nat /\ m <= Len(frames)
      BY <1>1
    <3>2. i + 1 \in 1 .. m /\ i # m /\ i # Len(frames)
      BY <3>1
    <3>3. frames'[i + 1].base = frames[i + 1].base
      BY <3>2, <1>1
    <3> QED BY <3>2, <3>3 DEF TopOf
  <2> QED BY <2>1, <2>2
<1>3. BasesRise'
  BY <1>1 DEF ArenaInv, BasesRise
<1>4. StretchesMeet'
  <2> SUFFICES ASSUME NEW i \in 1 .. m, NEW j \in 1 .. m, i <= j,
                      \A l \in i .. j : KeepNothing(frames'[l].open)
               PROVE  frames'[i].base = TopOf(j)'
    BY <1>1 DEF StretchesMeet, KeepNothing, Keeps
  <2>1. ASSUME NEW h \in 1 .. m - 1, i <= h, h <= j PROVE frames[i].base = TopOf(h)
    <3>1. \A l \in i .. h : KeepNothing(frames[l].open)
      BY <2>1, <1>1
    <3>2. i \in DOMAIN frames /\ h \in DOMAIN frames
      BY <1>1
    <3> QED BY <3>1, <3>2, <2>1 DEF ArenaInv, StretchesMeet
  <2>2. CASE j < m
    BY <2>1, <2>2, <1>1, <1>2
  <2>3. CASE j = m
    <3>1. pas_str_at' = frames[m].base
      BY <2>3 DEF FrameInv, LevelIsKept
    <3>2. CASE i = m
      BY <3>1, <3>2, <2>3, <1>1, <1>2
    <3>3. CASE i < m
      <4>1. frames[i].base = TopOf(m - 1)
        BY <3>3, <2>1, <2>3, <1>1
      <4> QED BY <4>1, <3>1, <3>3, <2>3, <1>1, <1>2
    <3> QED BY <3>2, <3>3, <1>1
  <2> QED BY <2>2, <2>3, <1>1
<1>5. ASSUME NEW i \in 1 .. m PROVE FrameInv(frames'[i].open, frames'[i].base, TopOf(i)')
  BY <1>1, <1>2 DEF ArenaInv
<1> QED BY <1>1, <1>3, <1>4, <1>5 DEF ArenaInv, ArenaTyped, FrameInv, HeldHere, HeldFor,
           OuterInBody, QuietBodies, Disjoint, LevelIsKept, KeepNothing, LoopLevels, Keeps,
           Walks, IsWhile
\* The innermost activation, whose stretch ends at the present level.
LEMMA TopFrame ==
  ASSUME ArenaInv
  PROVE  /\ Len(frames) \in DOMAIN frames /\ Frame = frames[Len(frames)]
         /\ Frame.open \in Seq(Statements) /\ Frame.base \in Nat
         /\ pas_str_at \in Nat /\ pas_str_at <= ArenaSize /\ Frame.base <= pas_str_at
         /\ FrameInv(Frame.open, Frame.base, pas_str_at)
<1>1. Len(frames) \in DOMAIN frames /\ Frame = frames[Len(frames)]
  BY DEF ArenaInv, ArenaTyped, Frame, Last
<1>2. Frame \in Frames
  BY <1>1 DEF ArenaInv, ArenaTyped
<1>3. pas_str_at \in Nat /\ pas_str_at <= ArenaSize
  BY PasArenaAssumption DEF ArenaInv, ArenaTyped
<1>4. FrameInv(Frame.open, Frame.base, pas_str_at)
  BY <1>1 DEF ArenaInv, TopOf
<1> QED BY <1>1, <1>2, <1>3, <1>4 DEF Frames, FrameInv

\* Its statements become o2.
LEMMA TopStep ==
  ASSUME ArenaInv, NEW o2 \in Seq(Statements), frames' = WithOpen(o2),
         pas_str_at' \in 0 .. ArenaSize, overfull' \in BOOLEAN,
         FrameInv(o2, Frame.base, pas_str_at')
  PROVE  ArenaInv'
<1> DEFINE n == Len(frames)
<1>1. /\ frames \in Seq(Frames) /\ n \in DOMAIN frames /\ frames[n] \in Frames
      /\ Frame.base = frames[n].base
  BY TopFrame DEF ArenaInv, ArenaTyped
<1>2. [frames[n] EXCEPT !.open = o2] \in Frames
  BY <1>1 DEF Frames
<1>3. frames' = [frames EXCEPT ![n] = [frames[n] EXCEPT !.open = o2]]
  BY DEF WithOpen
<1>4. /\ frames' \in Seq(Frames) /\ Len(frames') = n
      /\ \A i \in 1 .. n - 1 : frames'[i] = frames[i]
      /\ frames'[n] = [frames[n] EXCEPT !.open = o2]
  BY <1>1, <1>2, <1>3
<1>5. frames'[n].base = frames[n].base /\ frames'[n].open = o2
  BY <1>1, <1>4 DEF Frames
<1> HIDE DEF n
<1> QED BY <1>1, <1>4, <1>5, FramesStep

LEMMA SameFrames ==
  ASSUME ArenaInv, UNCHANGED <<pas_str_at, frames>>, overfull' \in BOOLEAN
  PROVE  ArenaInv'
<1> DEFINE n == Len(frames)
<1>1. n \in DOMAIN frames /\ FrameInv(frames[n].open, frames[n].base, pas_str_at)
  BY TopFrame
<1>2. /\ frames' \in Seq(Frames) /\ Len(frames') = n /\ pas_str_at' \in 0 .. ArenaSize
      /\ \A i \in 1 .. n - 1 : frames'[i] = frames[i]
      /\ frames'[n] = frames[n]
  BY DEF ArenaInv, ArenaTyped
<1>3. FrameInv(frames'[n].open, frames[n].base, pas_str_at')
  BY <1>1
<1> HIDE DEF n
<1> QED BY <1>1, <1>2, <1>3, FramesStep

\* Its innermost statement, and what that one holds.
LEMMA InnerFacts ==
  ASSUME ArenaInv, Frame.open # <<>>
  PROVE  /\ Inner \in Statements /\ Inner = Frame.open[Len(Frame.open)]
         /\ Len(Frame.open) \in DOMAIN Frame.open
         /\ \A v \in Inner.held : v \subseteq Frame.base .. pas_str_at - 1
         /\ \A v, w \in Inner.held : v # w => v \cap w = {}
         /\ \A k \in DOMAIN Frame.open : k # Len(Frame.open) =>
              \A v \in Frame.open[k].held, w \in Inner.held : v \cap w = {}
         /\ Inner.own => Inner.any
         /\ Inner.held # {} => Inner.own /\ (Inner.phase = "expr" \/ Walks(Inner))
<1> DEFINE o == Frame.open
           n == Len(o)
<1>1. o \in Seq(Statements) /\ FrameInv(o, Frame.base, pas_str_at)
  BY TopFrame
<1>2. Inner = o[n]
  BY DEF Inner, Last
<1>3. n \in DOMAIN o /\ o[n] \in Statements
  BY <1>1
<1> HIDE DEF o, n
<1>4. \A v \in o[n].held : v \subseteq Frame.base .. pas_str_at - 1
  BY <1>1, <1>3 DEF FrameInv, HeldHere
<1>5. \A v, w \in o[n].held : v # w => v \cap w = {}
  BY <1>1, <1>3 DEF FrameInv, Disjoint
<1>6. \A k \in DOMAIN o : k # n => \A v \in o[k].held, w \in o[n].held : v \cap w = {}
  BY <1>1, <1>3 DEF FrameInv, Disjoint
<1>7. /\ o[n].own => o[n].any
      /\ o[n].held # {} => o[n].own /\ (o[n].phase = "expr" \/ Walks(o[n]))
  BY <1>1, <1>3 DEF FrameInv, HeldFor
<1> QED BY <1>2, <1>3, <1>4, <1>5, <1>6, <1>7 DEF o, n

\* It goes on as s, with no more than it held; the level is given back, or
\* stays and s gives back what it still keeps.
LEMMA InnerStep ==
  ASSUME ArenaInv, Frame.open # <<>>, NEW s \in Statements,
         s.kind = Inner.kind, s.entry = Inner.entry, s.any = Inner.any, s.own = Inner.own,
         s.held \subseteq Inner.held,
         s.held # {} => s.own /\ (s.phase = "expr" \/ Walks(s)),
         frames' = WithInner(s), overfull' = overfull,
         \/ pas_str_at' = Frame.base /\ s.held = {} /\ Inner.own
         \/ /\ pas_str_at' = pas_str_at /\ (Keeps(Inner) => Keeps(s))
            /\ IsWhile(s) /\ s.held = {} => Inner.held = {}
  PROVE  ArenaInv'
<1> DEFINE o == Frame.open
           b == Frame.base
           t == pas_str_at
           t2 == pas_str_at'
<1>1. o \in Seq(Statements) /\ b \in Int /\ t \in Int /\ FrameInv(o, b, t) /\ o # <<>>
  BY TopFrame
<1>2. t2 \in Int /\ t2 \in 0 .. ArenaSize /\ b <= t2 /\ overfull' \in BOOLEAN
  BY TopFrame, PasArenaAssumption DEF ArenaInv, ArenaTyped
<1>3. /\ \A v \in s.held : v \subseteq b .. t2 - 1
      /\ \A v, w \in s.held : v # w => v \cap w = {}
      /\ \A k \in DOMAIN o : k # Len(o) => \A v \in o[k].held, w \in s.held : v \cap w = {}
  BY InnerFacts
<1>4. t <= t2 \/ \A k \in DOMAIN o : k # Len(o) => o[k].held = {}
  <2>1. CASE t2 = t
    BY <2>1, <1>1
  <2>2. CASE Inner.own
    <3>1. o[Len(o)].any
      BY <2>2, InnerFacts
    <3> QED BY <3>1, <1>1, OuterHoldNothing
  <2> QED BY <2>1, <2>2
<1>5. \/ t2 = b
      \/ /\ t2 = t /\ (Keeps(Inner) => Keeps(s))
         /\ IsWhile(s) /\ s.held = {} => Inner.held = {}
      \/ Keeps(s) /\ s.held # {}
  OBVIOUS
<1>6. Inner = o[Len(o)] /\ WithInner(s) = WithOpen([o EXCEPT ![Len(o)] = s])
  BY InnerFacts DEF WithInner
<1> HIDE DEF o, b, t, t2
<1>7. [o EXCEPT ![Len(o)] = s] \in Seq(Statements) /\ FrameInv([o EXCEPT ![Len(o)] = s], b, t2)
  BY <1>1, <1>2, <1>3, <1>4, <1>5, <1>6, InnerGoesOn
<1> QED BY <1>2, <1>6, <1>7, TopStep DEF b, t2
-----------------------------------------------------------------------------
(* The steps.                                                              *)

\* A value that is lent lies past all that the activation has.
LEMMA TempStep ==
  ASSUME ArenaInv, NEW n \in Sizes, pas_str_temp(n)
  PROVE  ArenaInv'
<1>1. CASE UNCHANGED <<pas_str_at, frames>>
  <2>1. overfull' \in BOOLEAN
    BY DEF pas_str_temp, ArenaInv, ArenaTyped
  <2> QED BY <1>1, <2>1, SameFrames
<1>2. CASE pas_str_at + n <= ArenaSize
  <2> DEFINE o == Frame.open
             b == Frame.base
             t == pas_str_at
             t2 == t + n
             v2 == t .. t + n - 1
             s == [Inner EXCEPT !.held = @ \cup {v2}]
  <2>1. /\ Inner.own /\ Inner.phase = "expr" /\ o # <<>> /\ n \in Nat
        /\ overfull' = overfull
    BY <1>2, PasArenaAssumption, TopFrame DEF pas_str_temp, Evaluating
  <2>2. o \in Seq(Statements) /\ b \in Int /\ t \in Int /\ FrameInv(o, b, t) /\ b <= t
    BY TopFrame
  <2>3. pas_str_at' = t2 /\ frames' = WithInner(s)
    BY <1>2, <2>1, PasArenaAssumption, TopFrame DEF pas_str_temp
  <2>4. /\ t2 \in Int /\ pas_str_at' \in 0 .. ArenaSize /\ b <= t2 /\ t <= t2
        /\ overfull' \in BOOLEAN
    BY <1>2, <2>1, <2>2, <2>3, TopFrame, PasArenaAssumption DEF ArenaInv, ArenaTyped
  <2>5. /\ Inner \in Statements /\ Inner = o[Len(o)]
        /\ \A v \in Inner.held : v \subseteq b .. t - 1
        /\ \A v, w \in Inner.held : v # w => v \cap w = {}
        /\ \A k \in DOMAIN o : k # Len(o) =>
             \A v \in o[k].held, w \in Inner.held : v \cap w = {}
    BY <2>1, InnerFacts
  <2>6. /\ s \in Statements /\ s.kind = Inner.kind /\ s.entry = Inner.entry
        /\ s.any = Inner.any /\ s.own = Inner.own /\ s.phase = "expr"
        /\ s.held = Inner.held \cup {v2}
    <3>1. v2 \subseteq Int
      BY <2>2, <2>4
    <3>2. Inner.held \cup {v2} \in SUBSET SUBSET Int
      BY <3>1, <2>5 DEF Statements
    <3> HIDE DEF v2
    <3> QED BY <3>2, <2>1, <2>5 DEF Statements
  <2>7. WithInner(s) = WithOpen([o EXCEPT ![Len(o)] = s])
    BY DEF WithInner
  <2>8. /\ v2 \subseteq b .. t2 - 1
        /\ \A v : v \subseteq b .. t - 1 => v \cap v2 = {} /\ v2 \cap v = {}
        /\ \A v : v \subseteq b .. t - 1 => v \subseteq b .. t2 - 1
    BY <2>1, <2>2
  <2> HIDE DEF o, b, t, t2, v2, s
  <2>9. ASSUME NEW v \in s.held PROVE v \subseteq b .. t2 - 1
    <3>1. CASE v = v2
      BY <3>1, <2>8
    <3>2. CASE v \in Inner.held
      <4>1. v \subseteq b .. t - 1
        BY <3>2, <2>5
      <4> QED BY <4>1, <2>8
    <3> QED BY <3>1, <3>2, <2>6
  <2>10. ASSUME NEW v \in s.held, NEW w \in s.held, v # w PROVE v \cap w = {}
    <3>1. CASE v = v2
      BY <3>1, <2>10, <2>5, <2>6, <2>8
    <3>2. CASE w = v2
      BY <3>2, <2>10, <2>5, <2>6, <2>8
    <3>3. CASE v \in Inner.held /\ w \in Inner.held
      BY <3>3, <2>10, <2>5
    <3> QED BY <3>1, <3>2, <3>3, <2>6
  <2>11. \A k \in DOMAIN o : k # Len(o) => \A v \in o[k].held, w \in s.held : v \cap w = {}
    <3>1. \A k \in DOMAIN o : \A v \in o[k].held : v \subseteq b .. t - 1
      BY <2>2 DEF FrameInv, HeldHere
    <3> QED BY <3>1, <2>5, <2>6, <2>8
  <2>12. s.held # {} /\ s.own /\ Keeps(s)
    BY <2>1, <2>6 DEF Keeps
  <2>13. /\ [o EXCEPT ![Len(o)] = s] \in Seq(Statements)
         /\ FrameInv([o EXCEPT ![Len(o)] = s], b, t2)
    BY <2>1, <2>2, <2>4, <2>5, <2>6, <2>9, <2>10, <2>11, <2>12, InnerGoesOn
  <2> QED BY <2>3, <2>4, <2>7, <2>13, TopStep DEF b
<1> QED BY <1>1, <1>2, PasArenaAssumption, TopFrame DEF pas_str_temp

LEMMA BranchStep ==
  ASSUME ArenaInv, Branch
  PROVE  ArenaInv'
<1> DEFINE s == [Inner EXCEPT !.held = {}, !.phase = "body"]
<1>1. /\ Frame.open # <<>> /\ Inner.kind = "if" /\ frames' = WithInner(s)
      /\ overfull' = overfull /\ pas_str_at' = pas_str_at
  BY DEF Branch, Evaluating
<1>2. /\ s \in Statements /\ s.kind = Inner.kind /\ s.entry = Inner.entry
      /\ s.any = Inner.any /\ s.own = Inner.own /\ s.held = {}
  BY <1>1, InnerFacts DEF Statements, Phases
<1>3. (Keeps(Inner) => Keeps(s)) /\ ~IsWhile(s)
  BY <1>1, <1>2 DEF Keeps, IsWhile
<1> HIDE DEF s
<1> QED BY <1>1, <1>2, <1>3, InnerStep

\* A condition that took storage gives it back; another held none.
LEMMA ConditionStep ==
  ASSUME ArenaInv, NEW leaves \in BOOLEAN, Condition(leaves)
  PROVE  ArenaInv'
<1> DEFINE s == [Inner EXCEPT !.held = {}, !.phase = IF leaves THEN "end" ELSE "body"]
<1>1. Frame.open # <<>> /\ frames' = WithInner(s) /\ overfull' = overfull
  BY DEF Condition, Evaluating
<1>2. /\ s \in Statements /\ s.kind = Inner.kind /\ s.entry = Inner.entry
      /\ s.any = Inner.any /\ s.own = Inner.own /\ s.held = {}
  BY <1>1, InnerFacts DEF Statements, Phases
<1> HIDE DEF s
<1>3. CASE Inner.own
  <2>1. pas_str_at' = Frame.base
    BY <1>3 DEF Condition, ReleaseStrTemps
  <2> QED BY <1>1, <1>2, <1>3, <2>1, InnerStep
<1>4. CASE ~Inner.own
  <2>1. pas_str_at' = pas_str_at
    BY <1>4 DEF Condition
  <2>2. Inner.held = {} /\ ~Keeps(Inner)
    BY <1>1, <1>4, InnerFacts DEF Keeps
  <2> QED BY <1>1, <1>2, <2>1, <2>2, InnerStep
<1> QED BY <1>3, <1>4

LEMMA AgainStep ==
  ASSUME ArenaInv, Again
  PROVE  ArenaInv'
<1> DEFINE s == [Inner EXCEPT !.phase = "expr"]
<1>1. /\ Frame.open # <<>> /\ Inner.kind \in {"while", "repeat"} /\ Inner.phase = "body"
      /\ frames' = WithInner(s) /\ overfull' = overfull /\ pas_str_at' = pas_str_at
  BY DEF Again, MayBegin
<1>2. /\ s \in Statements /\ s.kind = Inner.kind /\ s.entry = Inner.entry
      /\ s.any = Inner.any /\ s.own = Inner.own /\ s.held = Inner.held
  BY <1>1, InnerFacts DEF Statements, Phases
<1>3. Inner.held = {} /\ ~Keeps(Inner)
  BY <1>1, InnerFacts DEF Keeps, Walks
<1> HIDE DEF s
<1> QED BY <1>1, <1>2, <1>3, InnerStep

LEMMA WalkStep ==
  ASSUME ArenaInv, Walk
  PROVE  ArenaInv'
<1> DEFINE s == [Inner EXCEPT !.phase = "body"]
<1>1. /\ Frame.open # <<>> /\ Inner.kind = "forin"
      /\ frames' = WithInner(s) /\ overfull' = overfull /\ pas_str_at' = pas_str_at
  BY DEF Walk, Evaluating
<1>2. /\ s \in Statements /\ s.kind = Inner.kind /\ s.entry = Inner.entry
      /\ s.any = Inner.any /\ s.own = Inner.own /\ s.held = Inner.held /\ s.phase = "body"
  BY <1>1, InnerFacts DEF Statements, Phases
<1>3. s.held # {} => s.own /\ Walks(s)
  BY <1>1, <1>2, InnerFacts DEF Walks
<1>4. Keeps(Inner) => Keeps(s)
  BY <1>1, <1>2 DEF Keeps
<1> HIDE DEF s
<1> QED BY <1>1, <1>2, <1>3, <1>4, InnerStep
\* The open statements of activations f, by their places.
OpenOf(f) == UNION {{<<i, k>> : k \in DOMAIN f[i].open} : i \in DOMAIN f}

LEMMA Places ==
  ASSUME NEW f
  PROVE  /\ \A i \in DOMAIN f : \A k \in DOMAIN f[i].open : <<i, k>> \in OpenOf(f)
         /\ \A p \in OpenOf(f) : \E i \in DOMAIN f : \E k \in DOMAIN f[i].open : p = <<i, k>>
         /\ \A i, k : <<i, k>> \in OpenOf(f) => i \in DOMAIN f /\ k \in DOMAIN f[i].open
<1>1. ASSUME NEW i \in DOMAIN f, NEW k \in DOMAIN f[i].open PROVE <<i, k>> \in OpenOf(f)
  <2> DEFINE At1(j) == {<<j, l>> : l \in DOMAIN f[j].open}
  <2>1. <<i, k>> \in At1(i)
    OBVIOUS
  <2>2. At1(i) \in {At1(j) : j \in DOMAIN f}
    OBVIOUS
  <2> QED BY <2>1, <2>2 DEF OpenOf
<1>2. \A p \in OpenOf(f) : \E i \in DOMAIN f : \E k \in DOMAIN f[i].open : p = <<i, k>>
  BY Zenon DEF OpenOf
<1>3. \A i, k : <<i, k>> \in OpenOf(f) => i \in DOMAIN f /\ k \in DOMAIN f[i].open
  BY <1>2
<1> QED BY <1>1, <1>2, <1>3

LEMMA OpenPlaces ==
  ASSUME NEW p \in Open
  PROVE  \E i \in DOMAIN frames : \E k \in DOMAIN frames[i].open : p = <<i, k>>
<1>1. Open = OpenOf(frames)
  BY DEF Open, OpenOf
<1> QED BY <1>1, Places

\* A statement that would give storage back is not left early.
LEMMA NoneAbandoned ==
  ASSUME AbandonsNone, NEW i \in DOMAIN frames, NEW k \in DOMAIN frames[i].open,
         i \in DOMAIN frames' => k \notin DOMAIN frames'[i].open
  PROVE  ~Keeps(frames[i].open[k])
<1>1. Open = OpenOf(frames) /\ Open' = OpenOf(frames')
  BY DEF Open, OpenOf
<1>2. <<i, k>> \in Open /\ <<i, k>> \notin Open'
  BY <1>1, Places
<1>3. At(<<i, k>>) = frames[i].open[k]
  BY DEF At
<1> QED BY <1>2, <1>3 DEF AbandonsNone

\* No body of a walk takes storage, after a careful step.
LEMMA BodiesAreQuiet ==
  ASSUME BodiesTakeNothing', NEW i \in DOMAIN frames', frames' \in Seq(Frames)
  PROVE  QuietBodies(frames'[i].open)
<1> DEFINE o == frames'[i].open
<1> SUFFICES ASSUME NEW k \in DOMAIN o, NEW l \in DOMAIN o, k < l, Walks(o[k])
             PROVE  ~o[l].any
  BY DEF QuietBodies
<1>1. Open' = OpenOf(frames')
  BY DEF Open, OpenOf
<1>2. <<i, k>> \in Open' /\ <<i, l>> \in Open'
  BY <1>1, Places
<1>3. At(<<i, k>>)' = o[k] /\ At(<<i, l>>)' = o[l]
  BY DEF At
<1>4. <<i, k>> \in Walked'
  BY <1>2, <1>3 DEF Walked, Walks
<1>5. <<i, l>>[1] = <<i, k>>[1] /\ <<i, l>>[2] > <<i, k>>[2]
  <2>1. frames'[i] \in Frames
    OBVIOUS
  <2>2. o \in Seq(Statements)
    BY <2>1 DEF Frames
  <2>3. k \in Int /\ l \in Int
    BY <2>2
  <2> QED BY <2>3
<1>6. ~At(<<i, l>>)'.any
  BY <1>2, <1>4, <1>5 DEF BodiesTakeNothing
<1> QED BY <1>3, <1>6

\* What a statement and those inside it took is given back; and a statement
\* that takes nothing leaves the level to those around it.
LEMMA EndStep ==
  ASSUME ArenaInv, End
  PROVE  ArenaInv'
<1> DEFINE o == Frame.open
           b == Frame.base
           t == pas_str_at
           t2 == pas_str_at'
           m == Len(o) - 1
<1>1. o \in Seq(Statements) /\ b \in Int /\ t \in Int /\ FrameInv(o, b, t) /\ o # <<>>
  BY TopFrame DEF End
<1>2. /\ t2 \in Int /\ t2 \in 0 .. ArenaSize /\ overfull' \in BOOLEAN
      /\ t2 = IF Inner.any THEN b ELSE t
  BY TopFrame, PasArenaAssumption DEF End, ReleaseStrTemps, ArenaInv, ArenaTyped
<1>3. m \in 0 .. Len(o) /\ frames' = WithOpen(SubSeq(o, 1, m))
  BY <1>1 DEF End, Front
<1>4. \/ t2 = b /\ \A k \in 1 .. m : o[k].held = {}
      \/ t2 = t /\ \A k \in DOMAIN o : k > m => ~Keeps(o[k])
  <2>1. CASE Inner.any
    <3>1. \A k \in DOMAIN o : k # Len(o) => o[k].held = {}
      BY <2>1, <1>1, InnerFacts, OuterHoldNothing
    <3> QED BY <3>1, <2>1, <1>1, <1>2
  <2>2. CASE ~Inner.any
    <3>1. ~Keeps(o[Len(o)])
      BY <2>2, <1>1, InnerFacts DEF Keeps
    <3>2. \A k \in DOMAIN o : k > m => k = Len(o)
      BY <1>1
    <3> QED BY <3>1, <3>2, <2>2, <1>2
  <2> QED BY <2>1, <2>2
<1> HIDE DEF o, b, t, t2, m
<1>5. SubSeq(o, 1, m) \in Seq(Statements) /\ FrameInv(SubSeq(o, 1, m), b, t2)
  BY <1>1, <1>2, <1>3, <1>4, StatementsGo
<1> QED BY <1>2, <1>3, <1>5, TopStep DEF b, t2

LEMMA BeginStep ==
  ASSUME ArenaInv, NEW kind \in Kinds, NEW own \in BOOLEAN, NEW any \in BOOLEAN,
         Begin(kind, own, any), BodiesTakeNothing'
  PROVE  ArenaInv'
<1> DEFINE o == Frame.open
           b == Frame.base
           t == pas_str_at
           s == Statement(kind, own, any)
           n == Len(frames)
<1>1. o \in Seq(Statements) /\ b \in Int /\ t \in Int /\ t \in Nat /\ FrameInv(o, b, t)
  BY TopFrame
<1>2. /\ frames' = WithOpen(Append(o, s)) /\ (own => any) /\ pas_str_at' = t
      /\ overfull' = overfull
      /\ o # <<>> => o[Len(o)].phase = "body"
  BY DEF Begin, MayBegin, Inner, Last
<1>3. s \in Statements /\ s.held = {} /\ (s.own => s.any) /\ (IsWhile(s) => s.entry = t)
  <2>1. (IF kind \in {"while", "repeat"} THEN pas_str_at ELSE 0) \in Nat
    BY <1>1
  <2> QED BY <1>2, <2>1 DEF Statement, Statements, Phases, IsWhile
<1> HIDE DEF s
<1>4. Append(o, s) \in Seq(Statements)
  BY <1>1, <1>3
<1>5. frames' \in Seq(Frames) /\ n \in DOMAIN frames' /\ frames'[n].open = Append(o, s)
  <2>1. frames \in Seq(Frames) /\ n \in DOMAIN frames /\ frames[n] \in Frames
    BY TopFrame DEF ArenaInv, ArenaTyped
  <2> HIDE DEF o
  <2>2. [frames[n] EXCEPT !.open = Append(o, s)] \in Frames
    BY <1>4, <2>1 DEF Frames
  <2>3. frames' = [frames EXCEPT ![n] = [frames[n] EXCEPT !.open = Append(o, s)]]
    BY <1>2 DEF WithOpen
  <2>4. frames'[n] = [frames[n] EXCEPT !.open = Append(o, s)]
    BY <2>1, <2>2, <2>3
  <2>5. frames'[n].open = Append(o, s)
    BY <2>1, <2>4 DEF Frames
  <2>6. frames' \in Seq(Frames) /\ DOMAIN frames' = DOMAIN frames
    BY <2>1, <2>2, <2>3
  <2> QED BY <2>1, <2>5, <2>6
<1>6. QuietBodies(Append(o, s))
  BY <1>5, BodiesAreQuiet
<1> HIDE DEF o, b, t, n
<1>7. FrameInv(Append(o, s), b, t)
  BY <1>1, <1>2, <1>3, <1>6, StatementBegins
<1>8. pas_str_at' \in 0 .. ArenaSize /\ overfull' \in BOOLEAN
  BY <1>2 DEF ArenaInv, ArenaTyped, t
<1> QED BY <1>2, <1>4, <1>7, <1>8, TopStep DEF b
\* A call's stretch begins, empty, where its caller's ends.
LEMMA CallStep ==
  ASSUME ArenaInv, Call
  PROVE  ArenaInv'
<1> SUFFICES ASSUME NEW n, n = Len(frames) PROVE ArenaInv'
  OBVIOUS
<1> DEFINE f == [base |-> pas_str_at, open |-> <<>>]
<1>1. /\ frames \in Seq(Frames) /\ n \in Nat \ {0} /\ DOMAIN frames = 1 .. n
      /\ pas_str_at \in Nat /\ pas_str_at' = pas_str_at /\ overfull' = overfull
      /\ frames' = Append(frames, f)
  BY TopFrame DEF ArenaInv, ArenaTyped, Call
<1>2. f \in Frames /\ f.base = pas_str_at /\ f.open = <<>>
  <2>1. <<>> \in Seq(Statements)
    OBVIOUS
  <2> QED BY <1>1, <2>1 DEF Frames
<1> HIDE DEF f
<1>3. /\ frames' \in Seq(Frames) /\ frames' # <<>> /\ Len(frames') = n + 1
      /\ DOMAIN frames' = 1 .. n + 1
      /\ \A i \in 1 .. n : frames'[i] = frames[i]
      /\ frames'[n + 1] = f
  BY <1>1, <1>2
<1>4. n \in Nat /\ n >= 1
  BY <1>1
<1>5. /\ TopOf(n + 1)' = pas_str_at /\ TopOf(n)' = pas_str_at /\ TopOf(n) = pas_str_at
      /\ \A i \in 1 .. n : TopOf(i)' = TopOf(i)
  <2>1. TopOf(n + 1)' = pas_str_at /\ TopOf(n)' = pas_str_at /\ TopOf(n) = pas_str_at
    BY <1>1, <1>2, <1>3, <1>4 DEF TopOf
  <2>2. ASSUME NEW i \in 1 .. n, i # n PROVE TopOf(i)' = TopOf(i)
    <3>1. i + 1 \in 1 .. n /\ i # n + 1
      BY <2>2, <1>4
    <3>2. frames'[i + 1] = frames[i + 1]
      BY <3>1, <1>3
    <3> QED BY <3>1, <3>2, <2>2, <1>3 DEF TopOf
  <2> QED BY <2>1, <2>2
<1>6. \A i \in 1 .. n + 1 : i \in 1 .. n \/ i = n + 1
  BY <1>4
<1>7. BasesRise'
  <2> SUFFICES ASSUME NEW i \in 1 .. n + 1, NEW j \in 1 .. n + 1, i <= j
               PROVE  frames'[i].base <= frames'[j].base
    BY <1>3 DEF BasesRise
  <2>1. CASE j = n + 1 /\ i \in 1 .. n
    <3>1. /\ i \in DOMAIN frames /\ n \in DOMAIN frames /\ i <= n
          /\ frames[i] \in Frames /\ frames[n] \in Frames
      BY <2>1, <1>1, <1>4
    <3>2. frames[i].base <= frames[n].base
      BY <3>1 DEF ArenaInv, BasesRise
    <3>3. frames[n].base <= pas_str_at
      BY TopFrame
    <3>4. frames[i].base \in Nat /\ frames[n].base \in Nat
      BY <3>1 DEF Frames
    <3>5. frames[i].base <= pas_str_at
      BY <3>2, <3>3, <3>4, <1>1
    <3> QED BY <3>5, <2>1, <1>2, <1>3
  <2>2. CASE i = n + 1 /\ j = n + 1
    BY <2>2, <1>1, <1>2, <1>3
  <2>3. CASE i \in 1 .. n /\ j \in 1 .. n
    BY <2>3, <1>1, <1>3 DEF ArenaInv, BasesRise
  <2>4. ~(i = n + 1 /\ j \in 1 .. n)
    BY <1>4
  <2> QED BY <2>1, <2>2, <2>3, <2>4, <1>6
<1>8. StretchesMeet'
  <2> SUFFICES ASSUME NEW i \in 1 .. n + 1, NEW j \in 1 .. n + 1, i <= j,
                      \A l \in i .. j : KeepNothing(frames'[l].open)
               PROVE  frames'[i].base = TopOf(j)'
    BY <1>3 DEF StretchesMeet, KeepNothing, Keeps
  <2>1. ASSUME NEW h \in 1 .. n, i <= h, h <= j PROVE frames'[i].base = TopOf(h)'
    <3>1. i \in DOMAIN frames /\ h \in DOMAIN frames /\ i \in 1 .. n
      BY <2>1, <1>1, <1>4
    <3>2. \A l \in i .. h : l \in i .. j /\ l \in 1 .. n
      BY <2>1, <1>4
    <3>3. \A l \in i .. h : KeepNothing(frames[l].open)
      BY <3>2, <1>3
    <3>4. frames[i].base = TopOf(h)
      BY <3>1, <3>3, <2>1 DEF ArenaInv, StretchesMeet
    <3> QED BY <3>1, <3>4, <1>3, <1>5
  <2>2. CASE j \in 1 .. n
    BY <2>1, <2>2
  <2>3. CASE j = n + 1 /\ i = n + 1
    BY <2>3, <1>2, <1>3, <1>5
  <2>4. CASE j = n + 1 /\ i \in 1 .. n
    <3>1. frames'[i].base = TopOf(n)'
      BY <2>1, <2>4, <1>4
    <3> QED BY <3>1, <2>4, <1>5
  <2> QED BY <2>2, <2>3, <2>4, <1>6
<1>9. ASSUME NEW i \in 1 .. n + 1 PROVE FrameInv(frames'[i].open, frames'[i].base, TopOf(i)')
  <2>1. CASE i \in 1 .. n
    BY <2>1, <1>1, <1>3, <1>5 DEF ArenaInv
  <2>2. CASE i = n + 1
    <3>1. DOMAIN <<>> = {}
      OBVIOUS
    <3>2. FrameInv(<<>>, pas_str_at, pas_str_at)
      BY <3>1, <1>1 DEF FrameInv, HeldHere, HeldFor, OuterInBody, QuietBodies, Disjoint,
            LevelIsKept, LoopLevels
    <3> QED BY <3>2, <2>2, <1>2, <1>3, <1>5
  <2> QED BY <2>1, <2>2, <1>6
<1> QED BY <1>1, <1>3, <1>7, <1>8, <1>9 DEF ArenaInv, ArenaTyped, FrameInv, HeldHere, HeldFor,
           OuterInBody, QuietBodies, Disjoint, LevelIsKept, KeepNothing, LoopLevels, Keeps,
           Walks, IsWhile

\* Activations beyond the m-th and statements of it beyond the h-th are left,
\* none of which keeps storage: their stretches are empty.
LEMMA Unwound ==
  ASSUME ArenaInv, AbandonsNone, UNCHANGED <<pas_str_at, overfull>>,
         NEW m \in DOMAIN frames, NEW h \in 0 .. Len(frames[m].open),
         frames' \in Seq(Frames), Len(frames') = m,
         \A i \in 1 .. m - 1 : frames'[i] = frames[i],
         frames'[m].base = frames[m].base,
         frames'[m].open = SubSeq(frames[m].open, 1, h)
  PROVE  ArenaInv'
<1> DEFINE o == frames[m].open
           b == frames[m].base
           t == pas_str_at
           n == Len(frames)
<1>1. /\ frames \in Seq(Frames) /\ n \in Nat /\ DOMAIN frames = 1 .. n /\ m \in 1 .. n
      /\ DOMAIN frames' = 1 .. m /\ n \in DOMAIN frames /\ frames[m] \in Frames
      /\ t \in 0 .. ArenaSize /\ t \in Int /\ overfull \in BOOLEAN
  BY TopFrame DEF ArenaInv, ArenaTyped
<1>2. o \in Seq(Statements) /\ b \in Int
  BY <1>1 DEF Frames
<1>3. ASSUME NEW k \in DOMAIN o, k > h PROVE ~Keeps(o[k])
  <2>1. k \notin 1 .. h
    BY <1>3
  <2>2. DOMAIN SubSeq(o, 1, h) = 1 .. h
    BY <1>2
  <2>3. k \notin DOMAIN frames'[m].open
    BY <2>1, <2>2
  <2> QED BY <2>3, NoneAbandoned
<1>4. ASSUME NEW i \in m + 1 .. n PROVE KeepNothing(frames[i].open)
  <2>1. i \in DOMAIN frames /\ i \notin DOMAIN frames'
    BY <1>1
  <2> QED BY <2>1, NoneAbandoned DEF KeepNothing
<1>5. TopOf(m) = t
  <2>1. CASE m = n
    BY <2>1 DEF TopOf
  <2>2. CASE m # n
    <3>1. m + 1 \in DOMAIN frames /\ m + 1 <= n
      BY <2>2, <1>1
    <3>2. frames[m + 1].base = TopOf(n)
      BY <3>1, <1>1, <1>4 DEF ArenaInv, StretchesMeet
    <3> QED BY <3>2, <2>2 DEF TopOf
  <2> QED BY <2>1, <2>2
<1>6. FrameInv(o, b, t)
  BY <1>5 DEF ArenaInv
<1> HIDE DEF o, b, t
<1>7. FrameInv(SubSeq(o, 1, h), b, t)
  BY <1>1, <1>2, <1>3, <1>6, StatementsGo DEF o
<1>8. FrameInv(frames'[m].open, frames[m].base, pas_str_at')
  BY <1>7 DEF o, b, t
<1>9. pas_str_at' \in 0 .. ArenaSize /\ overfull' \in BOOLEAN
  BY <1>1 DEF t
<1> QED BY <1>8, <1>9, FramesStep

LEMMA ReturnStep ==
  ASSUME ArenaInv, Return, AbandonsNone
  PROVE  ArenaInv'
<1> DEFINE m == Len(frames) - 1
           o == frames[m].open
<1>1. /\ frames \in Seq(Frames) /\ Len(frames) \in Nat /\ Len(frames) > 1
      /\ frames' = SubSeq(frames, 1, m) /\ UNCHANGED <<pas_str_at, overfull>>
  BY DEF ArenaInv, ArenaTyped, Return, Front
<1>2. /\ m \in DOMAIN frames /\ frames[m] \in Frames
      /\ frames' \in Seq(Frames) /\ Len(frames') = m
      /\ \A i \in 1 .. m : frames'[i] = frames[i]
  BY <1>1
<1>3. o \in Seq(Statements)
  BY <1>2 DEF Frames
<1>4. m \in 1 .. m /\ \A i \in 1 .. m - 1 : i \in 1 .. m
  BY <1>1
<1>5. Len(o) \in 0 .. Len(o) /\ o = SubSeq(o, 1, Len(o))
  BY <1>3
<1>6. /\ \A i \in 1 .. m - 1 : frames'[i] = frames[i]
      /\ frames'[m].base = frames[m].base /\ frames'[m].open = SubSeq(frames[m].open, 1, Len(o))
  BY <1>2, <1>4, <1>5
<1> HIDE DEF m
<1> QED BY <1>1, <1>2, <1>5, <1>6, Unwound

LEMMA GotoStep ==
  ASSUME ArenaInv, NEW d \in Nat, NEW n \in Nat, Goto(d, n), AbandonsNone
  PROVE  ArenaInv'
<1> DEFINE m == Len(frames) - d
           o == frames[m].open
           h == Len(o) - n
           cut == SubSeq(frames, 1, m)
           stays == SubSeq(o, 1, h)
<1>1. /\ frames \in Seq(Frames) /\ Len(frames) \in Nat /\ d < Len(frames)
      /\ UNCHANGED <<pas_str_at, overfull>>
  BY DEF ArenaInv, ArenaTyped, Goto
<1>2. m \in DOMAIN frames /\ m \in Nat \ {0} /\ frames[m] \in Frames
  BY <1>1
<1>3. /\ cut \in Seq(Frames) /\ Len(cut) = m /\ \A i \in 1 .. m : cut[i] = frames[i]
      /\ m \in 1 .. m /\ m \in DOMAIN cut
  BY <1>1, <1>2
<1>4. Last(cut) = frames[m]
  BY <1>3 DEF Last
<1>5. n <= Len(o) /\ frames' = [cut EXCEPT ![m].open = stays]
  BY <1>3, <1>4 DEF Goto
<1>6. o \in Seq(Statements)
  BY <1>2 DEF Frames
<1>7. h \in 0 .. Len(o) /\ stays \in Seq(Statements)
  <2> HIDE DEF o
  <2>1. Len(o) \in Nat
    BY <1>6
  <2>2. h \in 0 .. Len(o)
    BY <2>1, <1>5
  <2> HIDE DEF h
  <2> QED BY <1>6, <2>2
<1> HIDE DEF cut, stays, o, h
<1>8. [cut[m] EXCEPT !.open = stays] \in Frames
  BY <1>2, <1>3, <1>7 DEF Frames
<1>9. frames' = [cut EXCEPT ![m] = [cut[m] EXCEPT !.open = stays]]
  BY <1>5
<1> HIDE DEF m
<1>10. /\ frames' \in Seq(Frames) /\ Len(frames') = m
       /\ \A i \in 1 .. m - 1 : frames'[i] = frames[i]
       /\ frames'[m] = [frames[m] EXCEPT !.open = stays]
  BY <1>2, <1>3, <1>8, <1>9
<1>11. frames'[m].base = frames[m].base /\ frames'[m].open = SubSeq(frames[m].open, 1, h)
  BY <1>2, <1>10 DEF Frames, stays, o
<1>12. h \in 0 .. Len(frames[m].open)
  BY <1>7 DEF o
<1> QED BY <1>1, <1>2, <1>10, <1>11, <1>12, Unwound

\* The loop that stays holds nothing, or the text it goes on walking.
LEMMA LeaveStep ==
  ASSUME ArenaInv, NEW n \in Nat, NEW next \in {"expr", "end", "body"}, Leave(n, next),
         AbandonsNone
  PROVE  ArenaInv'
<1> DEFINE o == Frame.open
           b == Frame.base
           t == pas_str_at
           m == Len(o) - n
           stays == SubSeq(o, 1, m)
           loop == Last(stays)
           s == [loop EXCEPT !.phase = next]
           o2 == [stays EXCEPT ![Len(stays)] = s]
           N == Len(frames)
<1>1. /\ o \in Seq(Statements) /\ b \in Int /\ t \in Int /\ FrameInv(o, b, t) /\ b <= t
      /\ N \in DOMAIN frames /\ Frame = frames[N] /\ frames \in Seq(Frames)
      /\ frames[N] \in Frames
  BY TopFrame DEF ArenaInv, ArenaTyped
<1>2. /\ n < Len(o) /\ IsLoop(loop) /\ loop.phase = "body"
      /\ loop.kind = "forin" => next = "body"
      /\ frames' = WithOpen(o2) /\ UNCHANGED <<pas_str_at, overfull>>
  BY DEF Leave
<1>3. m \in 0 .. Len(o) /\ m \in 1 .. Len(o)
  BY <1>1, <1>2
<1>4. stays \in Seq(Statements) /\ Len(stays) = m /\ m \in DOMAIN stays /\ stays # <<>>
  <2> HIDE DEF o, m
  <2> QED BY <1>1, <1>3
<1> HIDE DEF stays
<1>5. loop = stays[Len(stays)] /\ loop \in Statements
  BY <1>4 DEF Last
<1> HIDE DEF loop
<1>6. /\ s \in Statements /\ s.kind = loop.kind /\ s.entry = loop.entry /\ s.any = loop.any
      /\ s.own = loop.own /\ s.held = loop.held /\ s.phase = next
  BY <1>5 DEF Statements, Phases
<1> HIDE DEF s
<1>7. o2 \in Seq(Statements) /\ Len(o2) = m /\ DOMAIN o2 = 1 .. m
  BY <1>4, <1>6
<1> HIDE DEF o2
<1>8. N \in DOMAIN frames' /\ frames'[N].open = o2
  <2>1. [frames[N] EXCEPT !.open = o2] \in Frames
    BY <1>1, <1>7 DEF Frames
  <2>2. frames' = [frames EXCEPT ![N] = [frames[N] EXCEPT !.open = o2]]
    BY <1>2 DEF WithOpen
  <2>3. frames'[N] = [frames[N] EXCEPT !.open = o2] /\ DOMAIN frames' = DOMAIN frames
    BY <1>1, <2>1, <2>2
  <2> QED BY <1>1, <2>3 DEF Frames
<1>9. ASSUME NEW k \in DOMAIN o, k > m PROVE ~Keeps(o[k])
  <2>1. k \notin 1 .. m
    BY <1>9, <1>3
  <2>2. k \notin DOMAIN frames'[N].open /\ k \in DOMAIN frames[N].open
    BY <2>1, <1>1, <1>7, <1>8
  <2> QED BY <2>2, <1>1, NoneAbandoned
<1> HIDE DEF o, b, t, m
<1>10. FrameInv(stays, b, t)
  BY <1>1, <1>3, <1>9, StatementsGo DEF stays
<1>11. /\ \A v \in loop.held : v \subseteq b .. t - 1
       /\ \A v, w \in loop.held : v # w => v \cap w = {}
       /\ \A k \in DOMAIN stays : k # Len(stays) =>
            \A v \in stays[k].held, w \in loop.held : v \cap w = {}
       /\ loop.held # {} => loop.own /\ (loop.phase = "expr" \/ Walks(loop))
  <2>1. \A v \in stays[m].held : v \subseteq b .. t - 1
    BY <1>4, <1>10 DEF FrameInv, HeldHere
  <2>2. \A v, w \in stays[m].held : v # w => v \cap w = {}
    BY <1>4, <1>10 DEF FrameInv, Disjoint
  <2>3. \A k \in DOMAIN stays : k # m => \A v \in stays[k].held, w \in stays[m].held : v \cap w = {}
    BY <1>4, <1>10 DEF FrameInv, Disjoint
  <2>4. stays[m].held # {} => stays[m].own /\ (stays[m].phase = "expr" \/ Walks(stays[m]))
    BY <1>4, <1>10 DEF FrameInv, HeldFor
  <2> QED BY <2>1, <2>2, <2>3, <2>4, <1>4, <1>5
<1>12. loop.kind = "forin" \/ (loop.held = {} /\ ~Keeps(loop))
  BY <1>2, <1>11 DEF IsLoop, Keeps, Walks
<1>13. /\ s.held # {} => s.own /\ (s.phase = "expr" \/ Walks(s))
       /\ Keeps(loop) => Keeps(s)
       /\ IsWhile(s) /\ s.held = {} => loop.held = {}
  BY <1>2, <1>6, <1>11, <1>12 DEF Walks, Keeps
<1>14. t <= t
  BY <1>1
<1>15. /\ \A v \in s.held : v \subseteq b .. t - 1
       /\ \A v, w \in s.held : v # w => v \cap w = {}
       /\ \A k \in DOMAIN stays : k # Len(stays) =>
            \A v \in stays[k].held, w \in s.held : v \cap w = {}
  BY <1>6, <1>11
<1>16. FrameInv(o2, b, t)
  BY <1>1, <1>4, <1>5, <1>6, <1>10, <1>13, <1>14, <1>15, InnerGoesOn DEF o2
<1>17. pas_str_at' = t /\ pas_str_at' \in 0 .. ArenaSize /\ overfull' \in BOOLEAN
  BY <1>2 DEF ArenaInv, ArenaTyped, t
<1> QED BY <1>2, <1>7, <1>16, <1>17, TopStep DEF b
-----------------------------------------------------------------------------
(* The theorems.                                                           *)

\* The activations share the arena out, and each knows what it has, throughout
\* every execution of a program that is careful in CarefulNext's sense.
THEOREM ArenaInvariant == CarefulSpec => []ArenaInv
<1>1. Init => ArenaInv
  <2> SUFFICES ASSUME Init PROVE ArenaInv
    OBVIOUS
  <2> DEFINE f == [base |-> 0, open |-> <<>>]
  <2>1. f \in Frames /\ f.base = 0 /\ f.open = <<>>
    <3>1. <<>> \in Seq(Statements)
      OBVIOUS
    <3> QED BY <3>1 DEF Frames
  <2>2. frames = <<f>> /\ pas_str_at = 0 /\ overfull = FALSE
    BY DEF Init
  <2> HIDE DEF f
  <2>3. /\ frames \in Seq(Frames) /\ frames # <<>> /\ Len(frames) = 1
        /\ DOMAIN frames = 1 .. 1 /\ frames[1] = f
    BY <2>1, <2>2
  <2>4. DOMAIN <<>> = {}
    OBVIOUS
  <2>5. FrameInv(<<>>, 0, 0)
    BY <2>4 DEF FrameInv, HeldHere, HeldFor, OuterInBody, QuietBodies, Disjoint, LevelIsKept,
          LoopLevels
  <2>6. TopOf(1) = 0 /\ \A i \in 1 .. 1 : i = 1
    BY <2>2, <2>3 DEF TopOf
  <2>7. ArenaTyped
    <3>1. 0 \in 0 .. ArenaSize
      BY PasArenaAssumption
    <3>2. pas_str_at \in 0 .. ArenaSize /\ overfull \in BOOLEAN
      BY <3>1, <2>2, Zenon
    <3> QED BY <3>2, <2>3 DEF ArenaTyped
  <2>8. BasesRise /\ StretchesMeet
    BY <2>1, <2>3, <2>6 DEF BasesRise, StretchesMeet
  <2> QED BY <2>1, <2>3, <2>5, <2>6, <2>7, <2>8 DEF ArenaInv
<1>2. ArenaInv /\ [CarefulNext]_arenaVars => ArenaInv'
  <2> SUFFICES ASSUME ArenaInv, [CarefulNext]_arenaVars PROVE ArenaInv'
    OBVIOUS
  <2>1. CASE UNCHANGED arenaVars
    <3>1. overfull' \in BOOLEAN /\ UNCHANGED <<pas_str_at, frames>>
      BY <2>1 DEF arenaVars, ArenaInv, ArenaTyped
    <3> QED BY <3>1, SameFrames
  <2>2. ASSUME NEW n \in Sizes, pas_str_temp(n) PROVE ArenaInv'
    BY <2>2, TempStep
  <2>3. CASE Call
    BY <2>3, CallStep
  <2>4. CASE Branch
    BY <2>4, BranchStep
  <2>5. CASE Again
    BY <2>5, AgainStep
  <2>6. CASE Walk
    BY <2>6, WalkStep
  <2>7. CASE End
    BY <2>7, EndStep
  <2>8. ASSUME NEW leaves \in BOOLEAN, Condition(leaves) PROVE ArenaInv'
    BY <2>8, ConditionStep
  <2>9. ASSUME NEW kind \in Kinds, NEW own \in BOOLEAN, NEW any \in BOOLEAN,
               Begin(kind, own, any), BodiesTakeNothing'
        PROVE  ArenaInv'
    BY <2>9, BeginStep
  <2>10. CASE Return /\ AbandonsNone
    BY <2>10, ReturnStep
  <2>11. ASSUME NEW n \in 0 .. MaxNest - 1, NEW next \in {"expr", "end", "body"},
                Leave(n, next), AbandonsNone
         PROVE  ArenaInv'
    <3>1. n \in Nat
      BY PasArenaAssumption
    <3> QED BY <2>11, <3>1, LeaveStep
  <2>12. ASSUME NEW d \in 0 .. MaxDepth - 1, NEW n \in 0 .. MaxNest, Goto(d, n), AbandonsNone
         PROVE  ArenaInv'
    <3>1. d \in Nat /\ n \in Nat
      BY PasArenaAssumption
    <3> QED BY <2>12, <3>1, GotoStep
  <2> QED BY <2>1, <2>2, <2>3, <2>4, <2>5, <2>6, <2>7, <2>8, <2>9, <2>10, <2>11, <2>12
          DEF CarefulNext, InOrder, LeavesEarly
<1> QED BY <1>1, <1>2, PTL DEF CarefulSpec

\* What a caller holds lies below all that its callees hold.
LEMMA StretchesApart ==
  ASSUME ArenaInv, NEW i \in DOMAIN frames, NEW j \in DOMAIN frames, i < j,
         NEW k \in DOMAIN frames[i].open, NEW l \in DOMAIN frames[j].open,
         NEW v \in frames[i].open[k].held, NEW w \in frames[j].open[l].held
  PROVE  v \cap w = {}
<1>1. /\ i \in Int /\ j \in Int /\ i # Len(frames) /\ i + 1 \in DOMAIN frames /\ i + 1 <= j
      /\ frames[j] \in Frames /\ frames[i + 1] \in Frames
  BY DEF ArenaInv, ArenaTyped
<1>2. v \subseteq frames[i].base .. TopOf(i) - 1
  BY DEF ArenaInv, FrameInv, HeldHere
<1>3. w \subseteq frames[j].base .. TopOf(j) - 1
  BY DEF ArenaInv, FrameInv, HeldHere
<1>4. TopOf(i) = frames[i + 1].base
  BY <1>1 DEF TopOf
<1>5. TopOf(i) <= frames[j].base
  BY <1>1, <1>4 DEF ArenaInv, BasesRise
<1>6. TopOf(i) \in Nat /\ frames[j].base \in Nat
  BY <1>1, <1>4 DEF Frames
<1> QED BY <1>2, <1>3, <1>5, <1>6

\* Storage a careful program still uses is never lent again, whatever calls,
\* loops, returns and jumps its statements make (ReleaseStrTemps).
THEOREM ValuesStayIntact == CarefulSpec => []ValuesIntact
<1>1. ArenaInv => ValuesIntact
  <2> SUFFICES ASSUME ArenaInv, NEW p \in Open, NEW q \in Open,
                      NEW v \in At(p).held, NEW w \in At(q).held, <<p, v>> # <<q, w>>
               PROVE  v \cap w = {}
    BY DEF ValuesIntact
  <2>1. PICK i \in DOMAIN frames : \E k \in DOMAIN frames[i].open : p = <<i, k>>
    BY OpenPlaces
  <2>2. PICK k \in DOMAIN frames[i].open : p = <<i, k>>
    BY <2>1
  <2>3. PICK j \in DOMAIN frames : \E l \in DOMAIN frames[j].open : q = <<j, l>>
    BY OpenPlaces
  <2>4. PICK l \in DOMAIN frames[j].open : q = <<j, l>>
    BY <2>3
  <2>5. v \in frames[i].open[k].held /\ w \in frames[j].open[l].held
    BY <2>2, <2>4 DEF At
  <2>6. CASE i = j
    <3>1. <<k, v>> # <<l, w>>
      BY <2>2, <2>4, <2>6
    <3> QED BY <3>1, <2>5, <2>6 DEF ArenaInv, FrameInv, Disjoint
  <2>7. CASE i < j
    BY <2>5, <2>7, StretchesApart
  <2>8. CASE j < i
    <3>1. w \cap v = {}
      BY <2>5, <2>8, StretchesApart
    <3> QED BY <3>1
  <2>9. i \in Int /\ j \in Int
    BY DEF ArenaInv, ArenaTyped
  <2> QED BY <2>6, <2>7, <2>8, <2>9
<1> QED BY <1>1, ArenaInvariant, PTL

\* A loop comes to its condition with the arena no fuller than it began, so
\* turns do not add up (EmitWhile, EmitRepeat).
THEOREM LoopsHoldTheLevel == CarefulSpec => []LoopsKeepTheLevel
<1>1. ArenaInv => LoopsKeepTheLevel
  <2> SUFFICES ASSUME ArenaInv, NEW p \in Open,
                      p[2] = Len(frames[p[1]].open), p[1] = Len(frames),
                      At(p).kind \in {"while", "repeat"}, At(p).held = {}
               PROVE  pas_str_at <= At(p).entry
    BY DEF LoopsKeepTheLevel
  <2> DEFINE o == Frame.open
             n == Len(o)
  <2>1. PICK i \in DOMAIN frames : \E k \in DOMAIN frames[i].open : p = <<i, k>>
    BY OpenPlaces
  <2>2. PICK k \in DOMAIN frames[i].open : p = <<i, k>>
    BY <2>1
  <2>3. frames[i] = Frame /\ k = n /\ At(p) = o[n] /\ n \in DOMAIN o
    BY <2>2, TopFrame DEF At
  <2>4. o \in Seq(Statements) /\ FrameInv(o, Frame.base, pas_str_at)
    BY TopFrame
  <2>5. \A l \in DOMAIN o : ~(l > n)
    BY <2>4
  <2> HIDE DEF o, n
  <2> QED BY <2>3, <2>4, <2>5 DEF FrameInv, LoopLevels, IsWhile
<1> QED BY <1>1, ArenaInvariant, PTL
=============================================================================
