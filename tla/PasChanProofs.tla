---------------------------- MODULE PasChanProofs ----------------------------
(***************************************************************************)
(* Proofs about PasChan, for every set of threads, channels and values,    *)
(* every capacity and every program of select statements.                  *)
(***************************************************************************)
EXTENDS PasChan, FiniteSetTheorems, TLAPS

\* A select that is under way is a select of the program, so it has an arm.
SelectTyped ==
  \A t \in Thread : pc[t] \in {"selectTry", "selectBody", "selectWait"} => sel[t] \in Selects

TypeInv == TypeOK /\ SelectTyped

LEMMA ArmTyped ==
  ASSUME TypeOK, NEW t \in Thread, sel[t] \in Selects
  PROVE  /\ ArmCount(t) \in Nat \ {0}
         /\ ArmIndex(t) \in DOMAIN sel[t].arms
         /\ ArmAt(t) \in Arm
<1>1. sel[t].arms \in Seq(Arm) /\ sel[t].arms # <<>>
  BY PasChanAssumption
<1>2. ArmCount(t) \in Nat \ {0} /\ DOMAIN sel[t].arms = 1 .. ArmCount(t)
  BY <1>1 DEF ArmCount
<1>3. \A x \in Nat, y \in Nat \ {0} : x % y \in 0 .. y - 1
  OBVIOUS
<1>4. (start[t] + k[t]) % TurnMod \in Nat
  <2>1. start[t] + k[t] \in Nat
    BY PasChanAssumption DEF TypeOK, PollType
  <2>2. TurnMod \in Nat \ {0}
    BY PasChanAssumption
  <2> QED BY <2>1, <2>2, <1>3
<1>5. ArmIndex(t) \in 1 .. ArmCount(t)
  <2>1. ((start[t] + k[t]) % TurnMod) % ArmCount(t) \in 0 .. ArmCount(t) - 1
    BY <1>2, <1>3, <1>4
  <2> QED BY <2>1, <1>2 DEF ArmIndex
<1> QED
  BY <1>1, <1>2, <1>5 DEF ArmAt

LEMMA ModNat == \A x \in Nat, y \in Nat \ {0} : x % y \in Nat /\ x % y < y
OBVIOUS

LEMMA ModSmall == \A x \in Nat, y \in Nat \ {0} : x < y => x % y = x
OBVIOUS

LEMMA ModWrap == \A x \in Nat, y \in Nat \ {0} : y <= x /\ x < y + y => x % y = x - y
OBVIOUS

\* Whole turns of a ring do not show.
LEMMA ModTurns ==
  ASSUME NEW y \in Nat \ {0}, NEW p \in Nat, NEW x \in Nat
  PROVE  (y * p + x) % y = x % y
<1> DEFINE z == y * p + x
<1>1. z \in Nat
  OBVIOUS
<1>2. x = y * (x \div y) + (x % y) /\ x \div y \in Int /\ x % y \in 0 .. y - 1
  OBVIOUS
<1>3. z = y * (z \div y) + (z % y) /\ z \div y \in Int /\ z % y \in 0 .. y - 1
  <2> HIDE DEF z
  <2> QED BY <1>1
<1> DEFINE d == (z \div y) - (x \div y) - p
           e == (x % y) - (z % y)
<1>4. d \in Int /\ e \in Int /\ e < y /\ -y < e
  <2> HIDE DEF z
  <2> QED BY <1>2, <1>3
<1>5. y * d = e
  <2>1. \A a, b \in Int : y * (a - b - p) = y * a - y * b - y * p
    OBVIOUS
  <2>2. y * d = y * (z \div y) - y * (x \div y) - y * p
    <3> HIDE DEF z
    <3> QED BY <2>1, <1>2, <1>3
  <2>3. z = y * p + x /\ y * p \in Int
    OBVIOUS
  <2> HIDE DEF z
  <2> QED BY <2>2, <2>3, <1>2, <1>3
<1>6. d = 0
  <2> HIDE DEF d, e
  <2>1. d >= 1 => y * d >= y
    BY <1>4
  <2>2. d <= -1 => y * d <= -y
    BY <1>4
  <2> QED BY <1>4, <1>5, <2>1, <2>2
<1>7. e = 0
  BY <1>5, <1>6
<1> HIDE DEF z
<1>8. z % y = x % y
  BY <1>7, <1>2, <1>3
<1> QED BY <1>8 DEF z

LEMMA ModMod ==
  ASSUME NEW y \in Nat \ {0}, NEW q \in Nat \ {0}, NEW x \in Nat
  PROVE  (x % (q * y)) % y = x % y
<1> DEFINE w == q * y
<1>1. w \in Nat \ {0}
  OBVIOUS
<1>2. x = w * (x \div w) + (x % w) /\ x \div w \in Nat /\ x % w \in Nat
  <2> HIDE DEF w
  <2> QED BY <1>1
<1> DEFINE p == q * (x \div w)
<1>3. p \in Nat /\ w * (x \div w) = y * p
  <2>1. \A a \in Nat : (q * y) * a = y * (q * a) /\ q * a \in Nat
    OBVIOUS
  <2> QED BY <2>1, <1>2
<1>4. (y * p + (x % w)) % y = (x % w) % y
  <2> HIDE DEF p, w
  <2> QED BY <1>2, <1>3, ModTurns
<1> HIDE DEF p
<1> QED BY <1>2, <1>3, <1>4 DEF w

LEMMA ModStep ==
  ASSUME NEW y \in Nat \ {0}, NEW x \in Nat, x < y + y, NEW j \in Nat
  PROVE  ((x % y) + j) % y = (x + j) % y
<1>1. CASE x < y
  <2>1. x % y = x BY <1>1, ModSmall
  <2> QED BY <2>1
<1>2. CASE ~(x < y)
  <2>1. x % y = x - y /\ x - y \in Nat BY <1>2, ModWrap
  <2>2. x - y + j \in Nat BY <2>1
  <2>3. (y * 1 + (x - y + j)) % y = (x - y + j) % y
    BY <2>2, ModTurns
  <2>4. y * 1 + (x - y + j) = x + j
    OBVIOUS
  <2> QED BY <2>1, <2>3, <2>4
<1> QED BY <1>1, <1>2

\* Less than one turn apart is apart.
LEMMA ModApart ==
  ASSUME NEW y \in Nat \ {0}, NEW h \in Nat, h < y, NEW i \in Nat, NEW j \in Nat, i < j, j < y
  PROVE  (h + i) % y # (h + j) % y
<1>1. CASE h + j < y
  BY <1>1, ModSmall
<1>2. CASE h + i < y /\ ~(h + j < y)
  <2>1. (h + i) % y = h + i BY <1>2, ModSmall
  <2>2. (h + j) % y = h + j - y BY <1>2, ModWrap
  <2> QED BY <2>1, <2>2
<1>3. CASE ~(h + i < y)
  <2>1. (h + i) % y = h + i - y BY <1>3, ModWrap
  <2>2. h + j \in Nat /\ y <= h + j /\ h + j < y + y BY <1>3
  <2>3. (h + j) % y = h + j - y BY <2>2, ModWrap
  <2> QED BY <2>1, <2>3
<1> QED BY <1>1, <1>2, <1>3

LEMMA CapNat == \A c \in Chan : Cap[c] \in Nat \ {0}
BY PasChanAssumption

\* Neither ring operation leaves the allocation.
LEMMA PutType ==
  ASSUME TypeOK, NEW c \in Chan, NEW v \in Value, n[c] # Cap[c], Put(c, v)
  PROVE  RingType' /\ asleep' \subseteq Thread
<1>1. tail[c] + 1 \in Nat /\ Cap[c] \in Nat \ {0}
  BY CapNat DEF TypeOK, RingType
<1> USE DEF TypeOK, RingType, ThreadType
<1>2. asleep' \subseteq Thread
  BY DEF Put, SignalOne
<1>3. DOMAIN buf' = Chan /\ \A d \in Chan : buf'[d] \in [0 .. Cap[d] - 1 -> Value \cup {Junk}]
  <2>1. buf' = [buf EXCEPT ![c] = [buf[c] EXCEPT ![tail[c]] = v]]
    BY DEF Put
  <2>2. [buf[c] EXCEPT ![tail[c]] = v] \in [0 .. Cap[c] - 1 -> Value \cup {Junk}]
    BY CapNat
  <2> QED BY <2>1, <2>2
<1>4. tail' \in [Chan -> Nat] /\ \A d \in Chan : tail'[d] < Cap[d]
  <2>1. (tail[c] + 1) % Cap[c] \in Nat /\ (tail[c] + 1) % Cap[c] < Cap[c]
    BY <1>1, ModNat
  <2>2. tail' = [tail EXCEPT ![c] = (tail[c] + 1) % Cap[c]]
    BY DEF Put, Advance
  <2> QED BY <2>1, <2>2
<1>5. n' \in [Chan -> Nat] /\ \A d \in Chan : n'[d] <= Cap[d]
  BY CapNat DEF Put
<1>6. head' = head
  BY DEF Put
<1> QED BY <1>2, <1>3, <1>4, <1>5, <1>6

LEMMA TakeType ==
  ASSUME TypeOK, NEW c \in Chan, n[c] # 0, Take(c)
  PROVE  RingType' /\ asleep' \subseteq Thread
<1>1. head[c] + 1 \in Nat /\ Cap[c] \in Nat \ {0}
  BY CapNat DEF TypeOK, RingType
<1> USE DEF TypeOK, RingType, ThreadType
<1>2. asleep' \subseteq Thread
  BY DEF Take, SignalOne
<1>3. head' \in [Chan -> Nat] /\ \A d \in Chan : head'[d] < Cap[d]
  <2>1. (head[c] + 1) % Cap[c] \in Nat /\ (head[c] + 1) % Cap[c] < Cap[c]
    BY <1>1, ModNat
  <2>2. head' = [head EXCEPT ![c] = (head[c] + 1) % Cap[c]]
    BY DEF Take, Advance
  <2> QED BY <2>1, <2>2
<1>4. n' \in [Chan -> Nat] /\ \A d \in Chan : n'[d] <= Cap[d]
  BY CapNat DEF Take
<1>5. buf' = buf /\ tail' = tail
  BY DEF Take
<1> QED BY <1>2, <1>3, <1>4, <1>5

LEMMA InitTypeInv == Init => TypeInv
<1> SUFFICES ASSUME Init PROVE TypeInv
  OBVIOUS
<1>1. RingType
  BY PasChanAssumption, CapNat DEF Init, RingType
<1>2. ChanType
  BY DEF Init, ChanType
<1>3. ThreadType
  <2>1. (CHOOSE c \in Chan : TRUE) \in Chan /\ (CHOOSE v \in Value : TRUE) \in Value
    BY PasChanAssumption
  <2>2. Main \in Thread
    BY PasChanAssumption
  <2> QED BY <2>1, <2>2 DEF Init, ThreadType, Location
<1>4. PollType
  BY PasChanAssumption DEF Init, PollType
<1>5. SelectTyped
  BY DEF Init, SelectTyped
<1> QED BY <1>1, <1>2, <1>3, <1>4, <1>5 DEF TypeInv, TypeOK

LEMMA RoundType ==
  ASSUME TypeOK, NEW t \in Thread, BeginRound(t)
  PROVE  /\ k' \in [Thread -> Nat]
         /\ start' \in [Thread -> 0 .. TurnMod - 1]
         /\ turn' \in [Thread -> 0 .. TurnMod - 1]
         /\ pc' \in [Thread -> Location] /\ activity' \in Thread \cup {NoThread}
<1>1. turn[t] + 1 \in Nat /\ TurnMod \in Nat \ {0} /\ turn[t] \in 0 .. TurnMod - 1
  BY PasChanAssumption DEF TypeOK, PollType
<1>2. (turn[t] + 1) % TurnMod \in 0 .. TurnMod - 1
  BY <1>1, ModNat
<1> QED
  BY <1>1, <1>2 DEF BeginRound, Goto, TypeOK, PollType, ThreadType, Location

\* Four ways to keep a part of the type: leave its variables alone.
LEMMA RingStays == ASSUME RingType, UNCHANGED ring PROVE RingType'
BY DEF RingType, ring

LEMMA PollStays == ASSUME PollType, UNCHANGED <<sel, k, start, turn>> PROVE PollType'
BY DEF PollType

LEMMA SelectStays ==
  ASSUME ThreadType, SelectTyped, UNCHANGED sel,
         \/ UNCHANGED pc
         \/ \E u \in Thread, l \in Location :
              /\ pc' = [pc EXCEPT ![u] = l]
              /\ \/ l \notin {"selectTry", "selectBody", "selectWait"}
                 \/ sel[u] \in Selects
  PROVE  SelectTyped'
BY DEF ThreadType, SelectTyped

LEMMA CallType ==
  ASSUME ThreadType, NEW t \in Thread, Call(t) PROVE calls' \in [Thread -> Nat]
BY DEF ThreadType, Call

LEMMA NextTypeInv == TypeInv /\ [Next]_vars => TypeInv'
<1> SUFFICES ASSUME TypeInv, [Next]_vars PROVE TypeInv'
  OBVIOUS
<1>t. RingType /\ ChanType /\ ThreadType /\ PollType /\ SelectTyped /\ TypeOK
  BY DEF TypeInv, TypeOK
<1> USE <1>t
<1>c. SUFFICES RingType' /\ ChanType' /\ ThreadType' /\ PollType' /\ SelectTyped'
  BY DEF TypeInv, TypeOK
<1>u. CASE UNCHANGED vars
  <2> USE <1>u DEF vars, life, args, poll, tree
  <2>1. RingType' BY RingStays
  <2>2. ChanType' BY DEF ChanType
  <2>3. ThreadType' BY DEF ThreadType
  <2>4. PollType' BY PollStays
  <2>5. SelectTyped' BY DEF SelectTyped
  <2> QED BY <2>1, <2>2, <2>3, <2>4, <2>5
<1>n. CASE Next
  <2> USE DEF At
  <2> SUFFICES ASSUME NEW t \in Thread, Continue(t) \/ Begin(t)
               PROVE  RingType' /\ ChanType' /\ ThreadType' /\ PollType' /\ SelectTyped'
    BY <1>n DEF Next
  <2>1. cur[t] \in Chan /\ val[t] \in Value
    BY DEF ThreadType
  <2>2. CASE \E c \in Chan, v \in Value : Send(t, c, v)
    <3> PICK c \in Chan, v \in Value : Send(t, c, v)
      BY <2>2
    <3> USE DEF RuntimeError, args, life, poll, tree
    <3>1. calls' \in [Thread -> Nat] BY CallType DEF Send
    <3>2. RingType' BY RingStays DEF Send
    <3>3. ChanType' BY DEF Send, ChanType, Lock
    <3>4. ThreadType'
      <4>1. /\ \/ UNCHANGED <<pc, cur, val>>
               \/ /\ pc' = [pc EXCEPT ![t] = "sendBody"]
                  /\ cur' = [cur EXCEPT ![t] = c]
                  /\ val' = [val EXCEPT ![t] = v]
            /\ UNCHANGED <<after, asleep, ending, held, spawner>>
            /\ stopped' \in BOOLEAN
        BY DEF Send, Goto, ThreadType
      <4> QED BY <4>1, <3>1 DEF ThreadType, Location
    <3>5. PollType' BY PollStays DEF Send
    <3>6. SelectTyped' BY SelectStays DEF Send, Goto, Location
    <3> QED BY <3>2, <3>3, <3>4, <3>5, <3>6
  <2>3. CASE \E c \in Chan : Receive(t, c)
    <3> PICK c \in Chan : Receive(t, c)
      BY <2>3
    <3> USE DEF RuntimeError, args, life, poll, tree
    <3>1. calls' \in [Thread -> Nat] BY CallType DEF Receive
    <3>2. RingType' BY RingStays DEF Receive
    <3>3. ChanType' BY DEF Receive, ChanType, Lock
    <3>4. ThreadType'
      <4>1. /\ \/ UNCHANGED <<pc, cur, val>>
               \/ /\ pc' = [pc EXCEPT ![t] = "receiveBody"]
                  /\ cur' = [cur EXCEPT ![t] = c]
                  /\ val' = val
            /\ UNCHANGED <<after, asleep, ending, held, spawner>>
            /\ stopped' \in BOOLEAN
        BY DEF Receive, Goto, ThreadType
      <4> QED BY <4>1, <3>1 DEF ThreadType, Location
    <3>5. PollType' BY PollStays DEF Receive
    <3>6. SelectTyped' BY SelectStays DEF Receive, Goto, Location
    <3> QED BY <3>2, <3>3, <3>4, <3>5, <3>6
  <2>4. CASE SendBody(t)
    <3> USE <2>4 DEF SendBody, RuntimeError, args, life, poll, tree
    <3>1. RingType' /\ asleep' \subseteq Thread
      <4>1. CASE n[cur[t]] # Cap[cur[t]] /\ Put(cur[t], val[t])
        BY <4>1, <2>1, PutType
      <4>2. CASE UNCHANGED ring /\ asleep' \subseteq Thread
        BY <4>2, RingStays
      <4> QED BY <4>1, <4>2 DEF ThreadType
    <3>2. ChanType' BY DEF ChanType, Unlock
    <3>3. ThreadType' BY <3>1 DEF ThreadType, Location, Goto
    <3>4. PollType' BY PollStays
    <3>5. SelectTyped' BY SelectStays DEF Goto, Location
    <3> QED BY <3>1, <3>2, <3>3, <3>4, <3>5
  <2>5. CASE ReceiveBody(t)
    <3> USE <2>5 DEF ReceiveBody, Drained, args, life, poll, tree
    <3>1. RingType' /\ asleep' \subseteq Thread
      <4>1. CASE n[cur[t]] # 0 /\ Take(cur[t])
        BY <4>1, <2>1, TakeType
      <4>2. CASE UNCHANGED ring /\ asleep' \subseteq Thread
        BY <4>2, RingStays
      <4> QED BY <4>1, <4>2 DEF ThreadType
    <3>2. ChanType' BY DEF ChanType, Unlock
    <3>3. ThreadType' BY <3>1 DEF ThreadType, Location, Goto
    <3>4. PollType' BY PollStays
    <3>5. SelectTyped' BY SelectStays DEF Goto, Location
    <3> QED BY <3>1, <3>2, <3>3, <3>4, <3>5
  <2>6. CASE Resume(t)
    <3> USE <2>6 DEF Resume, args, life, poll, tree
    <3>1. RingType' BY RingStays
    <3>2. ChanType' BY DEF ChanType, Lock
    <3>3. ThreadType' BY DEF ThreadType, Location, Goto
    <3>4. PollType' BY PollStays
    <3>5. SelectTyped' BY SelectStays DEF Goto, Location
    <3> QED BY <3>1, <3>2, <3>3, <3>4, <3>5
  <2>7. CASE SpuriousWakeup(t)
    <3> USE <2>7 DEF SpuriousWakeup, args, life, poll, tree
    <3>1. RingType' BY RingStays
    <3>2. ChanType' BY DEF ChanType
    <3>3. ThreadType' BY DEF ThreadType
    <3>4. PollType' BY PollStays
    <3>5. SelectTyped' BY SelectStays
    <3> QED BY <3>1, <3>2, <3>3, <3>4, <3>5
  <2>8. CASE ActivitySignal(t)
    <3> USE <2>8 DEF ActivitySignal, args, life, poll, tree
    <3>1. RingType' BY RingStays
    <3>2. ChanType' BY DEF ChanType
    <3>3. after[t] \in Location \ {"selectTry", "selectBody", "selectWait"}
      BY DEF ThreadType, Location
    <3>4. ThreadType' BY <3>3 DEF ThreadType, Goto
    <3>5. PollType' BY PollStays
    <3>6. SelectTyped' BY <3>3, SelectStays DEF Goto
    <3> QED BY <3>1, <3>2, <3>4, <3>5, <3>6
  <2>9. CASE \E s \in Selects : Select(t, s)
    <3> PICK s \in Selects : Select(t, s)
      BY <2>9
    <3> USE DEF Select, args, life, poll, tree
    <3>1. calls' \in [Thread -> Nat] BY CallType
    <3>a. CASE BeginRound(t) /\ sel' = [sel EXCEPT ![t] = s] /\ UNCHANGED <<ring,
                 closed, life, asleep, cur, val, after, tree, stopped>>
      <4> USE <3>a
      <4>1. RingType' BY RingStays
      <4>2. ChanType' BY RoundType DEF ChanType
      <4>3. ThreadType' BY <3>1, RoundType DEF ThreadType
      <4>4. PollType' BY RoundType DEF PollType
      <4>5. SelectTyped'
        BY DEF SelectTyped, BeginRound, Goto, ThreadType, PollType
      <4> QED BY <4>1, <4>2, <4>3, <4>4, <4>5
    <3>b. CASE stopped' = TRUE /\ UNCHANGED <<ring, closed, life, activity, pc,
                 asleep, args, poll, after, tree>>
      <4> USE <3>b
      <4>1. RingType' BY RingStays
      <4>2. ChanType' BY DEF ChanType
      <4>3. ThreadType' BY <3>1 DEF ThreadType
      <4>4. PollType' BY PollStays
      <4>5. SelectTyped' BY SelectStays
      <4> QED BY <4>1, <4>2, <4>3, <4>4, <4>5
    <3> QED BY <3>a, <3>b DEF RuntimeError
  <2>10. CASE SelectTry(t)
    <3> USE <2>10 DEF SelectTry, args, life, poll, tree
    <3>1. sel[t] \in Selects BY DEF SelectTyped
    <3>2. ArmAt(t).chan \in Chan BY <3>1, ArmTyped DEF Arm
    <3>3. RingType' BY RingStays
    <3>4. ChanType' BY <3>2 DEF ChanType, Lock
    <3>5. ThreadType' BY <3>2 DEF ThreadType, Location, Goto
    <3>6. PollType' BY PollStays
    <3>7. SelectTyped' BY <3>1, SelectStays DEF Goto, Location
    <3> QED BY <3>3, <3>4, <3>5, <3>6, <3>7
  <2>11. CASE SelectBody(t)
    <3>1. sel[t] \in Selects BY <2>11 DEF SelectBody, SelectTyped
    <3>2. ArmAt(t).val \in Value BY <3>1, ArmTyped DEF Arm
    <3>3. n[cur[t]] \in Nat /\ n[cur[t]] <= Cap[cur[t]] /\ Cap[cur[t]] \in Nat
      BY <2>1, CapNat DEF RingType
    <3>4. \/ UNCHANGED <<ring, asleep, sel, poll>>
          \/ n[cur[t]] # 0 /\ Take(cur[t]) /\ UNCHANGED <<sel, poll>>
          \/ n[cur[t]] < Cap[cur[t]] /\ Put(cur[t], ArmAt(t).val) /\ UNCHANGED <<sel, poll>>
          \/ NotReady(t) /\ UNCHANGED sel
      BY <2>11 DEF SelectBody, Drained, RuntimeError, args
    <3>5. asleep \subseteq Thread
      BY DEF ThreadType
    <3>6. RingType' /\ asleep' \subseteq Thread
      <4>1. CASE n[cur[t]] # 0 /\ Take(cur[t])
        BY <4>1, <2>1, TakeType
      <4>2. CASE n[cur[t]] < Cap[cur[t]] /\ Put(cur[t], ArmAt(t).val)
        <5>1. n[cur[t]] # Cap[cur[t]] BY <4>2, <3>3
        <5> QED BY <5>1, <4>2, <2>1, <3>2, PutType
      <4>3. CASE UNCHANGED <<ring, asleep>>
        BY <4>3, <3>5, RingStays
      <4>4. CASE NotReady(t)
        BY <4>4, <3>5, RingStays DEF NotReady
      <4> QED BY <3>4, <4>1, <4>2, <4>3, <4>4
    <3>7. ChanType'
      BY <2>11 DEF SelectBody, life, ChanType, Unlock, NotReady, RuntimeError
    <3>8. ThreadType'
      BY <2>11, <3>6 DEF SelectBody, args, life, tree, ThreadType, Location,
         Goto, NotReady, RuntimeError
    <3>9. PollType'
      <4>1. CASE UNCHANGED <<sel, poll>>
        BY <4>1, PollStays DEF poll
      <4>2. CASE NotReady(t) /\ UNCHANGED sel
        <5>1. k' = [k EXCEPT ![t] = k[t] + 1] /\ UNCHANGED <<sel, start, turn>>
          BY <4>2 DEF NotReady
        <5> QED BY <5>1 DEF PollType
      <4> QED BY <3>4, <4>1, <4>2
    <3>10. SelectTyped'
      <4>1. UNCHANGED sel BY <2>11 DEF SelectBody, args, RuntimeError
      <4>2. \/ UNCHANGED pc
            \/ \E l \in Location : pc' = [pc EXCEPT ![t] = l]
        BY <2>11 DEF SelectBody, RuntimeError, NotReady, Goto, Location
      <4> QED BY <3>1, <4>1, <4>2, SelectStays
    <3> QED BY <3>6, <3>7, <3>8, <3>9, <3>10
  <2>12. CASE SelectFired(t)
    <3> USE <2>12 DEF SelectFired, args, life, poll, tree
    <3>1. RingType' BY RingStays
    <3>2. ChanType' BY DEF ChanType
    <3>3. ThreadType' BY DEF ThreadType, Location, Goto
    <3>4. PollType' BY PollStays
    <3>5. SelectTyped' BY SelectStays DEF Goto, Location
    <3> QED BY <3>1, <3>2, <3>3, <3>4, <3>5
  <2>13. CASE SelectTimeout(t)
    <3> USE <2>13 DEF SelectTimeout, args, life, poll, tree
    <3>1. RingType' BY RingStays
    <3>2. ChanType' BY DEF ChanType
    <3>3. ThreadType' BY DEF ThreadType, Location, Goto
    <3>4. PollType' BY PollStays
    <3>5. SelectTyped' BY SelectStays DEF Goto, Location
    <3> QED BY <3>1, <3>2, <3>3, <3>4, <3>5
  <2>14. CASE SelectAgain(t)
    <3> USE <2>14 DEF SelectAgain, args, life, tree
    <3>1. sel[t] \in Selects BY DEF SelectTyped
    <3>2. RingType' BY RingStays
    <3>3. ChanType' BY RoundType DEF ChanType
    <3>4. ThreadType' BY RoundType DEF ThreadType
    <3>5. PollType' BY RoundType DEF PollType
    <3>6. SelectTyped' BY <3>1, SelectStays DEF BeginRound, Goto, Location
    <3> QED BY <3>2, <3>3, <3>4, <3>5, <3>6
  <2>15. CASE \E u \in Thread, S \in SUBSET Chan : Spawn(t, u, S)
    <3> PICK u \in Thread, S \in SUBSET Chan : Spawn(t, u, S)
      BY <2>15
    <3> USE DEF Spawn, Referenced, args, poll
    <3>1. RingType' BY RingStays
    <3>2. ChanType' BY DEF ChanType
    <3>3. ThreadType' BY DEF ThreadType, Location, Goto
    <3>4. PollType' BY PollStays
    <3>5. SelectTyped' BY SelectStays DEF Goto, Location
    <3> QED BY <3>1, <3>2, <3>3, <3>4, <3>5
  <2>16. CASE \E c \in Chan : Release(t, c)
    <3> PICK c \in Chan : Release(t, c)
      BY <2>16
    <3> USE DEF Release, life, poll, tree
    <3>1. calls' \in [Thread -> Nat] BY CallType
    <3>2. RingType' BY RingStays
    <3>3. ChanType' BY DEF ChanType
    <3>4. ThreadType' BY <3>1 DEF ThreadType, Location, Goto
    <3>5. PollType' BY PollStays
    <3>6. SelectTyped' BY SelectStays DEF Goto, Location
    <3> QED BY <3>2, <3>3, <3>4, <3>5, <3>6
  <2>17. CASE Shut(t)
    <3> USE <2>17 DEF Shut, life, args, poll, tree
    <3>1. RingType' BY RingStays
    <3>2. ChanType' BY <2>1 DEF ChanType, MarkClosed
    <3>3. ThreadType' BY DEF ThreadType, Location, Goto, MarkClosed, CloserOf
    <3>4. PollType' BY PollStays
    <3>5. SelectTyped' BY SelectStays DEF Goto, Location
    <3> QED BY <3>1, <3>2, <3>3, <3>4, <3>5
  <2>18. CASE Drop(t)
    <3> USE <2>18 DEF Drop, args, poll, tree
    <3>1. RingType' BY RingStays
    <3>2. ChanType' BY <2>1 DEF ChanType
    <3>3. ThreadType' BY DEF ThreadType, Location, Goto
    <3>4. PollType' BY PollStays
    <3>5. SelectTyped' BY SelectStays DEF Goto, Location
    <3> QED BY <3>1, <3>2, <3>3, <3>4, <3>5
  <2>19. CASE Leave(t)
    <3> USE <2>19 DEF Leave, life, args, poll
    <3>1. RingType' BY RingStays
    <3>2. ChanType' BY DEF ChanType
    <3>3. ThreadType' BY DEF ThreadType, Location, Goto
    <3>4. PollType' BY PollStays
    <3>5. SelectTyped' BY SelectStays DEF Goto, Location
    <3> QED BY <3>1, <3>2, <3>3, <3>4, <3>5
  <2>20. CASE ReleaseVariable(t)
    <3> USE <2>20 DEF ReleaseVariable, life, poll, tree
    <3>1. RingType' BY RingStays
    <3>2. ChanType' BY DEF ChanType
    <3>3. ThreadType' BY DEF ThreadType, Location, Goto, CloserOf
    <3>4. PollType' BY PollStays
    <3>5. SelectTyped' BY SelectStays DEF Goto, Location, CloserOf
    <3> QED BY <3>1, <3>2, <3>3, <3>4, <3>5
  <2> QED
    BY <2>2, <2>3, <2>4, <2>5, <2>6, <2>7, <2>8, <2>9, <2>10, <2>11, <2>12,
       <2>13, <2>14, <2>15, <2>16, <2>17, <2>18, <2>19, <2>20
    DEF Continue, Begin
<1> QED BY <1>u, <1>n

\* Every reachable state of every instance has its type: in particular the
\* ring indices of a channel never leave the storage pas_chan_new allocated.
THEOREM TypeCorrect == Spec => []TypeOK
<1>1. TypeInv => TypeOK
  BY DEF TypeInv
<1> QED BY <1>1, InitTypeInv, NextTypeInv, PTL DEF Spec

-----------------------------------------------------------------------------
(* The lock order.                                                         *)

LEMMA NextLockOrder == TypeInv /\ LockOrder /\ [Next]_vars => LockOrder'
<1> SUFFICES ASSUME TypeInv, LockOrder, [Next]_vars PROVE LockOrder'
  OBVIOUS
<1>t. /\ m \in [Chan -> Thread \cup {NoThread}] /\ activity \in Thread \cup {NoThread}
      /\ pc \in [Thread -> Location] /\ cur \in [Thread -> Chan]
      /\ after \in [Thread -> {"idle", "closer", "drop"}]
      /\ NoThread \notin Thread
      /\ \A t \in Thread : pc[t] = "selectTry" => ArmAt(t).chan \in Chan
  BY ArmTyped, PasChanAssumption
  DEF TypeInv, TypeOK, ChanType, ThreadType, SelectTyped, Arm
<1> USE <1>t
<1>u. CASE UNCHANGED vars
  BY <1>u DEF vars, args, LockOrder
<1>n. CASE Next
  <2> SUFFICES ASSUME NEW t \in Thread, Continue(t) \/ Begin(t) PROVE LockOrder'
    BY <1>n DEF Next
  <2> USE DEF At, Goto, args, LockOrder, Critical, Polling
  <2>1. CASE \E c \in Chan, v \in Value : Send(t, c, v)
    <3> PICK c \in Chan, v \in Value : Send(t, c, v)
      BY <2>1
    <3>1. \/ stopped'
          \/ /\ pc[t] = "idle" /\ m[c] = NoThread /\ m' = [m EXCEPT ![c] = t]
             /\ cur' = [cur EXCEPT ![t] = c] /\ pc' = [pc EXCEPT ![t] = "sendBody"]
             /\ UNCHANGED <<activity, stopped>>
      BY DEF Send, Call, RuntimeError, Lock
    <3> QED BY <3>1
  <2>2. CASE \E c \in Chan : Receive(t, c)
    <3> PICK c \in Chan : Receive(t, c)
      BY <2>2
    <3>1. \/ stopped'
          \/ /\ pc[t] = "idle" /\ m[c] = NoThread /\ m' = [m EXCEPT ![c] = t]
             /\ cur' = [cur EXCEPT ![t] = c] /\ pc' = [pc EXCEPT ![t] = "receiveBody"]
             /\ UNCHANGED <<activity, stopped>>
      BY DEF Receive, Call, RuntimeError, Lock
    <3> QED BY <3>1
  <2>3. CASE SendBody(t)
    <3>1. \/ stopped'
          \/ /\ pc[t] = "sendBody" /\ m' = [m EXCEPT ![cur[t]] = NoThread]
             /\ \E l \in {"sendWait", "signal"} : pc' = [pc EXCEPT ![t] = l]
             /\ UNCHANGED <<activity, cur, stopped>>
      BY <2>3 DEF SendBody, RuntimeError, Unlock
    <3> QED BY <3>1
  <2>4. CASE ReceiveBody(t)
    BY <2>4 DEF ReceiveBody, Unlock
  <2>5. CASE Resume(t)
    BY <2>5 DEF Resume, Lock
  <2>6. CASE SpuriousWakeup(t)
    BY <2>6 DEF SpuriousWakeup
  <2>7. CASE ActivitySignal(t)
    BY <2>7 DEF ActivitySignal
  <2>8. CASE \E s \in Selects : Select(t, s)
    <3>1. \/ stopped'
          \/ /\ pc[t] = "idle" /\ activity = NoThread /\ activity' = t
             /\ pc' = [pc EXCEPT ![t] = "selectTry"]
             /\ UNCHANGED <<m, cur, stopped>>
      BY <2>8 DEF Select, Call, RuntimeError, BeginRound
    <3> QED BY <3>1
  <2>9. CASE SelectTry(t)
    BY <2>9 DEF SelectTry, Lock
  <2>10. CASE SelectBody(t)
    <3>1. \/ stopped'
          \/ /\ pc[t] = "selectBody" /\ m' = [m EXCEPT ![cur[t]] = NoThread]
             /\ UNCHANGED <<cur, stopped>>
             /\ \/ /\ \E l \in {"selectFired", "selectTry"} : pc' = [pc EXCEPT ![t] = l]
                   /\ UNCHANGED activity
                \/ /\ pc' = [pc EXCEPT ![t] = "selectWait"] /\ activity' = NoThread
      BY <2>10 DEF SelectBody, NotReady, RuntimeError, Unlock
    <3> QED BY <3>1
  <2>11. CASE SelectFired(t)
    BY <2>11 DEF SelectFired
  <2>12. CASE SelectTimeout(t)
    <3>1. /\ pc[t] = "selectWait" /\ pc' = [pc EXCEPT ![t] = "idle"]
          /\ UNCHANGED <<m, activity, cur, stopped>>
      BY <2>12 DEF SelectTimeout
    <3> QED BY <3>1
  <2>13. CASE SelectAgain(t)
    BY <2>13 DEF SelectAgain, BeginRound
  <2>14. CASE \E u \in Thread, S \in SUBSET Chan : Spawn(t, u, S)
    BY <2>14 DEF Spawn
  <2>15. CASE \E c \in Chan : Release(t, c)
    BY <2>15 DEF Release, Call
  <2>16. CASE Shut(t)
    BY <2>16 DEF Shut, CloserOf
  <2>17. CASE Drop(t)
    BY <2>17 DEF Drop
  <2>18. CASE Leave(t)
    BY <2>18 DEF Leave
  <2>19. CASE ReleaseVariable(t)
    BY <2>19 DEF ReleaseVariable, CloserOf
  <2> QED
    BY <2>1, <2>2, <2>3, <2>4, <2>5, <2>6, <2>7, <2>8, <2>9, <2>10, <2>11,
       <2>12, <2>13, <2>14, <2>15, <2>16, <2>17, <2>18, <2>19
    DEF Continue, Begin
<1> QED BY <1>u, <1>n

\* A thread that holds a channel's mutex never waits for another lock, and
\* only a polling selector holds the activity mutex: the argument of the
\* comment above pas_activity, in the form in which it is true.
THEOREM LocksAreOrdered == Spec => []LockOrder
<1>1. Init => LockOrder
  BY PasChanAssumption DEF Init, LockOrder, Critical, Polling
<1> QED BY <1>1, InitTypeInv, NextTypeInv, NextLockOrder, PTL DEF Spec

-----------------------------------------------------------------------------
(* No wakeup of a selector is lost.  The invariant that makes it inductive *)
(* is about a round of polling under way: an arm already looked at was not *)
(* ready, or somebody who made it ready since has yet to broadcast, which  *)
(* it cannot do while the selector holds the activity mutex.               *)

\* The arm looked at in iteration j of the round t is in.
ArmNo(t, j) == (((start[t] + j) % TurnMod) % ArmCount(t)) + 1

\* Counting from any turn, n iterations look at every one of n arms.  This
\* is so when n divides 2^32, and otherwise until pas_select_turn wraps.
TurnCovers ==
  \A s \in Selects, x \in 0 .. TurnMod - 1 : \A i \in 1 .. Len(s.arms) :
    \E j \in 0 .. Len(s.arms) - 1 : (((x + j) % TurnMod) % Len(s.arms)) + 1 = i

\* The hypothesis is met by every program whose selects have 1, 2, 4, 8 ...
\* arms, TurnMod being 2^32.
LEMMA DivisorsCover ==
  ASSUME \A s \in Selects : \E q \in Nat \ {0} : TurnMod = q * Len(s.arms)
  PROVE  TurnCovers
<1> SUFFICES ASSUME NEW s \in Selects, NEW x \in 0 .. TurnMod - 1, NEW i \in 1 .. Len(s.arms)
             PROVE  \E j \in 0 .. Len(s.arms) - 1 :
                      (((x + j) % TurnMod) % Len(s.arms)) + 1 = i
  BY DEF TurnCovers
<1> DEFINE y == Len(s.arms)
           r == x % y
           j == IF r <= i - 1 THEN i - 1 - r ELSE i - 1 - r + y
<1>1. y \in Nat \ {0} /\ x \in Nat
  BY PasChanAssumption
<1>2. PICK q \in Nat \ {0} : TurnMod = q * y
  OBVIOUS
<1> HIDE DEF y
<1>3. r \in Nat /\ r < y /\ x \div y \in Nat /\ x = y * (x \div y) + r
  BY <1>1
<1>4. i - 1 \in Nat /\ i - 1 < y
  BY <1>1 DEF y
<1>5. j \in 0 .. y - 1 /\ r + j \in Nat
  BY <1>1, <1>3, <1>4
<1>6. (r + j) % y = i - 1
  <2> HIDE DEF r
  <2>1. CASE r <= i - 1
    <3>1. r + j = i - 1
      BY <2>1, <1>3, <1>4
    <3> QED BY <3>1, <1>1, <1>4, ModSmall
  <2>2. CASE ~(r <= i - 1)
    <3>1. r + j = i - 1 + y
      BY <2>2, <1>1, <1>3, <1>4
    <3> HIDE DEF j
    <3> DEFINE z == i - 1 + y
    <3>2. z \in Nat /\ y <= z /\ z < y + y /\ z - y = i - 1
      BY <1>1, <1>4
    <3> HIDE DEF z
    <3>3. z % y = z - y
      BY <3>2, <1>1, ModWrap
    <3> QED BY <3>1, <3>2, <3>3 DEF z
  <2> QED BY <2>1, <2>2
<1> HIDE DEF r, j
<1>7. (x + j) % y = (r + j) % y
  <2>1. (y * (x \div y) + (r + j)) % y = (r + j) % y
    BY <1>1, <1>3, <1>5, ModTurns
  <2>2. y * (x \div y) + (r + j) = x + j
    <3>1. y * (x \div y) \in Int /\ r \in Int /\ j \in Int
      BY <1>1, <1>3, <1>5
    <3> QED BY <3>1, <1>3
  <2> QED BY <2>1, <2>2
<1>8. x + j \in Nat
  BY <1>1, <1>5
<1>9. ((x + j) % TurnMod) % y = (x + j) % y
  BY <1>1, <1>2, <1>8, ModMod
<1>10. (((x + j) % TurnMod) % y) + 1 = i
  BY <1>6, <1>7, <1>9
<1> QED BY <1>5, <1>10 DEF y

Pending == \E u \in Thread : pc[u] \in {"signal", "selectFired"}

RoundInv ==
  \A t \in Thread :
    /\ pc[t] \in {"selectTry", "selectBody"} =>
         /\ k[t] < ArmCount(t)
         /\ \A j \in Nat : j < k[t] /\ Ready(sel[t].arms[ArmNo(t, j)]) => Pending
    /\ pc[t] = "selectBody" => cur[t] = ArmAt(t).chan

SelectInv == RoundInv /\ NoLostSelectWakeup

\* A step that makes no arm ready and is no broadcast, of a thread that is
\* not selecting afterwards.
LEMMA QuietStep ==
  ASSUME TypeInv, SelectInv, NEW t \in Thread, NEW l \in Location,
         l \notin {"selectTry", "selectBody", "selectWait"},
         pc[t] \notin {"signal", "selectFired"},
         pc' = [pc EXCEPT ![t] = l],
         asleep' \subseteq asleep \cup {t},
         \A u \in Thread \ {t} : cur'[u] = cur[u],
         UNCHANGED <<n, closed, sel, start, k>>
  PROVE  SelectInv'
<1>1. pc \in [Thread -> Location] BY DEF TypeInv, TypeOK, ThreadType
<1>2. Pending => Pending'
  BY <1>1 DEF Pending
<1>3. \A arm : Ready(arm)' = Ready(arm)
  BY DEF Ready
<1>4. RoundInv'
  BY <1>1, <1>2 DEF SelectInv, RoundInv, ArmNo, ArmCount, ArmAt, ArmIndex, Ready
<1>5. NoLostSelectWakeup'
  BY <1>1, <1>2 DEF SelectInv, NoLostSelectWakeup, Pending, Selecting, AnyReady, Ready
<1> QED BY <1>4, <1>5 DEF SelectInv

\* A step after which somebody owes a broadcast.
LEMMA LoudStep ==
  ASSUME TypeInv, SelectInv, NEW t \in Thread, NEW l \in {"signal", "selectFired"},
         pc' = [pc EXCEPT ![t] = l],
         \A u \in Thread \ {t} : cur'[u] = cur[u],
         UNCHANGED <<sel, start, k>>
  PROVE  SelectInv'
<1>1. pc \in [Thread -> Location] BY DEF TypeInv, TypeOK, ThreadType
<1>2. Pending'
  BY <1>1 DEF Pending
<1>3. RoundInv'
  BY <1>1, <1>2 DEF SelectInv, RoundInv, ArmNo, ArmCount, ArmAt, ArmIndex
<1>4. NoLostSelectWakeup'
  BY <1>2 DEF NoLostSelectWakeup, Pending
<1> QED BY <1>3, <1>4 DEF SelectInv

\* A round begins, or the lock of the next arm is taken.
LEMMA RoundBegins ==
  ASSUME TypeInv, SelectInv, NEW t \in Thread, BeginRound(t),
         pc[t] \notin {"signal", "selectFired"}, sel'[t] \in Selects,
         \A u \in Thread \ {t} : sel'[u] = sel[u],
         UNCHANGED <<n, closed, asleep, cur>>
  PROVE  SelectInv'
<1>1. /\ pc \in [Thread -> Location] /\ k \in [Thread -> Nat]
      /\ start \in [Thread -> 0 .. TurnMod - 1]
  BY DEF TypeInv, TypeOK, ThreadType, PollType
<1>2. /\ pc' = [pc EXCEPT ![t] = "selectTry"] /\ k' = [k EXCEPT ![t] = 0]
      /\ start' = [start EXCEPT ![t] = turn[t]]
  BY DEF BeginRound, Goto
<1>3. Pending => Pending'
  BY <1>1, <1>2 DEF Pending
<1>4. RoundInv'
  <2> SUFFICES ASSUME NEW u \in Thread
               PROVE  (/\ pc[u] \in {"selectTry", "selectBody"} =>
                         /\ k[u] < ArmCount(u)
                         /\ \A j \in Nat :
                              j < k[u] /\ Ready(sel[u].arms[ArmNo(u, j)]) => Pending
                       /\ pc[u] = "selectBody" => cur[u] = ArmAt(u).chan)'
    BY DEF RoundInv
  <2>1. CASE u = t
    <3>1. Len(sel'[t].arms) \in Nat \ {0}
      BY PasChanAssumption
    <3> QED BY <3>1, <2>1, <1>1, <1>2 DEF ArmCount
  <2>2. CASE u # t
    BY <2>2, <1>1, <1>2, <1>3
    DEF SelectInv, RoundInv, ArmNo, ArmCount, ArmAt, ArmIndex, Ready
  <2> QED BY <2>1, <2>2
<1>5. NoLostSelectWakeup'
  <2> SUFFICES ASSUME NEW u \in Thread, (u \in Selecting)', AnyReady(u)'
               PROVE  Pending'
    BY <1>1 DEF NoLostSelectWakeup, Pending, Selecting, TypeInv, TypeOK, ThreadType
  <2>1. u # t /\ u \in Selecting
    BY <1>1, <1>2 DEF Selecting
  <2>2. AnyReady(u)
    BY <2>1 DEF AnyReady, Ready
  <2> QED BY <1>3, <2>1, <2>2 DEF SelectInv, NoLostSelectWakeup, Pending
<1> QED BY <1>4, <1>5 DEF SelectInv

\* The lock of the next arm's channel is taken.
LEMMA TryStep ==
  ASSUME TypeInv, SelectInv, NEW t \in Thread, SelectTry(t)
  PROVE  SelectInv'
<1>1. pc \in [Thread -> Location] /\ cur \in [Thread -> Chan]
  BY DEF TypeInv, TypeOK, ThreadType
<1>2. /\ pc[t] = "selectTry" /\ pc' = [pc EXCEPT ![t] = "selectBody"]
      /\ cur' = [cur EXCEPT ![t] = ArmAt(t).chan]
      /\ UNCHANGED <<n, closed, asleep, sel, start, k>>
  BY DEF SelectTry, At, Goto, ring, poll
<1>3. Pending => Pending'
  BY <1>1, <1>2 DEF Pending
<1>4. RoundInv'
  BY <1>1, <1>2, <1>3
  DEF SelectInv, RoundInv, ArmNo, ArmCount, ArmAt, ArmIndex, Ready
<1>5. NoLostSelectWakeup'
  BY <1>1, <1>2, <1>3
  DEF SelectInv, NoLostSelectWakeup, Pending, Selecting, AnyReady, Ready
<1> QED BY <1>4, <1>5 DEF SelectInv

\* An arm is found not ready: the next one, or the wait when all were looked at.
LEMMA NotReadyStep ==
  ASSUME TurnCovers, TypeInv, SelectInv, NEW t \in Thread, NotReady(t),
         pc[t] = "selectBody", ~Ready(ArmAt(t)), UNCHANGED <<closed, cur, sel>>
  PROVE  SelectInv'
<1>1. /\ pc \in [Thread -> Location] /\ k \in [Thread -> Nat]
      /\ start \in [Thread -> 0 .. TurnMod - 1] /\ sel[t] \in Selects
      /\ asleep \subseteq Thread
  BY DEF TypeInv, TypeOK, ThreadType, PollType, SelectTyped
<1>2. /\ k' = [k EXCEPT ![t] = k[t] + 1]
      /\ UNCHANGED <<n, start>>
      /\ \/ /\ k[t] + 1 < ArmCount(t)
            /\ pc' = [pc EXCEPT ![t] = "selectTry"] /\ UNCHANGED asleep
         \/ /\ ~(k[t] + 1 < ArmCount(t))
            /\ pc' = [pc EXCEPT ![t] = "selectWait"] /\ asleep' = asleep \cup {t}
  BY DEF NotReady, Goto, ring
<1>3. Pending => Pending'
  BY <1>1, <1>2 DEF Pending
<1>4. \A j \in Nat : j < k[t] + 1 /\ Ready(sel[t].arms[ArmNo(t, j)]) => Pending
  <2> SUFFICES ASSUME NEW j \in Nat, j < k[t] + 1, Ready(sel[t].arms[ArmNo(t, j)])
               PROVE  Pending
    OBVIOUS
  <2>1. CASE j = k[t]
    BY <2>1 DEF ArmAt, ArmIndex, ArmNo
  <2>2. CASE j < k[t]
    BY <2>2 DEF SelectInv, RoundInv
  <2> QED BY <2>1, <2>2, <1>1
<1>5. \A u \in Thread \ {t} : sel'[u] = sel[u] /\ k'[u] = k[u] /\ pc'[u] = pc[u]
  BY <1>1, <1>2
<1>6. RoundInv'
  <2> SUFFICES ASSUME NEW u \in Thread
               PROVE  (/\ pc[u] \in {"selectTry", "selectBody"} =>
                         /\ k[u] < ArmCount(u)
                         /\ \A j \in Nat :
                              j < k[u] /\ Ready(sel[u].arms[ArmNo(u, j)]) => Pending
                       /\ pc[u] = "selectBody" => cur[u] = ArmAt(u).chan)'
    BY DEF RoundInv
  <2>1. CASE u = t
    BY <2>1, <1>1, <1>2, <1>3, <1>4 DEF ArmCount, ArmNo, Ready
  <2>2. CASE u # t
    BY <2>2, <1>1, <1>2, <1>3, <1>5
    DEF SelectInv, RoundInv, ArmNo, ArmCount, ArmAt, ArmIndex, Ready
  <2> QED BY <2>1, <2>2
<1>7. NoLostSelectWakeup'
  <2> SUFFICES ASSUME NEW u \in Thread, (u \in Selecting)', AnyReady(u)'
               PROVE  Pending'
    BY <1>1, <1>2 DEF NoLostSelectWakeup, Pending, Selecting
  <2>1. AnyReady(u)
    BY <1>2 DEF AnyReady, Ready
  <2>2. CASE u # t
    <3>1. u \in Selecting
      BY <2>2, <1>1, <1>2, <1>5 DEF Selecting
    <3> QED BY <3>1, <2>1, <1>3 DEF SelectInv, NoLostSelectWakeup, Pending
  <2>3. CASE u = t
    <3>1. ~(k[t] + 1 < ArmCount(t))
      BY <2>3, <1>1, <1>2 DEF Selecting
    <3>2. PICK i \in DOMAIN sel[t].arms : Ready(sel[t].arms[i])
      BY <2>1, <2>3 DEF AnyReady
    <3>3. i \in 1 .. Len(sel[t].arms) /\ Len(sel[t].arms) \in Nat
      BY <1>1, PasChanAssumption
    <3>4. PICK j \in 0 .. Len(sel[t].arms) - 1 :
            (((start[t] + j) % TurnMod) % Len(sel[t].arms)) + 1 = i
      BY <1>1, <3>3 DEF TurnCovers
    <3>5. j \in Nat /\ j < k[t] + 1
      BY <3>1, <3>3, <3>4, <1>1 DEF ArmCount
    <3>6. ArmNo(t, j) = i
      BY <3>4 DEF ArmNo, ArmCount
    <3> QED BY <3>2, <3>5, <3>6, <1>3, <1>4
  <2> QED BY <2>2, <2>3
<1> QED BY <1>6, <1>7 DEF SelectInv

\* A broadcast leaves no selector asleep, and happens while none is polling.
LEMMA BroadcastStep ==
  ASSUME TypeInv, SelectInv, NEW t \in Thread, NEW l \in Location,
         l \notin {"selectTry", "selectBody", "selectWait"},
         pc' = [pc EXCEPT ![t] = l],
         \A u \in Thread \ {t} : pc[u] \notin {"selectTry", "selectBody"},
         asleep' = asleep \ Selecting
  PROVE  SelectInv'
<1>1. pc \in [Thread -> Location] /\ asleep \subseteq Thread
  BY DEF TypeInv, TypeOK, ThreadType
<1>2. \A u \in Thread : pc'[u] \notin {"selectTry", "selectBody"}
  BY <1>1
<1>3. Selecting' = {}
  BY <1>1 DEF Selecting
<1> QED BY <1>2, <1>3 DEF SelectInv, RoundInv, NoLostSelectWakeup

\* Nothing that the invariant reads has changed.
LEMMA StillStep ==
  ASSUME SelectInv, UNCHANGED <<pc, asleep, cur, n, closed, sel, start, k>>
  PROVE  SelectInv'
BY DEF SelectInv, RoundInv, NoLostSelectWakeup, Pending, Selecting, AnyReady,
   Ready, ArmNo, ArmCount, ArmAt, ArmIndex

LEMMA NextSelectInv ==
  ASSUME TurnCovers
  PROVE  TypeInv /\ LockOrder /\ SelectInv /\ [Next]_vars => SelectInv'
<1> SUFFICES ASSUME TypeInv, LockOrder, SelectInv, [Next]_vars PROVE SelectInv'
  OBVIOUS
<1>t. /\ pc \in [Thread -> Location] /\ cur \in [Thread -> Chan]
      /\ after \in [Thread -> {"idle", "closer", "drop"}]
      /\ asleep \subseteq Thread
      /\ NoThread \notin Thread
  BY PasChanAssumption DEF TypeInv, TypeOK, ThreadType
<1>u. CASE UNCHANGED vars
  BY <1>u, StillStep DEF vars, ring, args, poll
<1>n. CASE Next
  <2> SUFFICES ASSUME NEW t \in Thread, Continue(t) \/ Begin(t) PROVE SelectInv'
    BY <1>n DEF Next
  <2> USE DEF At, Goto, args, ring, poll
  <2>1. CASE \E c \in Chan, v \in Value : Send(t, c, v)
    <3>1. \/ UNCHANGED <<pc, asleep, cur, n, closed, sel, start, k>>
          \/ /\ pc[t] = "idle" /\ pc' = [pc EXCEPT ![t] = "sendBody"]
             /\ \E c \in Chan : cur' = [cur EXCEPT ![t] = c]
             /\ UNCHANGED <<asleep, n, closed, sel, start, k>>
      BY <2>1 DEF Send, Call, RuntimeError
    <3>2. \A u \in Thread \ {t} : cur'[u] = cur[u]
      BY <3>1, <1>t
    <3> QED BY <3>1, <3>2, QuietStep, StillStep DEF Location
  <2>2. CASE \E c \in Chan : Receive(t, c)
    <3>1. \/ UNCHANGED <<pc, asleep, cur, n, closed, sel, start, k>>
          \/ /\ pc[t] = "idle" /\ pc' = [pc EXCEPT ![t] = "receiveBody"]
             /\ \E c \in Chan : cur' = [cur EXCEPT ![t] = c]
             /\ UNCHANGED <<asleep, n, closed, sel, start, k>>
      BY <2>2 DEF Receive, Call, RuntimeError
    <3>2. \A u \in Thread \ {t} : cur'[u] = cur[u]
      BY <3>1, <1>t
    <3> QED BY <3>1, <3>2, QuietStep, StillStep DEF Location
  <2>3. CASE SendBody(t)
    <3>1. /\ pc[t] = "sendBody" /\ UNCHANGED <<cur, sel, start, k>>
          /\ \/ UNCHANGED <<pc, asleep, n, closed>>
             \/ /\ pc' = [pc EXCEPT ![t] = "sendWait"] /\ asleep' = asleep \cup {t}
                /\ UNCHANGED <<n, closed>>
             \/ pc' = [pc EXCEPT ![t] = "signal"]
      BY <2>3 DEF SendBody, RuntimeError
    <3> QED BY <3>1, QuietStep, LoudStep, StillStep DEF Location
  <2>4. CASE ReceiveBody(t)
    <3>1. /\ pc[t] = "receiveBody" /\ UNCHANGED <<cur, sel, start, k>>
          /\ \/ /\ \E l \in {"receiveWait", "idle"} : pc' = [pc EXCEPT ![t] = l]
                /\ asleep' \subseteq asleep \cup {t}
                /\ UNCHANGED <<n, closed>>
             \/ pc' = [pc EXCEPT ![t] = "signal"]
      BY <2>4 DEF ReceiveBody
    <3> QED BY <3>1, QuietStep, LoudStep DEF Location
  <2>5. CASE Resume(t)
    <3>1. /\ pc[t] \in {"sendWait", "receiveWait"}
          /\ \E l \in {"sendBody", "receiveBody"} : pc' = [pc EXCEPT ![t] = l]
          /\ UNCHANGED <<asleep, cur, n, closed, sel, start, k>>
      BY <2>5 DEF Resume
    <3> QED BY <3>1, QuietStep DEF Location
  <2>6. CASE SpuriousWakeup(t)
    <3>1. asleep' \subseteq asleep /\ UNCHANGED <<pc, cur, n, closed, sel, start, k>>
      BY <2>6 DEF SpuriousWakeup
    <3> QED BY <3>1 DEF SelectInv, RoundInv, NoLostSelectWakeup, Pending,
              Selecting, AnyReady, Ready, ArmNo, ArmCount, ArmAt, ArmIndex
  <2>7. CASE ActivitySignal(t)
    <3>1. \A u \in Thread \ {t} : pc[u] \notin {"selectTry", "selectBody"}
      BY <2>7, <1>t DEF ActivitySignal, LockOrder, Polling
    <3> QED BY <2>7, <3>1, <1>t, BroadcastStep DEF ActivitySignal, Location
  <2>8. CASE \E s \in Selects : Select(t, s)
    <3> PICK s \in Selects : Select(t, s)
      BY <2>8
    <3>1. \/ UNCHANGED <<pc, asleep, cur, n, closed, sel, start, k>>
          \/ /\ pc[t] = "idle" /\ BeginRound(t) /\ sel' = [sel EXCEPT ![t] = s]
             /\ UNCHANGED <<asleep, cur, n, closed>>
      BY DEF Select, Call, RuntimeError
    <3>2. sel \in [Thread -> Selects \cup {NoSelect}]
      BY DEF TypeInv, TypeOK, PollType
    <3> QED BY <3>1, <3>2, RoundBegins, StillStep
  <2>9. CASE SelectTry(t)
    BY <2>9, TryStep
  <2>10. CASE SelectBody(t)
    <3>1. cur[t] = ArmAt(t).chan
      BY <2>10 DEF SelectBody, SelectInv, RoundInv
    <3>2. /\ pc[t] = "selectBody" /\ UNCHANGED <<cur, sel>>
          /\ \/ UNCHANGED <<pc, asleep, n, closed, start, k>>
             \/ pc' = [pc EXCEPT ![t] = "selectFired"] /\ UNCHANGED <<start, k>>
             \/ NotReady(t) /\ ~Ready(ArmAt(t)) /\ UNCHANGED closed
      <4>1. n[cur[t]] \in Nat /\ Cap[cur[t]] \in Nat
        BY <1>t, CapNat DEF TypeInv, TypeOK, RingType
      <4>2. /\ pc[t] = "selectBody" /\ UNCHANGED <<cur, sel>>
            /\ \/ UNCHANGED <<pc, asleep, n, closed, start, k>>
               \/ pc' = [pc EXCEPT ![t] = "selectFired"] /\ UNCHANGED <<start, k>>
               \/ /\ NotReady(t) /\ UNCHANGED closed /\ ~closed[cur[t]]
                  /\ \/ ArmAt(t).kind = "receive" /\ n[cur[t]] = 0
                     \/ ArmAt(t).kind = "send" /\ n[cur[t]] = Cap[cur[t]]
        BY <2>10 DEF SelectBody, RuntimeError, Drained
      <4>3. (\/ ArmAt(t).kind = "receive" /\ n[cur[t]] = 0
             \/ ArmAt(t).kind = "send" /\ n[cur[t]] = Cap[cur[t]])
            /\ ~closed[cur[t]] => ~Ready(ArmAt(t))
        BY <3>1, <4>1 DEF Ready
      <4> QED BY <4>2, <4>3
    <3> QED BY <3>2, StillStep, LoudStep, NotReadyStep
  <2>11. CASE SelectFired(t)
    <3>1. \A u \in Thread \ {t} : pc[u] \notin {"selectTry", "selectBody"}
      BY <2>11, <1>t DEF SelectFired, LockOrder, Polling
    <3> QED BY <2>11, <3>1, BroadcastStep DEF SelectFired, Location
  <2>12. CASE SelectTimeout(t)
    <3>1. /\ pc[t] = "selectWait" /\ pc' = [pc EXCEPT ![t] = "idle"]
          /\ asleep' \subseteq asleep
          /\ UNCHANGED <<cur, n, closed, sel, start, k>>
      BY <2>12 DEF SelectTimeout
    <3> QED BY <3>1, QuietStep DEF Location
  <2>13. CASE SelectAgain(t)
    <3>1. sel[t] \in Selects
      BY <2>13 DEF SelectAgain, TypeInv, SelectTyped
    <3> QED BY <2>13, <3>1, RoundBegins DEF SelectAgain
  <2>14. CASE \E u \in Thread, S \in SUBSET Chan : Spawn(t, u, S)
    <3> PICK u \in Thread, S \in SUBSET Chan : Spawn(t, u, S)
      BY <2>14
    <3>1. /\ pc[u] = "new" /\ pc' = [pc EXCEPT ![u] = "idle"]
          /\ UNCHANGED <<asleep, cur, n, closed, sel, start, k>>
      BY DEF Spawn
    <3> QED BY <3>1, QuietStep DEF Location
  <2>15. CASE \E c \in Chan : Release(t, c)
    <3>1. /\ pc[t] = "idle" /\ pc' = [pc EXCEPT ![t] = "shut"]
          /\ \E c \in Chan : cur' = [cur EXCEPT ![t] = c]
          /\ UNCHANGED <<asleep, n, closed, sel, start, k>>
      BY <2>15 DEF Release, Call
    <3>2. \A u \in Thread \ {t} : cur'[u] = cur[u]
      BY <3>1, <1>t
    <3> QED BY <3>1, <3>2, QuietStep DEF Location
  <2>16. CASE Shut(t)
    BY <2>16, LoudStep DEF Shut
  <2>17. CASE Drop(t)
    <3>1. /\ pc[t] = "drop"
          /\ \E l \in {"leaving", "idle"} : pc' = [pc EXCEPT ![t] = l]
          /\ UNCHANGED <<asleep, cur, n, closed, sel, start, k>>
      BY <2>17 DEF Drop
    <3> QED BY <3>1, QuietStep DEF Location
  <2>18. CASE Leave(t)
    <3>1. /\ pc[t] = "idle" /\ pc' = [pc EXCEPT ![t] = "leaving"]
          /\ UNCHANGED <<asleep, cur, n, closed, sel, start, k>>
      BY <2>18 DEF Leave
    <3> QED BY <3>1, QuietStep DEF Location
  <2>19. CASE ReleaseVariable(t)
    <3>1. /\ pc[t] = "leaving"
          /\ \E l \in {"closer", "drop", "done"} : pc' = [pc EXCEPT ![t] = l]
          /\ UNCHANGED cur \/ \E c \in Chan : cur' = [cur EXCEPT ![t] = c]
          /\ UNCHANGED <<asleep, n, closed, sel, start, k>>
      BY <2>19, <1>t DEF ReleaseVariable, CloserOf, TypeInv, TypeOK, ThreadType
    <3>2. \A u \in Thread \ {t} : cur'[u] = cur[u]
      BY <3>1, <1>t
    <3> QED BY <3>1, <3>2, QuietStep DEF Location
  <2> QED
    BY <2>1, <2>2, <2>3, <2>4, <2>5, <2>6, <2>7, <2>8, <2>9, <2>10, <2>11,
       <2>12, <2>13, <2>14, <2>15, <2>16, <2>17, <2>18, <2>19
    DEF Continue, Begin
<1> QED BY <1>u, <1>n

\* However many threads send, receive, close and select, a selector never
\* sleeps on a ready arm with nobody about to wake it, provided a round looks
\* at every arm: the claim of the comment above pas_activity.
THEOREM WakeupsAreNotLost ==
  ASSUME TurnCovers PROVE Spec => []NoLostSelectWakeup
<1>1. Init => SelectInv
  BY DEF Init, SelectInv, RoundInv, NoLostSelectWakeup, Selecting
<1>2. Init => LockOrder
  BY PasChanAssumption DEF Init, LockOrder, Critical, Polling
<1>3. TypeInv /\ LockOrder /\ SelectInv /\ [Next]_vars => SelectInv'
  BY NextSelectInv
<1>4. SelectInv => NoLostSelectWakeup
  BY DEF SelectInv
<1> QED
  BY <1>1, <1>2, <1>3, <1>4, InitTypeInv, NextTypeInv, NextLockOrder, PTL DEF Spec
-----------------------------------------------------------------------------
(* The life of a channel.  The count is right because a task holds nothing *)
(* before it is spawned and a reference is dropped only by a thread that   *)
(* holds it; nothing is used after free because a statement under way      *)
(* keeps its channel in a variable.                                        *)

Holders(c) == {t \in Thread : c \in held[t]}

NewHoldsNothing == \A t \in Thread : pc[t] = "new" => held[t] = {}
UsesAreHeld == \A t \in Thread : Uses(t) \subseteq held[t]
LifeInv == RefsCountHolders /\ NewHoldsNothing /\ UsesAreHeld

LEMMA HoldersFinite ==
  \A c \in Chan : IsFiniteSet(Holders(c)) /\ Cardinality(Holders(c)) \in Nat
<1> SUFFICES ASSUME NEW c \in Chan
             PROVE  IsFiniteSet(Holders(c)) /\ Cardinality(Holders(c)) \in Nat
  OBVIOUS
<1>1. IsFiniteSet(Holders(c))
  BY PasChanAssumption, FS_Subset DEF Holders
<1> QED BY <1>1, FS_CardinalityType

LEMMA InitLife == Init => LifeInv
<1> SUFFICES ASSUME Init PROVE LifeInv
  OBVIOUS
<1>1. RefsCountHolders
  <2> SUFFICES ASSUME NEW c \in Chan
               PROVE  /\ refs[c] = Cardinality(Holders(c))
                      /\ freed[c] <=> refs[c] = 0
    BY DEF RefsCountHolders, Holders
  <2>1. Holders(c) = {Main}
    BY PasChanAssumption DEF Init, Holders
  <2>2. Cardinality({Main}) = 1
    BY FS_Singleton
  <2> QED BY <2>1, <2>2 DEF Init
<1>2. NewHoldsNothing
  BY DEF Init, NewHoldsNothing
<1>3. UsesAreHeld
  BY DEF Init, UsesAreHeld, Uses
<1> QED BY <1>1, <1>2, <1>3 DEF LifeInv

\* A step that neither lends nor drops a channel keeps the count.
LEMMA CountStays ==
  ASSUME RefsCountHolders, UNCHANGED life PROVE RefsCountHolders'
BY DEF RefsCountHolders, life

\* A spawn adds one holder, which held nothing, to every channel it lends.
LEMMA SpawnCounts ==
  ASSUME TypeInv, LifeInv, NEW t \in Thread, NEW u \in Thread,
         NEW S \in SUBSET Chan, Spawn(t, u, S)
  PROVE  RefsCountHolders'
<1>t. /\ refs \in [Chan -> Int] /\ freed \in [Chan -> BOOLEAN]
      /\ held \in [Thread -> SUBSET Chan]
  BY DEF TypeInv, TypeOK, ChanType, ThreadType
<1>1. /\ held[u] = {} /\ S \subseteq held[t] /\ freed' = freed
      /\ held' = [held EXCEPT ![u] = S]
      /\ refs' = [c \in Chan |-> IF c \in S THEN refs[c] + 1 ELSE refs[c]]
  BY DEF Spawn, LifeInv, NewHoldsNothing, Referenced
<1> SUFFICES ASSUME NEW c \in Chan
             PROVE  /\ refs'[c] = Cardinality(Holders(c)')
                    /\ freed'[c] <=> refs'[c] = 0
  BY DEF RefsCountHolders, Holders
<1>2. /\ refs[c] = Cardinality(Holders(c)) /\ (freed[c] <=> refs[c] = 0)
      /\ IsFiniteSet(Holders(c)) /\ Cardinality(Holders(c)) \in Nat
  BY HoldersFinite DEF LifeInv, RefsCountHolders, Holders
<1>3. CASE c \in S
  <2>1. Holders(c)' = Holders(c) \cup {u} /\ u \notin Holders(c) /\ t \in Holders(c)
    BY <1>3, <1>1, <1>t DEF Holders
  <2>2. Cardinality(Holders(c)') = Cardinality(Holders(c)) + 1
    <3>1. Cardinality(Holders(c) \cup {u}) =
            IF u \in Holders(c) THEN Cardinality(Holders(c)) ELSE Cardinality(Holders(c)) + 1
      BY <1>2, FS_AddElement
    <3> QED BY <3>1, <2>1
  <2>3. Cardinality(Holders(c)) # 0
    BY <2>1, <1>2, FS_EmptySet
  <2> QED BY <1>3, <2>2, <2>3, <1>1, <1>2, <1>t
<1>4. CASE c \notin S
  <2>1. Holders(c)' = Holders(c)
    BY <1>4, <1>1, <1>t DEF Holders
  <2> QED BY <1>4, <2>1, <1>1, <1>2, <1>t
<1> QED BY <1>3, <1>4

\* A drop takes one holder away, and frees the channel with the last.
LEMMA DropCounts ==
  ASSUME TypeInv, LifeInv, NEW t \in Thread, Drop(t)
  PROVE  RefsCountHolders'
<1>t. /\ refs \in [Chan -> Int] /\ freed \in [Chan -> BOOLEAN]
      /\ held \in [Thread -> SUBSET Chan] /\ cur[t] \in Chan
  BY DEF TypeInv, TypeOK, ChanType, ThreadType
<1>1. /\ cur[t] \in held[t]
      /\ held' = [held EXCEPT ![t] = held[t] \ {cur[t]}]
      /\ refs' = [refs EXCEPT ![cur[t]] = refs[cur[t]] - 1]
      /\ freed' = [freed EXCEPT ![cur[t]] = freed[cur[t]] \/ refs[cur[t]] = 1]
  BY DEF Drop, At, LastRef, LifeInv, UsesAreHeld, Uses
<1> SUFFICES ASSUME NEW c \in Chan
             PROVE  /\ refs'[c] = Cardinality(Holders(c)')
                    /\ freed'[c] <=> refs'[c] = 0
  BY DEF RefsCountHolders, Holders
<1>2. /\ refs[c] = Cardinality(Holders(c)) /\ (freed[c] <=> refs[c] = 0)
      /\ IsFiniteSet(Holders(c)) /\ Cardinality(Holders(c)) \in Nat
  BY HoldersFinite DEF LifeInv, RefsCountHolders, Holders
<1>3. CASE c = cur[t]
  <2>1. Holders(c)' = Holders(c) \ {t} /\ t \in Holders(c)
    BY <1>3, <1>1, <1>t DEF Holders
  <2>2. Cardinality(Holders(c)') = Cardinality(Holders(c)) - 1
    <3>1. Cardinality(Holders(c) \ {t}) =
            IF t \in Holders(c) THEN Cardinality(Holders(c)) - 1 ELSE Cardinality(Holders(c))
      BY <1>2, FS_RemoveElement
    <3> QED BY <3>1, <2>1
  <2>3. Cardinality(Holders(c)) # 0
    BY <2>1, <1>2, FS_EmptySet
  <2>4. refs'[c] = refs[c] - 1
    BY <1>1, <1>3, <1>t
  <2>5. freed'[c] = (freed[c] \/ refs[c] = 1)
    BY <1>1, <1>3, <1>t
  <2>6. ~freed[c]
    BY <2>3, <1>2
  <2>7. freed'[c] <=> refs[c] = 1
    BY <2>5, <2>6
  <2>8. refs[c] = 1 <=> refs'[c] = 0
    BY <2>4, <1>t
  <2> QED BY <2>2, <2>4, <2>7, <2>8, <1>2
<1>4. CASE c # cur[t]
  <2>1. Holders(c)' = Holders(c)
    BY <1>4, <1>1, <1>t DEF Holders
  <2>2. refs'[c] = refs[c] /\ freed'[c] = freed[c]
    BY <1>1, <1>4, <1>t
  <2> QED BY <2>1, <2>2, <1>2
<1> QED BY <1>3, <1>4
\* Only thread t moves, and what it uses afterwards it holds.
LEMMA OwnStep ==
  ASSUME NewHoldsNothing, UsesAreHeld, NEW t \in Thread,
         \A u \in Thread \ {t} :
           /\ pc'[u] = pc[u] /\ cur'[u] = cur[u] /\ sel'[u] = sel[u]
           /\ after'[u] = after[u] /\ held'[u] = held[u],
         pc'[t] # "new", Uses(t)' \subseteq held'[t]
  PROVE  NewHoldsNothing' /\ UsesAreHeld'
<1>1. NewHoldsNothing'
  BY DEF NewHoldsNothing
<1>2. ASSUME NEW u \in Thread \ {t} PROVE Uses(u)' = Uses(u)
  <2>1. /\ pc'[u] = pc[u] /\ cur'[u] = cur[u] /\ sel'[u] = sel[u]
        /\ after'[u] = after[u]
    OBVIOUS
  <2>2. {sel'[u].arms[i].chan : i \in DOMAIN sel'[u].arms}
          = {sel[u].arms[i].chan : i \in DOMAIN sel[u].arms}
    BY <2>1
  <2> QED BY <2>1, <2>2, SMT DEF Uses
<1> QED BY <1>1, <1>2 DEF UsesAreHeld

\* A statement under way goes on: it uses what it used, or nothing.
LEMMA GoesOn ==
  ASSUME TypeInv, LifeInv, NEW t \in Thread, NEW l \in Location \ {"new"},
         pc' = [pc EXCEPT ![t] = l],
         after' = after \/ \E a : after' = [after EXCEPT ![t] = a],
         \E c \in Chan : cur' = [cur EXCEPT ![t] = c],
         UNCHANGED <<sel, life>>,
         Uses(t)' \subseteq held[t]
  PROVE  LifeInv'
<1>t. /\ pc \in [Thread -> Location] /\ cur \in [Thread -> Chan]
      /\ after \in [Thread -> {"idle", "closer", "drop"}]
  BY DEF TypeInv, TypeOK, ThreadType
<1>1. RefsCountHolders'
  BY CountStays DEF LifeInv
<1>2. \A u \in Thread \ {t} :
        /\ pc'[u] = pc[u] /\ cur'[u] = cur[u] /\ sel'[u] = sel[u]
        /\ after'[u] = after[u] /\ held'[u] = held[u]
  BY <1>t DEF life
<1>3. pc'[t] # "new" /\ Uses(t)' \subseteq held'[t]
  BY <1>t DEF life
<1>4. NewHoldsNothing' /\ UsesAreHeld'
  BY <1>2, <1>3, OwnStep DEF LifeInv
<1> QED BY <1>1, <1>4 DEF LifeInv

LEMMA LifeStays ==
  ASSUME LifeInv, UNCHANGED <<pc, cur, sel, after, life>> PROVE LifeInv'
<1>1. RefsCountHolders'
  BY CountStays DEF LifeInv
<1>2. \A t \in Thread : Uses(t)' = Uses(t)
  BY DEF Uses
<1>3. NewHoldsNothing' /\ UsesAreHeld'
  BY <1>2 DEF LifeInv, NewHoldsNothing, UsesAreHeld, life
<1> QED BY <1>1, <1>3 DEF LifeInv

LEMMA NextLife == TypeInv /\ LifeInv /\ [Next]_vars => LifeInv'
<1> SUFFICES ASSUME TypeInv, LifeInv, [Next]_vars PROVE LifeInv'
  OBVIOUS
<1>t. /\ pc \in [Thread -> Location] /\ cur \in [Thread -> Chan]
      /\ after \in [Thread -> {"idle", "closer", "drop"}]
      /\ held \in [Thread -> SUBSET Chan]
      /\ sel \in [Thread -> Selects \cup {NoSelect}]
  BY DEF TypeInv, TypeOK, ThreadType, PollType
<1>u. CASE UNCHANGED vars
  BY <1>u, LifeStays DEF vars, args
<1>n. CASE Next
  <2> SUFFICES ASSUME NEW t \in Thread, Continue(t) \/ Begin(t) PROVE LifeInv'
    BY <1>n DEF Next
  <2> USE DEF At, Goto, args
  <2>h. Uses(t) \subseteq held[t] /\ cur = [cur EXCEPT ![t] = cur[t]] /\ cur[t] \in Chan
    BY <1>t DEF LifeInv, UsesAreHeld
  <2>1. CASE \E c \in Chan, v \in Value : Send(t, c, v)
    <3> PICK c \in Chan, v \in Value : Send(t, c, v)
      BY <2>1
    <3>1. \/ UNCHANGED <<pc, cur, sel, after, life>>
          \/ /\ c \in held[t] /\ pc' = [pc EXCEPT ![t] = "sendBody"]
             /\ cur' = [cur EXCEPT ![t] = c] /\ UNCHANGED <<sel, after, life>>
      BY DEF Send, RuntimeError
    <3>2. pc' = [pc EXCEPT ![t] = "sendBody"] /\ cur' = [cur EXCEPT ![t] = c]
            => Uses(t)' = {c}
      BY <1>t DEF Uses
    <3> QED BY <3>1, <3>2, LifeStays, GoesOn DEF Location
  <2>2. CASE \E c \in Chan : Receive(t, c)
    <3> PICK c \in Chan : Receive(t, c)
      BY <2>2
    <3>1. \/ UNCHANGED <<pc, cur, sel, after, life>>
          \/ /\ c \in held[t] /\ pc' = [pc EXCEPT ![t] = "receiveBody"]
             /\ cur' = [cur EXCEPT ![t] = c] /\ UNCHANGED <<sel, after, life>>
      BY DEF Receive, RuntimeError
    <3>2. pc' = [pc EXCEPT ![t] = "receiveBody"] /\ cur' = [cur EXCEPT ![t] = c]
            => Uses(t)' = {c}
      BY <1>t DEF Uses
    <3> QED BY <3>1, <3>2, LifeStays, GoesOn DEF Location
  <2>3. CASE SendBody(t)
    <3>1. /\ pc[t] = "sendBody" /\ UNCHANGED <<cur, sel, life>>
          /\ \/ UNCHANGED <<pc, after>>
             \/ pc' = [pc EXCEPT ![t] = "sendWait"] /\ UNCHANGED after
             \/ /\ pc' = [pc EXCEPT ![t] = "signal"]
                /\ after' = [after EXCEPT ![t] = "idle"]
      BY <2>3 DEF SendBody, RuntimeError
    <3>2. Uses(t) = {cur[t]} /\ Uses(t)' \subseteq {cur[t]}
      BY <3>1, <1>t DEF Uses
    <3> QED BY <3>1, <3>2, <2>h, LifeStays, GoesOn DEF Location
  <2>4. CASE ReceiveBody(t)
    <3>1. /\ pc[t] = "receiveBody" /\ UNCHANGED <<cur, sel, life>>
          /\ \/ pc' = [pc EXCEPT ![t] = "receiveWait"] /\ UNCHANGED after
             \/ pc' = [pc EXCEPT ![t] = "idle"] /\ UNCHANGED after
             \/ /\ pc' = [pc EXCEPT ![t] = "signal"]
                /\ after' = [after EXCEPT ![t] = "idle"]
      BY <2>4 DEF ReceiveBody
    <3>2. Uses(t) = {cur[t]} /\ Uses(t)' \subseteq {cur[t]}
      BY <3>1, <1>t DEF Uses
    <3> QED BY <3>1, <3>2, <2>h, GoesOn DEF Location
  <2>5. CASE Resume(t)
    <3>1. /\ pc[t] \in {"sendWait", "receiveWait"}
          /\ \E l \in {"sendBody", "receiveBody"} : pc' = [pc EXCEPT ![t] = l]
          /\ UNCHANGED <<cur, sel, after, life>>
      BY <2>5 DEF Resume
    <3>2. Uses(t) = {cur[t]} /\ Uses(t)' = {cur[t]}
      BY <3>1, <1>t DEF Uses
    <3> QED BY <3>1, <3>2, <2>h, GoesOn DEF Location
  <2>6. CASE SpuriousWakeup(t)
    BY <2>6, LifeStays DEF SpuriousWakeup
  <2>7. CASE ActivitySignal(t)
    <3>1. /\ pc[t] = "signal" /\ pc' = [pc EXCEPT ![t] = after[t]]
          /\ UNCHANGED <<cur, sel, after, life>>
      BY <2>7 DEF ActivitySignal
    <3>2. Uses(t)' = Uses(t)
      BY <3>1, <1>t DEF Uses
    <3> QED BY <3>1, <3>2, <2>h, <1>t, GoesOn DEF Location
  <2>8. CASE \E s \in Selects : Select(t, s)
    <3> PICK s \in Selects : Select(t, s)
      BY <2>8
    <3>1. \/ UNCHANGED <<pc, cur, sel, after, life>>
          \/ /\ {s.arms[i].chan : i \in DOMAIN s.arms} \subseteq held[t]
             /\ pc' = [pc EXCEPT ![t] = "selectTry"]
             /\ sel' = [sel EXCEPT ![t] = s] /\ UNCHANGED <<cur, after, life>>
      BY DEF Select, RuntimeError, BeginRound
    <3>2. CASE UNCHANGED <<pc, cur, sel, after, life>>
      BY <3>2, LifeStays
    <3>3. CASE /\ {s.arms[i].chan : i \in DOMAIN s.arms} \subseteq held[t]
               /\ pc' = [pc EXCEPT ![t] = "selectTry"]
               /\ sel' = [sel EXCEPT ![t] = s] /\ UNCHANGED <<cur, after, life>>
      <4>1. pc'[t] = "selectTry" /\ sel'[t] = s /\ held' = held
        BY <3>3, <1>t DEF life
      <4>2. Uses(t)' = {s.arms[i].chan : i \in DOMAIN s.arms}
        BY <4>1 DEF Uses
      <4>3. NewHoldsNothing' /\ UsesAreHeld'
        BY <3>3, <4>1, <4>2, <1>t, OwnStep DEF LifeInv
      <4> QED BY <3>3, <4>3, CountStays DEF LifeInv
    <3> QED BY <3>1, <3>2, <3>3
  <2>9. CASE SelectTry(t)
    <3>1. ArmAt(t).chan \in Chan
      BY <2>9, ArmTyped DEF SelectTry, TypeInv, SelectTyped, Arm
    <3>2. /\ pc[t] = "selectTry" /\ pc' = [pc EXCEPT ![t] = "selectBody"]
          /\ cur' = [cur EXCEPT ![t] = ArmAt(t).chan] /\ UNCHANGED <<sel, after, life>>
      BY <2>9 DEF SelectTry
    <3>3. Uses(t)' = Uses(t)
      BY <3>2, <1>t DEF Uses
    <3> QED BY <3>1, <3>2, <3>3, <2>h, GoesOn DEF Location
  <2>10. CASE SelectBody(t)
    <3>1. /\ pc[t] = "selectBody" /\ UNCHANGED <<cur, sel, after, life>>
          /\ \/ UNCHANGED pc
             \/ \E l \in {"selectFired", "selectTry", "selectWait"} :
                  pc' = [pc EXCEPT ![t] = l]
      BY <2>10 DEF SelectBody, RuntimeError, NotReady
    <3>2. Uses(t)' \subseteq Uses(t)
      BY <3>1, <1>t DEF Uses
    <3> QED BY <3>1, <3>2, <2>h, LifeStays, GoesOn DEF Location
  <2>11. CASE SelectFired(t)
    <3>1. pc' = [pc EXCEPT ![t] = "idle"] /\ UNCHANGED <<cur, sel, after, life>>
      BY <2>11 DEF SelectFired
    <3>2. Uses(t)' = {}
      BY <3>1, <1>t DEF Uses
    <3> QED BY <3>1, <3>2, <2>h, GoesOn DEF Location
  <2>12. CASE SelectTimeout(t)
    <3>1. pc' = [pc EXCEPT ![t] = "idle"] /\ UNCHANGED <<cur, sel, after, life>>
      BY <2>12 DEF SelectTimeout
    <3>2. Uses(t)' = {}
      BY <3>1, <1>t DEF Uses
    <3> QED BY <3>1, <3>2, <2>h, GoesOn DEF Location
  <2>13. CASE SelectAgain(t)
    <3>1. /\ pc[t] = "selectWait" /\ pc' = [pc EXCEPT ![t] = "selectTry"]
          /\ UNCHANGED <<cur, sel, after, life>>
      BY <2>13 DEF SelectAgain, BeginRound
    <3>2. Uses(t)' = Uses(t)
      BY <3>1, <1>t DEF Uses
    <3> QED BY <3>1, <3>2, <2>h, GoesOn DEF Location
  <2>14. CASE \E u \in Thread, S \in SUBSET Chan : Spawn(t, u, S)
    <3> PICK u \in Thread, S \in SUBSET Chan : Spawn(t, u, S)
      BY <2>14
    <3>1. /\ pc' = [pc EXCEPT ![u] = "idle"] /\ held' = [held EXCEPT ![u] = S]
          /\ UNCHANGED <<cur, sel, after>>
      BY DEF Spawn
    <3>2. pc'[u] # "new" /\ Uses(u)' = {}
      BY <3>1, <1>t DEF Uses
    <3>3. NewHoldsNothing' /\ UsesAreHeld'
      BY <3>1, <3>2, <1>t, OwnStep DEF LifeInv
    <3> QED BY <3>3, SpawnCounts DEF LifeInv
  <2>15. CASE \E c \in Chan : Release(t, c)
    <3> PICK c \in Chan : Release(t, c)
      BY <2>15
    <3>1. /\ c \in held[t] /\ pc' = [pc EXCEPT ![t] = "shut"]
          /\ cur' = [cur EXCEPT ![t] = c] /\ UNCHANGED <<sel, after, life>>
      BY DEF Release
    <3>2. Uses(t)' = {c}
      BY <3>1, <1>t DEF Uses
    <3> QED BY <3>1, <3>2, GoesOn DEF Location
  <2>16. CASE Shut(t)
    <3>1. /\ pc[t] \in {"shut", "closer"} /\ pc' = [pc EXCEPT ![t] = "signal"]
          /\ \E a : after' = [after EXCEPT ![t] = a]
          /\ UNCHANGED <<cur, sel, life>>
      BY <2>16 DEF Shut
    <3>2. Uses(t) = {cur[t]} /\ Uses(t)' \subseteq {cur[t]}
      BY <3>1, <1>t DEF Uses
    <3> QED BY <3>1, <3>2, <2>h, GoesOn DEF Location
  <2>17. CASE Drop(t)
    <3>1. /\ \E l \in {"leaving", "idle"} : pc' = [pc EXCEPT ![t] = l]
          /\ held' = [held EXCEPT ![t] = held[t] \ {cur[t]}]
          /\ UNCHANGED <<cur, sel, after>>
      BY <2>17 DEF Drop
    <3>2. pc'[t] # "new" /\ Uses(t)' = {}
      BY <3>1, <1>t DEF Uses
    <3>3. NewHoldsNothing' /\ UsesAreHeld'
      BY <3>1, <3>2, <1>t, OwnStep DEF LifeInv
    <3> QED BY <2>17, <3>3, DropCounts DEF LifeInv
  <2>18. CASE Leave(t)
    <3>1. pc' = [pc EXCEPT ![t] = "leaving"] /\ UNCHANGED <<cur, sel, after, life>>
      BY <2>18 DEF Leave
    <3>2. Uses(t)' = {}
      BY <3>1, <1>t DEF Uses
    <3> QED BY <3>1, <3>2, <2>h, GoesOn DEF Location
  <2>19. CASE ReleaseVariable(t)
    <3>1. /\ UNCHANGED <<sel, after, life>>
          /\ \/ \E c \in held[t], l \in {"closer", "drop"} :
                  cur' = [cur EXCEPT ![t] = c] /\ pc' = [pc EXCEPT ![t] = l]
             \/ cur' = cur /\ pc' = [pc EXCEPT ![t] = "done"]
      BY <2>19 DEF ReleaseVariable, CloserOf
    <3>2. CASE cur' = cur /\ pc' = [pc EXCEPT ![t] = "done"]
      <4>1. Uses(t)' = {}
        BY <3>2, <1>t DEF Uses
      <4> QED BY <3>1, <3>2, <4>1, <2>h, GoesOn DEF Location
    <3>3. ASSUME NEW c \in held[t], NEW l \in {"closer", "drop"},
                 cur' = [cur EXCEPT ![t] = c], pc' = [pc EXCEPT ![t] = l]
          PROVE  LifeInv'
      <4>1. Uses(t)' = {c} /\ c \in Chan
        BY <3>3, <1>t DEF Uses
      <4> QED BY <3>1, <3>3, <4>1, GoesOn DEF Location
    <3> QED BY <3>1, <3>2, <3>3
  <2> QED
    BY <2>1, <2>2, <2>3, <2>4, <2>5, <2>6, <2>7, <2>8, <2>9, <2>10, <2>11,
       <2>12, <2>13, <2>14, <2>15, <2>16, <2>17, <2>18, <2>19
    DEF Continue, Begin
<1> QED BY <1>u, <1>n

\* The count of a channel is the number of variables that hold it, through
\* every spawn, release and epilogue, and its storage is freed with the last.
THEOREM CountsAreRight == Spec => []RefsCountHolders
<1>1. LifeInv => RefsCountHolders
  BY DEF LifeInv
<1> QED BY <1>1, InitTypeInv, NextTypeInv, InitLife, NextLife, PTL DEF Spec

\* Nobody is ever on its way to a channel that pas_chan_drop has freed: a
\* thread that uses one holds it, so the count it keeps up is not zero.
THEOREM ChannelsAreSafe == Spec => []NoUseAfterFree
<1>1. TypeInv /\ LifeInv => NoUseAfterFree
  <2> SUFFICES ASSUME TypeInv, LifeInv, NEW t \in Thread, NEW c \in Uses(t)
               PROVE  ~freed[c]
    BY DEF NoUseAfterFree
  <2>1. c \in held[t] /\ c \in Chan
    BY DEF LifeInv, UsesAreHeld, TypeInv, TypeOK, ThreadType
  <2>2. t \in Holders(c)
    BY <2>1 DEF Holders
  <2>3. Cardinality(Holders(c)) # 0
    BY <2>1, <2>2, HoldersFinite, FS_EmptySet
  <2> QED BY <2>1, <2>3 DEF LifeInv, RefsCountHolders, Holders
<1> QED BY <1>1, InitTypeInv, NextTypeInv, InitLife, NextLife, PTL DEF Spec
-----------------------------------------------------------------------------
(* No wakeup of a sender or a receiver is lost.  The invariant is          *)
(* inductive as it stands: every put wakes a receiver that sleeps, or none *)
(* does, and a receiver that takes an element leaves with it.              *)

Receivers(c) == Woken("receiveWait", c) \cup InBody("receiveBody", c)
Senders(c) == Woken("sendWait", c) \cup InBody("sendBody", c)
ReceiversServed(c) ==
  WaitingAt("receiveWait", c) # {} => n[c] <= Cardinality(Receivers(c))
SendersServed(c) ==
  WaitingAt("sendWait", c) # {} => Cap[c] - n[c] <= Cardinality(Senders(c))
NoneAfterClose(c) ==
  closed[c] => WaitingAt("receiveWait", c) \cup WaitingAt("sendWait", c) = {}

LEMMA WakeupParts ==
  NoLostWakeup <=>
    \A c \in Chan : ReceiversServed(c) /\ SendersServed(c) /\ NoneAfterClose(c)
BY DEF NoLostWakeup, ReceiversServed, SendersServed, NoneAfterClose, Receivers, Senders

LEMMA WakeupPartsNext ==
  ASSUME \A c \in Chan : ReceiversServed(c)' /\ SendersServed(c)' /\ NoneAfterClose(c)'
  PROVE  NoLostWakeup'
BY DEF NoLostWakeup, ReceiversServed, SendersServed, NoneAfterClose, Receivers, Senders

\* How the size of a set of threads may change.
LEMMA Counting ==
  ASSUME NEW A \in SUBSET Thread, NEW B \in SUBSET Thread
  PROVE  /\ Cardinality(A) \in Nat /\ Cardinality(B) \in Nat
         /\ A \subseteq B => Cardinality(A) <= Cardinality(B)
         /\ \A t : A \ {t} \subseteq B => Cardinality(A) <= Cardinality(B) + 1
         /\ \A t \in B \ A : A \subseteq B => Cardinality(A) + 1 <= Cardinality(B)
<1>1. IsFiniteSet(A) /\ IsFiniteSet(B)
  BY PasChanAssumption, FS_Subset
<1>2. Cardinality(A) \in Nat /\ Cardinality(B) \in Nat
  BY <1>1, FS_CardinalityType
<1>3. A \subseteq B => Cardinality(A) <= Cardinality(B)
  BY <1>1, FS_Subset
<1>4. ASSUME NEW t, A \ {t} \subseteq B PROVE Cardinality(A) <= Cardinality(B) + 1
  <2>1. Cardinality(A \ {t}) <= Cardinality(B)
    BY <1>1, <1>4, FS_Subset
  <2>2. Cardinality(A \ {t}) = IF t \in A THEN Cardinality(A) - 1 ELSE Cardinality(A)
    BY <1>1, FS_RemoveElement
  <2> QED BY <2>1, <2>2, <1>2
<1>5. ASSUME NEW t \in B \ A, A \subseteq B PROVE Cardinality(A) + 1 <= Cardinality(B)
  <2>1. Cardinality(A \cup {t}) <= Cardinality(B)
    BY <1>1, <1>5, FS_Subset
  <2>2. Cardinality(A \cup {t}) = IF t \in A THEN Cardinality(A) ELSE Cardinality(A) + 1
    BY <1>1, FS_AddElement
  <2> QED BY <2>1, <2>2, <1>2
<1> QED BY <1>2, <1>3, <1>4, <1>5

LEMMA ActiveThreads ==
  \A c \in Chan : Receivers(c) \in SUBSET Thread /\ Senders(c) \in SUBSET Thread
BY DEF Receivers, Senders, Woken, InBody

\* Nobody more sleeps, nobody active leaves, and the ring is as full as it was.
LEMMA ServedStays ==
  ASSUME TypeInv, NoLostWakeup, NEW c \in Chan,
         n'[c] = n[c], closed'[c] = closed[c],
         WaitingAt("receiveWait", c)' \subseteq WaitingAt("receiveWait", c),
         WaitingAt("sendWait", c)' \subseteq WaitingAt("sendWait", c),
         Receivers(c) \subseteq Receivers(c)', Senders(c) \subseteq Senders(c)'
  PROVE  ReceiversServed(c)' /\ SendersServed(c)' /\ NoneAfterClose(c)'
<1>1. ReceiversServed(c) /\ SendersServed(c) /\ NoneAfterClose(c)
  BY WakeupParts
<1>2. n[c] \in Nat /\ Cap[c] \in Nat
  BY CapNat DEF TypeInv, TypeOK, RingType
<1>3. Receivers(c) \in SUBSET Thread /\ Receivers(c)' \in SUBSET Thread
  BY DEF Receivers, Woken, InBody
<1>4. Senders(c) \in SUBSET Thread /\ Senders(c)' \in SUBSET Thread
  BY DEF Senders, Woken, InBody
<1>5. /\ Cardinality(Receivers(c)) \in Nat /\ Cardinality(Receivers(c)') \in Nat
      /\ Cardinality(Receivers(c)) <= Cardinality(Receivers(c)')
  BY <1>3, Counting
<1>6. /\ Cardinality(Senders(c)) \in Nat /\ Cardinality(Senders(c)') \in Nat
      /\ Cardinality(Senders(c)) <= Cardinality(Senders(c)')
  BY <1>4, Counting
<1>7. ReceiversServed(c)'
  BY <1>1, <1>2, <1>5 DEF ReceiversServed
<1>8. SendersServed(c)'
  BY <1>1, <1>2, <1>6 DEF SendersServed
<1>9. NoneAfterClose(c)'
  BY <1>1 DEF NoneAfterClose
<1> QED BY <1>7, <1>8, <1>9

\* A thread that is not at a send or a receive moves, and does not fall asleep
\* on a channel; it may wake others.
LEMMA AsideStep ==
  ASSUME TypeInv, NEW t \in Thread,
         NEW l, l \notin {"sendWait", "receiveWait"},
         pc[t] \notin {"sendWait", "receiveWait", "sendBody", "receiveBody"},
         pc' = [pc EXCEPT ![t] = l],
         \A u \in Thread \ {t} : cur'[u] = cur[u],
         asleep' \subseteq asleep \cup {t}, NEW c \in Chan
  PROVE  /\ WaitingAt("receiveWait", c)' \subseteq WaitingAt("receiveWait", c)
         /\ WaitingAt("sendWait", c)' \subseteq WaitingAt("sendWait", c)
         /\ Receivers(c) \subseteq Receivers(c)'
         /\ Senders(c) \subseteq Senders(c)'
<1>t. pc \in [Thread -> Location] /\ asleep \subseteq Thread
  BY DEF TypeInv, TypeOK, ThreadType
<1>1. pc'[t] = l /\ \A u \in Thread \ {t} : pc'[u] = pc[u]
  BY <1>t
<1>2. \A u \in Thread \ {t} : u \in asleep' => u \in asleep
  OBVIOUS
<1>3. /\ WaitingAt("receiveWait", c)' \subseteq WaitingAt("receiveWait", c)
      /\ WaitingAt("sendWait", c)' \subseteq WaitingAt("sendWait", c)
  BY <1>t, <1>1, <1>2 DEF WaitingAt
<1>4. Receivers(c) \subseteq Receivers(c)'
  BY <1>t, <1>1, <1>2 DEF Receivers, Woken, InBody
<1>5. Senders(c) \subseteq Senders(c)'
  BY <1>t, <1>1, <1>2 DEF Senders, Woken, InBody
<1> QED BY <1>3, <1>4, <1>5

LEMMA AsideKeeps ==
  ASSUME TypeInv, NoLostWakeup, NEW t \in Thread,
         NEW l, l \notin {"sendWait", "receiveWait"},
         pc[t] \notin {"sendWait", "receiveWait", "sendBody", "receiveBody"},
         pc' = [pc EXCEPT ![t] = l],
         \A u \in Thread \ {t} : cur'[u] = cur[u],
         asleep' \subseteq asleep \cup {t}, UNCHANGED <<n, closed>>
  PROVE  NoLostWakeup'
<1> SUFFICES ASSUME NEW c \in Chan
             PROVE  ReceiversServed(c)' /\ SendersServed(c)' /\ NoneAfterClose(c)'
  BY WakeupPartsNext
<1> QED BY AsideStep, ServedStays
\* The other channels of a step that wakes waiters of d only.
LEMMA ElsewhereKeeps ==
  ASSUME TypeInv, NoLostWakeup, NEW t \in Thread, NEW d \in Chan, cur[t] = d,
         NEW l, pc' = [pc EXCEPT ![t] = l], cur' = cur,
         asleep' \subseteq asleep \cup {t},
         NEW c \in Chan \ {d}, n'[c] = n[c], closed'[c] = closed[c]
  PROVE  ReceiversServed(c)' /\ SendersServed(c)' /\ NoneAfterClose(c)'
<1>t. pc \in [Thread -> Location] /\ asleep \subseteq Thread
  BY DEF TypeInv, TypeOK, ThreadType
<1>1. \A u \in Thread \ {t} : pc'[u] = pc[u] /\ (u \in asleep' => u \in asleep)
  BY <1>t
<1>2. /\ WaitingAt("receiveWait", c)' \subseteq WaitingAt("receiveWait", c)
      /\ WaitingAt("sendWait", c)' \subseteq WaitingAt("sendWait", c)
  BY <1>t, <1>1 DEF WaitingAt
<1>3. Receivers(c) \subseteq Receivers(c)' /\ Senders(c) \subseteq Senders(c)'
  BY <1>t, <1>1 DEF Receivers, Senders, Woken, InBody
<1> QED BY <1>2, <1>3, ServedStays

\* A put: one sleeping receiver is woken for the element, and the sender, if
\* it was one, leaves with the slot.
LEMMA PutWakes ==
  ASSUME TypeInv, NoLostWakeup, NEW t \in Thread, NEW d \in Chan, cur[t] = d,
         NEW l \in {"signal", "selectFired"}, pc' = [pc EXCEPT ![t] = l],
         pc[t] \in {"sendBody", "selectBody"}, UNCHANGED <<cur, closed>>,
         NEW v, Put(d, v)
  PROVE  NoLostWakeup'
<1>t. /\ pc \in [Thread -> Location] /\ asleep \subseteq Thread
      /\ n \in [Chan -> Nat] /\ Cap[d] \in Nat
  BY CapNat DEF TypeInv, TypeOK, ThreadType, RingType
<1>1. n' = [n EXCEPT ![d] = n[d] + 1] /\ asleep' \subseteq asleep
  BY DEF Put, SignalOne
<1>2. \A u \in Thread \ {t} : pc'[u] = pc[u] /\ (u \in asleep' => u \in asleep)
  BY <1>t, <1>1
<1>3. pc'[t] = l /\ n'[d] = n[d] + 1
  BY <1>t, <1>1
<1>4. ReceiversServed(d) /\ SendersServed(d) /\ NoneAfterClose(d)
  BY WakeupParts
<1>5. /\ WaitingAt("receiveWait", d)' \subseteq WaitingAt("receiveWait", d)
      /\ WaitingAt("sendWait", d)' \subseteq WaitingAt("sendWait", d)
  BY <1>t, <1>1, <1>2, <1>3 DEF WaitingAt
<1>6. Receivers(d) \subseteq Receivers(d)' /\ Senders(d) \ {t} \subseteq Senders(d)'
  BY <1>t, <1>2, <1>3 DEF Receivers, Senders, Woken, InBody
<1>7. ReceiversServed(d)'
  <2> SUFFICES ASSUME WaitingAt("receiveWait", d)' # {}
               PROVE  n'[d] <= Cardinality(Receivers(d)')
    BY DEF ReceiversServed
  <2>1. PICK w \in WaitingAt("receiveWait", d) : asleep' = asleep \ {w}
    BY <1>5 DEF Put, SignalOne
  <2>2. w \in Receivers(d)' \ Receivers(d)
    BY <2>1, <1>t, <1>2 DEF Receivers, Woken, InBody, WaitingAt
  <2>3. Receivers(d) \in SUBSET Thread /\ Receivers(d)' \in SUBSET Thread
    BY DEF Receivers, Woken, InBody
  <2>4. /\ Cardinality(Receivers(d)) \in Nat /\ Cardinality(Receivers(d)') \in Nat
        /\ Cardinality(Receivers(d)) + 1 <= Cardinality(Receivers(d)')
    BY <2>2, <2>3, <1>6, Counting
  <2>5. n[d] <= Cardinality(Receivers(d))
    BY <2>1, <1>4 DEF ReceiversServed
  <2> QED BY <2>4, <2>5, <1>3, <1>t
<1>8. SendersServed(d)'
  <2> SUFFICES ASSUME WaitingAt("sendWait", d)' # {}
               PROVE  Cap[d] - n'[d] <= Cardinality(Senders(d)')
    BY DEF SendersServed
  <2>1. Cap[d] - n[d] <= Cardinality(Senders(d))
    BY <1>4, <1>5 DEF SendersServed
  <2>2. Senders(d) \in SUBSET Thread /\ Senders(d)' \in SUBSET Thread
    BY DEF Senders, Woken, InBody
  <2>3. /\ Cardinality(Senders(d)) \in Nat /\ Cardinality(Senders(d)') \in Nat
        /\ Cardinality(Senders(d)) <= Cardinality(Senders(d)') + 1
    BY <2>2, <1>6, Counting
  <2> QED BY <2>1, <2>3, <1>3, <1>t
<1>9. NoneAfterClose(d)'
  BY <1>4, <1>5 DEF NoneAfterClose
<1>10. \A c \in Chan \ {d} : n'[c] = n[c]
  BY <1>1, <1>t
<1> QED BY <1>1, <1>7, <1>8, <1>9, <1>10, ElsewhereKeeps, WakeupPartsNext

\* A take: the same, the other way round.
LEMMA TakeWakes ==
  ASSUME TypeInv, NoLostWakeup, NEW t \in Thread, NEW d \in Chan, cur[t] = d,
         NEW l \in {"signal", "selectFired"}, pc' = [pc EXCEPT ![t] = l],
         pc[t] \in {"receiveBody", "selectBody"}, UNCHANGED <<cur, closed>>,
         Take(d)
  PROVE  NoLostWakeup'
<1>t. /\ pc \in [Thread -> Location] /\ asleep \subseteq Thread
      /\ n \in [Chan -> Nat] /\ Cap[d] \in Nat
  BY CapNat DEF TypeInv, TypeOK, ThreadType, RingType
<1>1. n' = [n EXCEPT ![d] = n[d] - 1] /\ asleep' \subseteq asleep
  BY DEF Take, SignalOne
<1>2. \A u \in Thread \ {t} : pc'[u] = pc[u] /\ (u \in asleep' => u \in asleep)
  BY <1>t, <1>1
<1>3. pc'[t] = l /\ n'[d] = n[d] - 1
  BY <1>t, <1>1
<1>4. ReceiversServed(d) /\ SendersServed(d) /\ NoneAfterClose(d)
  BY WakeupParts
<1>5. /\ WaitingAt("receiveWait", d)' \subseteq WaitingAt("receiveWait", d)
      /\ WaitingAt("sendWait", d)' \subseteq WaitingAt("sendWait", d)
  BY <1>t, <1>1, <1>2, <1>3 DEF WaitingAt
<1>6. Senders(d) \subseteq Senders(d)' /\ Receivers(d) \ {t} \subseteq Receivers(d)'
  BY <1>t, <1>2, <1>3 DEF Receivers, Senders, Woken, InBody
<1>7. SendersServed(d)'
  <2> SUFFICES ASSUME WaitingAt("sendWait", d)' # {}
               PROVE  Cap[d] - n'[d] <= Cardinality(Senders(d)')
    BY DEF SendersServed
  <2>1. PICK w \in WaitingAt("sendWait", d) : asleep' = asleep \ {w}
    BY <1>5 DEF Take, SignalOne
  <2>2. w \in Senders(d)' \ Senders(d)
    BY <2>1, <1>t, <1>2 DEF Senders, Woken, InBody, WaitingAt
  <2>3. Senders(d) \in SUBSET Thread /\ Senders(d)' \in SUBSET Thread
    BY DEF Senders, Woken, InBody
  <2>4. /\ Cardinality(Senders(d)) \in Nat /\ Cardinality(Senders(d)') \in Nat
        /\ Cardinality(Senders(d)) + 1 <= Cardinality(Senders(d)')
    BY <2>2, <2>3, <1>6, Counting
  <2>5. Cap[d] - n[d] <= Cardinality(Senders(d))
    BY <2>1, <1>4 DEF SendersServed
  <2> QED BY <2>4, <2>5, <1>3, <1>t
<1>8. ReceiversServed(d)'
  <2> SUFFICES ASSUME WaitingAt("receiveWait", d)' # {}
               PROVE  n'[d] <= Cardinality(Receivers(d)')
    BY DEF ReceiversServed
  <2>1. n[d] <= Cardinality(Receivers(d))
    BY <1>4, <1>5 DEF ReceiversServed
  <2>2. Receivers(d) \in SUBSET Thread /\ Receivers(d)' \in SUBSET Thread
    BY DEF Receivers, Woken, InBody
  <2>3. /\ Cardinality(Receivers(d)) \in Nat /\ Cardinality(Receivers(d)') \in Nat
        /\ Cardinality(Receivers(d)) <= Cardinality(Receivers(d)') + 1
    BY <2>2, <1>6, Counting
  <2> QED BY <2>1, <2>3, <1>3, <1>t
<1>9. NoneAfterClose(d)'
  BY <1>4, <1>5 DEF NoneAfterClose
<1>10. \A c \in Chan \ {d} : n'[c] = n[c]
  BY <1>1, <1>t
<1> QED BY <1>1, <1>7, <1>8, <1>9, <1>10, ElsewhereKeeps, WakeupPartsNext

\* A sender leaves the critical section with the ring full, or a receiver with
\* the ring empty, to sleep or because there is nothing to come: no slot, and
\* no element, waits for it.
LEMMA GivesUpKeeps ==
  ASSUME TypeInv, NoLostWakeup, NEW t \in Thread, NEW d \in Chan, cur[t] = d,
         NEW l, pc' = [pc EXCEPT ![t] = l],
         \/ pc[t] = "sendBody" /\ n[d] = Cap[d] /\ l = "sendWait"
         \/ pc[t] = "receiveBody" /\ n[d] = 0 /\ l \in {"receiveWait", "idle"},
         asleep' \subseteq asleep \cup {t}, l # "idle" => ~closed[d],
         UNCHANGED <<cur, n, closed>>
  PROVE  NoLostWakeup'
<1>t. /\ pc \in [Thread -> Location] /\ asleep \subseteq Thread
      /\ n \in [Chan -> Nat] /\ Cap[d] \in Nat
  BY CapNat DEF TypeInv, TypeOK, ThreadType, RingType
<1>1. \A u \in Thread \ {t} : pc'[u] = pc[u] /\ (u \in asleep' => u \in asleep)
  BY <1>t
<1>2. pc'[t] = l
  BY <1>t
<1>3. ReceiversServed(d) /\ SendersServed(d) /\ NoneAfterClose(d)
  BY WakeupParts
<1>4. /\ Receivers(d) \in SUBSET Thread /\ Receivers(d)' \in SUBSET Thread
      /\ Senders(d) \in SUBSET Thread /\ Senders(d)' \in SUBSET Thread
  BY DEF Receivers, Senders, Woken, InBody
<1>5. NoneAfterClose(d)'
  BY <1>3, <1>t, <1>1, <1>2 DEF NoneAfterClose, WaitingAt
<1>6. CASE pc[t] = "sendBody" /\ n[d] = Cap[d] /\ l = "sendWait"
  <2>1. SendersServed(d)'
    BY <1>4, <1>6, <1>t, Counting DEF SendersServed
  <2>2. /\ WaitingAt("receiveWait", d)' \subseteq WaitingAt("receiveWait", d)
        /\ Receivers(d) \subseteq Receivers(d)'
    BY <1>6, <1>t, <1>1, <1>2 DEF WaitingAt, Receivers, Woken, InBody
  <2>3. /\ Cardinality(Receivers(d)) \in Nat /\ Cardinality(Receivers(d)') \in Nat
        /\ Cardinality(Receivers(d)) <= Cardinality(Receivers(d)')
    BY <2>2, <1>4, Counting
  <2>4. ReceiversServed(d)'
    BY <2>2, <2>3, <1>3, <1>t DEF ReceiversServed
  <2> QED BY <2>1, <2>4, <1>5, ElsewhereKeeps, WakeupPartsNext
<1>7. CASE pc[t] = "receiveBody" /\ n[d] = 0 /\ l \in {"receiveWait", "idle"}
  <2>1. ReceiversServed(d)'
    BY <1>4, <1>7, <1>t, Counting DEF ReceiversServed
  <2>2. /\ WaitingAt("sendWait", d)' \subseteq WaitingAt("sendWait", d)
        /\ Senders(d) \subseteq Senders(d)'
    BY <1>7, <1>t, <1>1, <1>2 DEF WaitingAt, Senders, Woken, InBody
  <2>3. /\ Cardinality(Senders(d)) \in Nat /\ Cardinality(Senders(d)') \in Nat
        /\ Cardinality(Senders(d)) <= Cardinality(Senders(d)')
    BY <2>2, <1>4, Counting
  <2>4. SendersServed(d)'
    BY <2>2, <2>3, <1>3, <1>t DEF SendersServed
  <2> QED BY <2>1, <2>4, <1>5, ElsewhereKeeps, WakeupPartsNext
<1> QED BY <1>6, <1>7

\* A close: both broadcasts.
LEMMA CloseWakes ==
  ASSUME TypeInv, NoLostWakeup, NEW t \in Thread, Shut(t)
  PROVE  NoLostWakeup'
<1>t. /\ pc \in [Thread -> Location] /\ asleep \subseteq Thread
      /\ cur[t] \in Chan /\ closed \in [Chan -> BOOLEAN]
  BY DEF TypeInv, TypeOK, ThreadType, ChanType
<1>1. /\ pc' = [pc EXCEPT ![t] = "signal"] /\ UNCHANGED <<cur, n>>
      /\ closed' = [closed EXCEPT ![cur[t]] = TRUE]
      /\ asleep' = asleep \ (WaitingAt("receiveWait", cur[t])
                               \cup WaitingAt("sendWait", cur[t]))
  BY DEF Shut, MarkClosed, Goto, ring, args
<1>2. /\ WaitingAt("receiveWait", cur[t])' = {}
      /\ WaitingAt("sendWait", cur[t])' = {}
  BY <1>1, <1>t DEF WaitingAt
<1>3. ASSUME NEW c \in Chan, c = cur[t]
      PROVE  ReceiversServed(c)' /\ SendersServed(c)' /\ NoneAfterClose(c)'
  BY <1>2, <1>3, <1>1 DEF ReceiversServed, SendersServed, NoneAfterClose, WaitingAt
<1>4. \A c \in Chan \ {cur[t]} : closed'[c] = closed[c] /\ n'[c] = n[c]
  BY <1>1, <1>t
<1>5. ASSUME NEW c \in Chan \ {cur[t]}
      PROVE  ReceiversServed(c)' /\ SendersServed(c)' /\ NoneAfterClose(c)'
  BY <1>1, <1>4, <1>t, ElsewhereKeeps
<1> QED BY <1>3, <1>5, WakeupPartsNext

LEMMA WakeupStays ==
  ASSUME NoLostWakeup, UNCHANGED <<pc, cur, asleep, n, closed>> PROVE NoLostWakeup'
BY DEF NoLostWakeup, WaitingAt, Woken, InBody

LEMMA NextWakeup == TypeInv /\ NoLostWakeup /\ [Next]_vars => NoLostWakeup'
<1> SUFFICES ASSUME TypeInv, NoLostWakeup, [Next]_vars PROVE NoLostWakeup'
  OBVIOUS
<1>t. /\ pc \in [Thread -> Location] /\ cur \in [Thread -> Chan]
      /\ after \in [Thread -> {"idle", "closer", "drop"}]
      /\ asleep \subseteq Thread
  BY DEF TypeInv, TypeOK, ThreadType
<1>u. CASE UNCHANGED vars
  BY <1>u, WakeupStays DEF vars, ring, args
<1>n. CASE Next
  <2> SUFFICES ASSUME NEW t \in Thread, Continue(t) \/ Begin(t) PROVE NoLostWakeup'
    BY <1>n DEF Next
  <2> USE DEF At, Goto, args, ring
  <2>c. cur[t] \in Chan /\ \A c \in Chan : cur' = [cur EXCEPT ![t] = c] =>
          \A u \in Thread \ {t} : cur'[u] = cur[u]
    BY <1>t
  <2>1. CASE \E c \in Chan, v \in Value : Send(t, c, v)
    <3>1. \/ UNCHANGED <<pc, asleep, cur, n, closed>>
          \/ /\ pc[t] = "idle" /\ pc' = [pc EXCEPT ![t] = "sendBody"]
             /\ \E c \in Chan : cur' = [cur EXCEPT ![t] = c]
             /\ UNCHANGED <<asleep, n, closed>>
      BY <2>1 DEF Send, Call, RuntimeError
    <3> QED BY <3>1, <2>c, AsideKeeps, WakeupStays
  <2>2. CASE \E c \in Chan : Receive(t, c)
    <3>1. \/ UNCHANGED <<pc, asleep, cur, n, closed>>
          \/ /\ pc[t] = "idle" /\ pc' = [pc EXCEPT ![t] = "receiveBody"]
             /\ \E c \in Chan : cur' = [cur EXCEPT ![t] = c]
             /\ UNCHANGED <<asleep, n, closed>>
      BY <2>2 DEF Receive, Call, RuntimeError
    <3> QED BY <3>1, <2>c, AsideKeeps, WakeupStays
  <2>3. CASE SendBody(t)
    <3>1. pc[t] = "sendBody" /\ UNCHANGED <<cur, closed>>
      BY <2>3 DEF SendBody, RuntimeError
    <3>2. \/ UNCHANGED <<pc, asleep, n>>
          \/ /\ n[cur[t]] = Cap[cur[t]] /\ ~closed[cur[t]] /\ UNCHANGED n
             /\ pc' = [pc EXCEPT ![t] = "sendWait"] /\ asleep' = asleep \cup {t}
          \/ /\ Put(cur[t], val[t]) /\ pc' = [pc EXCEPT ![t] = "signal"]
      BY <2>3 DEF SendBody, RuntimeError
    <3> QED BY <3>1, <3>2, <2>c, WakeupStays, GivesUpKeeps, PutWakes
  <2>4. CASE ReceiveBody(t)
    <3>1. pc[t] = "receiveBody" /\ UNCHANGED <<cur, closed>>
      BY <2>4 DEF ReceiveBody
    <3>2. \/ /\ n[cur[t]] = 0 /\ ~closed[cur[t]] /\ UNCHANGED n
             /\ pc' = [pc EXCEPT ![t] = "receiveWait"] /\ asleep' = asleep \cup {t}
          \/ /\ n[cur[t]] = 0 /\ UNCHANGED <<n, asleep>>
             /\ pc' = [pc EXCEPT ![t] = "idle"]
          \/ /\ Take(cur[t]) /\ pc' = [pc EXCEPT ![t] = "signal"]
      BY <2>4 DEF ReceiveBody, Drained
    <3>3. CASE Take(cur[t]) /\ pc' = [pc EXCEPT ![t] = "signal"]
      BY <3>1, <3>3, <2>c, TakeWakes
    <3>4. CASE /\ n[cur[t]] = 0 /\ ~closed[cur[t]] /\ UNCHANGED n
               /\ pc' = [pc EXCEPT ![t] = "receiveWait"] /\ asleep' = asleep \cup {t}
      BY <3>1, <3>4, <2>c, GivesUpKeeps
    <3>5. CASE /\ n[cur[t]] = 0 /\ UNCHANGED <<n, asleep>>
               /\ pc' = [pc EXCEPT ![t] = "idle"]
      <4>1. pc[t] = "receiveBody" /\ n[cur[t]] = 0 /\ "idle" \in {"receiveWait", "idle"}
        BY <3>1, <3>5
      <4>2. asleep' \subseteq asleep \cup {t} /\ UNCHANGED <<cur, n, closed>>
        BY <3>1, <3>5
      <4> QED BY <4>1, <4>2, <3>5, <2>c, GivesUpKeeps
    <3> QED BY <3>2, <3>3, <3>4, <3>5
  <2>5. CASE Resume(t)
    <3>1. /\ \/ pc[t] = "sendWait" /\ pc' = [pc EXCEPT ![t] = "sendBody"]
             \/ pc[t] = "receiveWait" /\ pc' = [pc EXCEPT ![t] = "receiveBody"]
          /\ t \notin asleep /\ UNCHANGED <<asleep, cur, n, closed>>
      BY <2>5 DEF Resume
    <3>2. ASSUME NEW c \in Chan
          PROVE  /\ WaitingAt("receiveWait", c)' \subseteq WaitingAt("receiveWait", c)
                 /\ WaitingAt("sendWait", c)' \subseteq WaitingAt("sendWait", c)
                 /\ Receivers(c) \subseteq Receivers(c)'
                 /\ Senders(c) \subseteq Senders(c)'
      BY <3>1, <1>t DEF WaitingAt, Receivers, Senders, Woken, InBody
    <3> QED BY <3>1, <3>2, ServedStays, WakeupPartsNext
  <2>6. CASE SpuriousWakeup(t)
    <3>1. asleep' = asleep \ {t} /\ UNCHANGED <<pc, cur, n, closed>>
      BY <2>6 DEF SpuriousWakeup
    <3>2. ASSUME NEW c \in Chan
          PROVE  /\ WaitingAt("receiveWait", c)' \subseteq WaitingAt("receiveWait", c)
                 /\ WaitingAt("sendWait", c)' \subseteq WaitingAt("sendWait", c)
                 /\ Receivers(c) \subseteq Receivers(c)'
                 /\ Senders(c) \subseteq Senders(c)'
      BY <3>1, <1>t DEF WaitingAt, Receivers, Senders, Woken, InBody
    <3> QED BY <3>1, <3>2, ServedStays, WakeupPartsNext
  <2>7. CASE ActivitySignal(t)
    <3>1. /\ pc[t] = "signal" /\ pc' = [pc EXCEPT ![t] = after[t]]
          /\ asleep' \subseteq asleep /\ UNCHANGED <<cur, n, closed>>
          /\ after[t] \notin {"sendWait", "receiveWait"}
      BY <2>7, <1>t DEF ActivitySignal
    <3> QED BY <3>1, AsideKeeps
  <2>8. CASE \E s \in Selects : Select(t, s)
    <3>1. \/ UNCHANGED <<pc, asleep, cur, n, closed>>
          \/ /\ pc[t] = "idle" /\ pc' = [pc EXCEPT ![t] = "selectTry"]
             /\ UNCHANGED <<asleep, cur, n, closed>>
      BY <2>8 DEF Select, Call, RuntimeError, BeginRound
    <3> QED BY <3>1, AsideKeeps, WakeupStays
  <2>9. CASE SelectTry(t)
    <3>1. ArmAt(t).chan \in Chan
      BY <2>9, ArmTyped DEF SelectTry, TypeInv, SelectTyped, Arm
    <3>2. /\ pc[t] = "selectTry" /\ pc' = [pc EXCEPT ![t] = "selectBody"]
          /\ cur' = [cur EXCEPT ![t] = ArmAt(t).chan] /\ UNCHANGED <<asleep, n, closed>>
      BY <2>9 DEF SelectTry
    <3> QED BY <3>1, <3>2, <2>c, AsideKeeps
  <2>10. CASE SelectBody(t)
    <3>1. pc[t] = "selectBody" /\ UNCHANGED <<cur, closed>>
      BY <2>10 DEF SelectBody, RuntimeError
    <3>2. \/ UNCHANGED <<pc, asleep, n>>
          \/ Take(cur[t]) /\ pc' = [pc EXCEPT ![t] = "selectFired"]
          \/ Put(cur[t], ArmAt(t).val) /\ pc' = [pc EXCEPT ![t] = "selectFired"]
          \/ /\ \E l \in {"selectFired", "selectTry", "selectWait"} :
                  pc' = [pc EXCEPT ![t] = l]
             /\ asleep' \subseteq asleep \cup {t} /\ UNCHANGED n
      BY <2>10 DEF SelectBody, RuntimeError, NotReady
    <3> QED BY <3>1, <3>2, <2>c, WakeupStays, TakeWakes, PutWakes, AsideKeeps
  <2>11. CASE SelectFired(t)
    <3>1. /\ pc[t] = "selectFired" /\ pc' = [pc EXCEPT ![t] = "idle"]
          /\ asleep' \subseteq asleep /\ UNCHANGED <<cur, n, closed>>
      BY <2>11 DEF SelectFired
    <3> QED BY <3>1, AsideKeeps
  <2>12. CASE SelectTimeout(t)
    <3>1. /\ pc[t] = "selectWait" /\ pc' = [pc EXCEPT ![t] = "idle"]
          /\ asleep' \subseteq asleep /\ UNCHANGED <<cur, n, closed>>
      BY <2>12 DEF SelectTimeout
    <3> QED BY <3>1, AsideKeeps
  <2>13. CASE SelectAgain(t)
    <3>1. /\ pc[t] = "selectWait" /\ pc' = [pc EXCEPT ![t] = "selectTry"]
          /\ UNCHANGED <<asleep, cur, n, closed>>
      BY <2>13 DEF SelectAgain, BeginRound
    <3> QED BY <3>1, AsideKeeps
  <2>14. CASE \E u \in Thread, S \in SUBSET Chan : Spawn(t, u, S)
    <3>1. \E u \in Thread : /\ pc[u] = "new" /\ pc' = [pc EXCEPT ![u] = "idle"]
                            /\ UNCHANGED <<asleep, cur, n, closed>>
      BY <2>14 DEF Spawn
    <3> QED BY <3>1, AsideKeeps
  <2>15. CASE \E c \in Chan : Release(t, c)
    <3>1. /\ pc[t] = "idle" /\ pc' = [pc EXCEPT ![t] = "shut"]
          /\ \E c \in Chan : cur' = [cur EXCEPT ![t] = c]
          /\ UNCHANGED <<asleep, n, closed>>
      BY <2>15 DEF Release, Call
    <3> QED BY <3>1, <2>c, AsideKeeps
  <2>16. CASE Shut(t)
    BY <2>16, CloseWakes
  <2>17. CASE Drop(t)
    <3>1. /\ pc[t] = "drop" /\ UNCHANGED <<asleep, cur, n, closed>>
          /\ \E l \in {"leaving", "idle"} : pc' = [pc EXCEPT ![t] = l]
      BY <2>17 DEF Drop
    <3> QED BY <3>1, AsideKeeps
  <2>18. CASE Leave(t)
    <3>1. /\ pc[t] = "idle" /\ pc' = [pc EXCEPT ![t] = "leaving"]
          /\ UNCHANGED <<asleep, cur, n, closed>>
      BY <2>18 DEF Leave
    <3> QED BY <3>1, AsideKeeps
  <2>19. CASE ReleaseVariable(t)
    <3>1. /\ pc[t] = "leaving" /\ UNCHANGED <<asleep, n, closed>>
          /\ \E l \in {"closer", "drop", "done"} : pc' = [pc EXCEPT ![t] = l]
          /\ UNCHANGED cur \/ \E c \in held[t] : cur' = [cur EXCEPT ![t] = c]
      BY <2>19 DEF ReleaseVariable, CloserOf
    <3>2. \A u \in Thread \ {t} : cur'[u] = cur[u]
      BY <3>1, <1>t
    <3> QED BY <3>1, <3>2, AsideKeeps
  <2> QED
    BY <2>1, <2>2, <2>3, <2>4, <2>5, <2>6, <2>7, <2>8, <2>9, <2>10, <2>11,
       <2>12, <2>13, <2>14, <2>15, <2>16, <2>17, <2>18, <2>19
    DEF Continue, Begin
<1> QED BY <1>u, <1>n

\* pthread_cond_signal, not broadcast, is enough for a send and a receive:
\* while a receiver sleeps there are as many woken ones as elements, the same
\* for senders and free slots, and nobody sleeps on a closed channel.
THEOREM SignalsSuffice == Spec => []NoLostWakeup
<1>1. Init => NoLostWakeup
  BY DEF Init, NoLostWakeup, WaitingAt
<1> QED BY <1>1, InitTypeInv, NextTypeInv, NextWakeup, PTL DEF Spec
-----------------------------------------------------------------------------
(* The ring implements the queue.  The invariant is that the tail is where *)
(* n elements from the head end, so that a put writes the one slot after   *)
(* the queue and a take moves the head past its first.                     *)

TailFollows == \A c \in Chan : tail[c] = (head[c] + n[c]) % Cap[c]
Slot(c, i) == (head[c] + i - 1) % Cap[c]

LEMMA QueueTyped ==
  ASSUME TypeInv, NEW c \in Chan
  PROVE  /\ queueOf[c] \in Seq(Value \cup {Junk})
         /\ Len(queueOf[c]) = n[c] /\ n[c] \in Nat
         /\ DOMAIN queueOf[c] = 1 .. n[c]
         /\ \A i \in 1 .. n[c] : queueOf[c][i] = buf[c][Slot(c, i)]
<1>t. /\ n[c] \in Nat /\ head[c] \in Nat /\ Cap[c] \in Nat \ {0}
      /\ buf[c] \in [0 .. Cap[c] - 1 -> Value \cup {Junk}]
  BY CapNat DEF TypeInv, TypeOK, RingType
<1>1. queueOf[c] = [i \in 1 .. n[c] |-> buf[c][(head[c] + i - 1) % Cap[c]]]
  BY DEF queueOf
<1>2. \A i \in 1 .. n[c] : buf[c][(head[c] + i - 1) % Cap[c]] \in Value \cup {Junk}
  <2> SUFFICES ASSUME NEW i \in 1 .. n[c]
               PROVE  buf[c][(head[c] + i - 1) % Cap[c]] \in Value \cup {Junk}
    OBVIOUS
  <2>1. head[c] + i - 1 \in Nat
    BY <1>t
  <2>2. (head[c] + i - 1) % Cap[c] \in 0 .. Cap[c] - 1
    BY <2>1, <1>t, ModNat
  <2> QED BY <2>2, <1>t
<1>3. queueOf[c] \in [1 .. n[c] -> Value \cup {Junk}]
  BY <1>1, <1>2
<1>4. queueOf[c] \in Seq(Value \cup {Junk}) /\ DOMAIN queueOf[c] = 1 .. n[c]
  BY <1>3, <1>t
<1>5. Len(queueOf[c]) = n[c]
  BY <1>4, <1>t
<1>6. \A i \in 1 .. n[c] : queueOf[c][i] = buf[c][Slot(c, i)]
  BY <1>1 DEF Slot
<1> QED BY <1>4, <1>5, <1>6, <1>t

LEMMA QueueStays == ASSUME UNCHANGED ring PROVE queueOf' = queueOf
BY DEF queueOf, ring

\* Two queues of the same elements.
LEMMA QueueOther ==
  ASSUME NEW c \in Chan, n'[c] = n[c], head'[c] = head[c], buf'[c] = buf[c]
  PROVE  queueOf'[c] = queueOf[c]
BY DEF queueOf
\* A put appends to the queue.
LEMMA PutAppends ==
  ASSUME TypeInv, TailFollows, NEW c \in Chan, NEW v \in Value,
         n[c] # Cap[c], Put(c, v)
  PROVE  /\ queueOf' = [queueOf EXCEPT ![c] = Append(queueOf[c], v)]
         /\ TailFollows'
<1>t. /\ n \in [Chan -> Nat] /\ tail \in [Chan -> Nat]
      /\ head[c] \in Nat /\ head[c] < Cap[c] /\ tail[c] < Cap[c]
      /\ Cap[c] \in Nat \ {0} /\ n[c] < Cap[c]
      /\ buf[c] \in [0 .. Cap[c] - 1 -> Value \cup {Junk}] /\ DOMAIN buf = Chan
  BY CapNat DEF TypeInv, TypeOK, RingType
<1>1. /\ buf' = [buf EXCEPT ![c][tail[c]] = v] /\ head' = head
      /\ tail' = [tail EXCEPT ![c] = (tail[c] + 1) % Cap[c]]
      /\ n' = [n EXCEPT ![c] = n[c] + 1]
  BY DEF Put, Advance
<1>2. /\ n'[c] = n[c] + 1 /\ head'[c] = head[c]
      /\ buf'[c] = [buf[c] EXCEPT ![tail[c]] = v]
  BY <1>1, <1>t
<1>3. \A d \in Chan \ {c} : /\ n'[d] = n[d] /\ head'[d] = head[d]
                            /\ buf'[d] = buf[d] /\ tail'[d] = tail[d]
  BY <1>1, <1>t
<1>4. tail[c] = (head[c] + n[c]) % Cap[c]
  BY DEF TailFollows
<1>5. queueOf'[c] = Append(queueOf[c], v)
  <2>1. queueOf'[c] = [i \in 1 .. n[c] + 1 |-> buf'[c][(head[c] + i - 1) % Cap[c]]]
    BY <1>2 DEF queueOf
  <2>2. /\ queueOf[c] \in Seq(Value \cup {Junk}) /\ Len(queueOf[c]) = n[c]
        /\ \A i \in 1 .. n[c] : queueOf[c][i] = buf[c][Slot(c, i)]
    BY QueueTyped
  <2>3. ASSUME NEW i \in 1 .. n[c]
        PROVE  buf'[c][(head[c] + i - 1) % Cap[c]] = queueOf[c][i]
    <3>1. i - 1 \in Nat /\ i - 1 < n[c] /\ head[c] + i - 1 = head[c] + (i - 1)
      BY <1>t
    <3>2. (head[c] + i - 1) % Cap[c] # tail[c]
      BY <3>1, <1>4, <1>t, ModApart
    <3>3. head[c] + i - 1 \in Nat
      BY <1>t
    <3>4. (head[c] + i - 1) % Cap[c] \in 0 .. Cap[c] - 1
      BY <3>3, <1>t, ModNat
    <3> QED BY <3>2, <3>4, <2>2, <1>2, <1>t DEF Slot
  <2>4. buf'[c][(head[c] + (n[c] + 1) - 1) % Cap[c]] = v
    <3>1. head[c] + (n[c] + 1) - 1 = head[c] + n[c]
      BY <1>t
    <3> QED BY <3>1, <1>4, <1>2, <1>t
  <2>5. Append(queueOf[c], v) = [i \in 1 .. n[c] + 1 |->
                                   IF i <= n[c] THEN queueOf[c][i] ELSE v]
    BY <2>2, <1>t
  <2>6. ASSUME NEW i \in 1 .. n[c] + 1
        PROVE  buf'[c][(head[c] + i - 1) % Cap[c]]
                 = IF i <= n[c] THEN queueOf[c][i] ELSE v
    <3>1. CASE i <= n[c]
      <4>1. i \in 1 .. n[c]
        BY <3>1, <1>t
      <4> QED BY <3>1, <4>1, <2>3
    <3>2. CASE ~(i <= n[c])
      <4>1. i = n[c] + 1
        BY <3>2, <1>t
      <4> QED BY <3>2, <4>1, <2>4
    <3> QED BY <3>1, <3>2
  <2> QED BY <2>1, <2>5, <2>6
<1>6. queueOf' = [queueOf EXCEPT ![c] = Append(queueOf[c], v)]
  <2>1. \A d \in Chan \ {c} : queueOf'[d] = queueOf[d]
    BY <1>3, QueueOther
  <2>2. DOMAIN queueOf = Chan /\ queueOf = [d \in Chan |-> queueOf[d]]
    BY DEF queueOf
  <2>3. DOMAIN queueOf' = Chan /\ queueOf' = [d \in Chan |-> queueOf'[d]]
    BY DEF queueOf
  <2> QED BY <1>5, <2>1, <2>2, <2>3
<1>7. TailFollows'
  <2>1. tail'[c] = (head'[c] + n'[c]) % Cap[c]
    <3>1. head[c] + n[c] \in Nat /\ head[c] + n[c] < Cap[c] + Cap[c]
      BY <1>t
    <3>2. (((head[c] + n[c]) % Cap[c]) + 1) % Cap[c] = (head[c] + n[c] + 1) % Cap[c]
      BY <3>1, <1>t, ModStep
    <3>3. tail'[c] = (tail[c] + 1) % Cap[c]
      BY <1>1, <1>t
    <3>4. head'[c] + n'[c] = head[c] + n[c] + 1
      <4>1. n[c] \in Nat /\ head[c] \in Nat
        BY <1>t
      <4> QED BY <4>1, <1>2
    <3> QED BY <3>2, <3>3, <3>4, <1>4
  <2>2. \A d \in Chan \ {c} : tail'[d] = (head'[d] + n'[d]) % Cap[d]
    BY <1>3 DEF TailFollows
  <2> QED BY <2>1, <2>2 DEF TailFollows
<1> QED BY <1>6, <1>7

\* A take removes the first element of the queue, the one the head is at.
LEMMA TakeRemoves ==
  ASSUME TypeInv, TailFollows, NEW c \in Chan, n[c] # 0, Take(c)
  PROVE  /\ queueOf' = [queueOf EXCEPT ![c] = Tail(queueOf[c])]
         /\ queueOf[c] # <<>> /\ Head(queueOf[c]) = buf[c][head[c]]
         /\ TailFollows'
<1>t. /\ n \in [Chan -> Nat] /\ head \in [Chan -> Nat] /\ n[c] \in Nat \ {0}
      /\ head[c] \in Nat /\ head[c] < Cap[c] /\ n[c] <= Cap[c]
      /\ Cap[c] \in Nat \ {0}
  BY CapNat DEF TypeInv, TypeOK, RingType
<1>1. /\ buf' = buf /\ tail' = tail
      /\ head' = [head EXCEPT ![c] = (head[c] + 1) % Cap[c]]
      /\ n' = [n EXCEPT ![c] = n[c] - 1]
  BY DEF Take, Advance
<1>2. n'[c] = n[c] - 1 /\ head'[c] = (head[c] + 1) % Cap[c] /\ buf'[c] = buf[c]
  BY <1>1, <1>t
<1>3. \A d \in Chan \ {c} : /\ n'[d] = n[d] /\ head'[d] = head[d]
                            /\ buf'[d] = buf[d] /\ tail'[d] = tail[d]
  BY <1>1, <1>t
<1>4. /\ queueOf[c] \in Seq(Value \cup {Junk}) /\ Len(queueOf[c]) = n[c]
      /\ \A i \in 1 .. n[c] : queueOf[c][i] = buf[c][Slot(c, i)]
  BY QueueTyped
<1>5. \A j \in Nat : (((head[c] + 1) % Cap[c]) + j) % Cap[c] = (head[c] + 1 + j) % Cap[c]
  <2>1. head[c] + 1 \in Nat /\ head[c] + 1 < Cap[c] + Cap[c]
    BY <1>t
  <2> QED BY <2>1, <1>t, ModStep
<1>6. queueOf'[c] = Tail(queueOf[c])
  <2>1. queueOf'[c] = [i \in 1 .. n[c] - 1 |->
                         buf[c][(((head[c] + 1) % Cap[c]) + i - 1) % Cap[c]]]
    BY <1>2 DEF queueOf
  <2>2. ASSUME NEW i \in 1 .. n[c] - 1
        PROVE  buf[c][(((head[c] + 1) % Cap[c]) + i - 1) % Cap[c]] = queueOf[c][i + 1]
    <3>1. i - 1 \in Nat /\ i + 1 \in 1 .. n[c]
      BY <1>t
    <3>2. (((head[c] + 1) % Cap[c]) + (i - 1)) % Cap[c] = (head[c] + 1 + (i - 1)) % Cap[c]
      BY <3>1, <1>5
    <3>3. (head[c] + 1) % Cap[c] \in Nat
      BY <1>t, ModNat
    <3>4. ((head[c] + 1) % Cap[c]) + i - 1 = ((head[c] + 1) % Cap[c]) + (i - 1)
      BY <3>3
    <3>5. head[c] + 1 + (i - 1) = head[c] + (i + 1) - 1
      BY <1>t
    <3> QED BY <3>1, <3>2, <3>4, <3>5, <1>4 DEF Slot
  <2>3. Tail(queueOf[c]) = [i \in 1 .. n[c] - 1 |-> queueOf[c][i + 1]]
    BY <1>4, <1>t
  <2> QED BY <2>1, <2>2, <2>3
<1>7. queueOf[c] # <<>> /\ Head(queueOf[c]) = buf[c][head[c]]
  <2>1. 1 \in 1 .. n[c]
    BY <1>t
  <2>2. Slot(c, 1) = head[c]
    <3>1. head[c] + 1 - 1 = head[c]
      BY <1>t
    <3> QED BY <3>1, <1>t, ModSmall DEF Slot
  <2> QED BY <2>1, <2>2, <1>4, <1>t
<1>8. queueOf' = [queueOf EXCEPT ![c] = Tail(queueOf[c])]
  <2>1. \A d \in Chan \ {c} : queueOf'[d] = queueOf[d]
    BY <1>3, QueueOther
  <2>2. DOMAIN queueOf = Chan /\ queueOf = [d \in Chan |-> queueOf[d]]
    BY DEF queueOf
  <2>3. DOMAIN queueOf' = Chan /\ queueOf' = [d \in Chan |-> queueOf'[d]]
    BY DEF queueOf
  <2> QED BY <1>6, <2>1, <2>2, <2>3
<1>9. TailFollows'
  <2>1. tail'[c] = (head'[c] + n'[c]) % Cap[c]
    <3>1. n[c] - 1 \in Nat /\ head[c] + 1 + (n[c] - 1) = head[c] + n[c]
      BY <1>t
    <3>2. (((head[c] + 1) % Cap[c]) + (n[c] - 1)) % Cap[c] = (head[c] + n[c]) % Cap[c]
      BY <3>1, <1>5
    <3>3. tail'[c] = (head[c] + n[c]) % Cap[c]
      BY <1>1 DEF TailFollows
    <3> QED BY <3>2, <3>3, <1>2
  <2>2. \A d \in Chan \ {c} : tail'[d] = (head'[d] + n'[d]) % Cap[d]
    BY <1>3 DEF TailFollows
  <2> QED BY <2>1, <2>2 DEF TailFollows
<1> QED BY <1>7, <1>8, <1>9

LEMMA TailStays == ASSUME TailFollows, UNCHANGED ring PROVE TailFollows'
BY DEF TailFollows, ring

LEMMA NextImplements ==
  TypeInv /\ TailFollows /\ [Next]_vars
    => TailFollows' /\ [Abstract!Next]_(Abstract!vars)
<1> SUFFICES ASSUME TypeInv, TailFollows, [Next]_vars
             PROVE  TailFollows' /\ [Abstract!Next]_(Abstract!vars)
  OBVIOUS
<1>r. UNCHANGED ring => TailFollows' /\ queueOf' = queueOf
  BY TailStays, QueueStays
<1>s. queueOf' = queueOf /\ UNCHANGED <<closed, result>>
        => [Abstract!Next]_(Abstract!vars)
  BY DEF Abstract!vars
<1>u. CASE UNCHANGED vars
  BY <1>u, <1>r, <1>s DEF vars
<1>n. CASE Next
  <2> SUFFICES ASSUME NEW t \in Thread, Continue(t) \/ Begin(t)
               PROVE  TailFollows' /\ [Abstract!Next]_(Abstract!vars)
    BY <1>n DEF Next
  <2>c. /\ cur[t] \in Chan /\ val[t] \in Value
        /\ n[cur[t]] \in Nat /\ Cap[cur[t]] \in Nat \ {0} /\ n[cur[t]] <= Cap[cur[t]]
    BY CapNat DEF TypeInv, TypeOK, ThreadType, RingType
  <2>b. result' = [result EXCEPT ![t] = NoResult] /\ queueOf' = queueOf /\ closed' = closed
          => Abstract!Next
    BY DEF Abstract!Next, Abstract!Begin, Abstract!Answer, NoResult
  <2>e. ASSUME NEW c \in Chan, queueOf' = queueOf, closed' = closed,
               \/ result' = [result EXCEPT ![t] = <<"empty variable", c>>]
               \/ result' = [result EXCEPT ![t] = <<"negative time">>]
               \/ closed[c] /\ result' = [result EXCEPT ![t] = <<"send on closed", c>>]
        PROVE  Abstract!Next
    BY <2>e DEF Abstract!Next, Abstract!Error, Abstract!Answer
  <2>p. ASSUME NEW c \in Chan, NEW v \in Value, Put(c, v), n[c] < Cap[c],
               ~closed[c], closed' = closed,
               result' = [result EXCEPT ![t] = <<"sent", c, v>>]
        PROVE  TailFollows' /\ Abstract!Next
    <3>1. n[c] # Cap[c] /\ Len(queueOf[c]) < Cap[c]
      BY <2>p, CapNat, QueueTyped
    <3>2. queueOf' = [queueOf EXCEPT ![c] = Append(queueOf[c], v)] /\ TailFollows'
      BY <2>p, <3>1, PutAppends
    <3>3. Abstract!Send(t, c, v)
      BY <2>p, <3>1, <3>2 DEF Abstract!Send, Abstract!Answer
    <3> QED BY <3>2, <3>3 DEF Abstract!Next
  <2>g. ASSUME NEW c \in Chan, Take(c), n[c] # 0, closed' = closed,
               result' = [result EXCEPT ![t] = <<"got", c, buf[c][head[c]]>>]
        PROVE  TailFollows' /\ Abstract!Next
    <3>1. /\ queueOf' = [queueOf EXCEPT ![c] = Tail(queueOf[c])] /\ TailFollows'
          /\ queueOf[c] # <<>> /\ Head(queueOf[c]) = buf[c][head[c]]
      BY <2>g, TakeRemoves
    <3>2. Abstract!Receive(t, c)
      BY <2>g, <3>1 DEF Abstract!Receive, Abstract!Answer
    <3> QED BY <3>1, <3>2 DEF Abstract!Next
  <2>d. ASSUME NEW c \in Chan, closed[c], n[c] = 0, queueOf' = queueOf, closed' = closed,
               result' = [result EXCEPT ![t] = <<"closed", c>>]
        PROVE  Abstract!Next
    <3>1. queueOf[c] = <<>>
      BY <2>d, QueueTyped
    <3>2. Abstract!ReportClose(t, c)
      BY <2>d, <3>1 DEF Abstract!ReportClose, Abstract!Answer
    <3> QED BY <3>2 DEF Abstract!Next
  <2> USE DEF Answer
  <2>1. CASE \E c \in Chan, v \in Value : Send(t, c, v)
    <3> PICK c \in Chan, v \in Value : Send(t, c, v)
      BY <2>1
    <3>1. UNCHANGED ring /\ closed' = closed
      BY DEF Send, RuntimeError
    <3>2. \/ result' = [result EXCEPT ![t] = <<"empty variable", c>>]
          \/ result' = [result EXCEPT ![t] = NoResult]
      BY DEF Send, RuntimeError
    <3> QED BY <3>1, <3>2, <1>r, <2>b, <2>e
  <2>2. CASE \E c \in Chan : Receive(t, c)
    <3> PICK c \in Chan : Receive(t, c)
      BY <2>2
    <3>1. UNCHANGED ring /\ closed' = closed
      BY DEF Receive, RuntimeError
    <3>2. \/ result' = [result EXCEPT ![t] = <<"empty variable", c>>]
          \/ result' = [result EXCEPT ![t] = NoResult]
      BY DEF Receive, RuntimeError
    <3> QED BY <3>1, <3>2, <1>r, <2>b, <2>e
  <2>3. CASE SendBody(t)
    <3>1. \/ UNCHANGED <<ring, closed, result>>
          \/ /\ closed[cur[t]] /\ UNCHANGED <<ring, closed>>
             /\ result' = [result EXCEPT ![t] = <<"send on closed", cur[t]>>]
          \/ /\ Put(cur[t], val[t]) /\ n[cur[t]] # Cap[cur[t]] /\ ~closed[cur[t]]
             /\ closed' = closed
             /\ result' = [result EXCEPT ![t] = <<"sent", cur[t], val[t]>>]
      BY <2>3 DEF SendBody, RuntimeError
    <3>2. n[cur[t]] # Cap[cur[t]] => n[cur[t]] < Cap[cur[t]]
      BY <2>c
    <3> QED BY <3>1, <3>2, <2>c, <1>r, <1>s, <2>e, <2>p
  <2>4. CASE ReceiveBody(t)
    <3>1. \/ UNCHANGED <<ring, closed, result>>
          \/ /\ closed[cur[t]] /\ n[cur[t]] = 0 /\ UNCHANGED <<ring, closed>>
             /\ result' = [result EXCEPT ![t] = <<"closed", cur[t]>>]
          \/ /\ Take(cur[t]) /\ n[cur[t]] # 0 /\ closed' = closed
             /\ result' = [result EXCEPT ![t] = <<"got", cur[t], buf[cur[t]][head[cur[t]]]>>]
      BY <2>4 DEF ReceiveBody, Drained
    <3> QED BY <3>1, <2>c, <1>r, <1>s, <2>d, <2>g
  <2>5. CASE \E s \in Selects : Select(t, s)
    <3> PICK s \in Selects : Select(t, s)
      BY <2>5
    <3>1. UNCHANGED ring /\ closed' = closed
      BY DEF Select, RuntimeError
    <3>2. \/ \E c \in {s.arms[i].chan : i \in DOMAIN s.arms} :
               result' = [result EXCEPT ![t] = <<"empty variable", c>>]
          \/ result' = [result EXCEPT ![t] = <<"negative time">>]
          \/ result' = [result EXCEPT ![t] = NoResult]
      BY DEF Select, RuntimeError
    <3>3. \A i \in DOMAIN s.arms : s.arms[i].chan \in Chan
      <4>1. s.arms \in Seq(Arm)
        BY PasChanAssumption
      <4>2. \A i \in DOMAIN s.arms : s.arms[i] \in Arm
        BY <4>1
      <4> QED BY <4>2 DEF Arm
    <3> QED BY <3>1, <3>2, <3>3, <2>c, <1>r, <2>b, <2>e
  <2>6. CASE SelectBody(t)
    <3>1. ArmAt(t).val \in Value /\ ArmAt(t).kind \in Kind
      BY <2>6, ArmTyped DEF SelectBody, At, TypeInv, SelectTyped, Arm
    <3>2. \/ UNCHANGED <<ring, closed, result>>
          \/ /\ closed[cur[t]] /\ UNCHANGED <<ring, closed>>
             /\ result' = [result EXCEPT ![t] = <<"send on closed", cur[t]>>]
          \/ /\ closed[cur[t]] /\ n[cur[t]] = 0 /\ UNCHANGED <<ring, closed>>
             /\ result' = [result EXCEPT ![t] = <<"closed", cur[t]>>]
          \/ /\ Take(cur[t]) /\ n[cur[t]] # 0 /\ closed' = closed
             /\ result' = [result EXCEPT ![t] = <<"got", cur[t], buf[cur[t]][head[cur[t]]]>>]
          \/ /\ Put(cur[t], ArmAt(t).val) /\ n[cur[t]] < Cap[cur[t]]
             /\ ~closed[cur[t]] /\ closed' = closed
             /\ result' = [result EXCEPT ![t] = <<"sent", cur[t], ArmAt(t).val>>]
      BY <2>6 DEF SelectBody, RuntimeError, Drained, NotReady
    <3> QED BY <3>1, <3>2, <2>c, <1>r, <1>s, <2>d, <2>e, <2>g, <2>p
  <2>7. CASE SelectTimeout(t)
    <3>1. UNCHANGED <<ring, closed>> /\ result' = [result EXCEPT ![t] = <<"gave up">>]
      BY <2>7 DEF SelectTimeout
    <3>2. queueOf' = queueOf /\ TailFollows'
      BY <3>1, <1>r
    <3> QED BY <3>1, <3>2 DEF Abstract!Next, Abstract!GiveUp, Abstract!Answer
  <2>8. CASE \E c \in Chan : Release(t, c)
    <3>1. UNCHANGED <<ring, closed>> /\ result' = [result EXCEPT ![t] = NoResult]
      BY <2>8 DEF Release
    <3> QED BY <3>1, <1>r, <2>b
  <2>9. CASE Shut(t)
    <3>1. UNCHANGED <<ring, result>> /\ closed' = [closed EXCEPT ![cur[t]] = TRUE]
      BY <2>9 DEF Shut, MarkClosed
    <3>2. queueOf' = queueOf /\ TailFollows'
      BY <3>1, <1>r
    <3> QED BY <3>1, <3>2, <2>c DEF Abstract!Next, Abstract!Close
  <2>10. CASE \/ Resume(t) \/ SpuriousWakeup(t) \/ ActivitySignal(t) \/ SelectTry(t)
              \/ SelectFired(t) \/ SelectAgain(t) \/ Drop(t) \/ Leave(t)
              \/ ReleaseVariable(t)
              \/ \E u \in Thread, S \in SUBSET Chan : Spawn(t, u, S)
    <3>1. UNCHANGED <<ring, closed, result>>
      BY <2>10 DEF Resume, SpuriousWakeup, ActivitySignal, SelectTry, SelectFired,
         SelectAgain, Drop, Leave, ReleaseVariable, Spawn
    <3> QED BY <3>1, <1>r, <1>s
  <2> QED
    BY <2>1, <2>2, <2>3, <2>4, <2>5, <2>6, <2>7, <2>8, <2>9, <2>10
    DEF Continue, Begin
<1> QED BY <1>u, <1>n

\* The mutexes, condition variables and ring indices of a channel implement
\* the bounded queue of ChannelSpec: first in first out, no element lost or
\* taken twice, drained before the close is reported, for any number of
\* threads, any capacity and any program of selects.
THEOREM ChannelIsImplemented == Spec => ImplementsChannel
<1>1. Init => TailFollows /\ Abstract!Init
  <2> SUFFICES ASSUME Init PROVE TailFollows /\ Abstract!Init
    OBVIOUS
  <2>1. TailFollows
    BY CapNat, ModSmall DEF Init, TailFollows
  <2>2. queueOf = [c \in Chan |-> <<>>]
    BY DEF Init, queueOf
  <2> QED BY <2>1, <2>2 DEF Init, Abstract!Init, NoResult
<1>2. TypeInv /\ TailFollows /\ [Next]_vars
        => TailFollows' /\ [Abstract!Next]_(Abstract!vars)
  BY NextImplements
<1> QED
  BY <1>1, <1>2, InitTypeInv, NextTypeInv, PTL DEF Spec, ImplementsChannel, Abstract!Spec
=============================================================================
