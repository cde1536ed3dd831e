--------------------------- MODULE PasFileProofs ---------------------------
(***************************************************************************)
(* PasFile implements FileSpec, for every component type, every kind of    *)
(* file variable and every length: the proof of ImplementsFile for the     *)
(* programs of CarefulSpec, by the refinement mapping of PasFile.          *)
(***************************************************************************)
EXTENDS PasFile, TLAPS, SequenceTheorems

-----------------------------------------------------------------------------
(* Sequences cut at a place.                                               *)

\* A slice, element by element.
LEMMA SliceFacts ==
  ASSUME NEW S, NEW d \in Seq(S), NEW p \in Nat, NEW q \in Nat, p <= q, q <= Len(d)
  PROVE  /\ SubSeq(d, p + 1, q) \in Seq(S)
         /\ Len(SubSeq(d, p + 1, q)) = q - p
         /\ \A i \in 1 .. q - p : SubSeq(d, p + 1, q)[i] = d[p + i]
<1>1. p + 1 \in Int /\ q \in Int /\ \A i \in p + 1 .. q : d[i] \in S
  BY SMT
<1>2. /\ SubSeq(d, p + 1, q) \in Seq(S)
      /\ Len(SubSeq(d, p + 1, q)) = IF p + 1 <= q THEN q - (p + 1) + 1 ELSE 0
      /\ \A i \in 1 .. q - (p + 1) + 1 : SubSeq(d, p + 1, q)[i] = d[p + 1 + i - 1]
  BY <1>1, SubSeqProperties
<1>3. \A i \in 1 .. q - p : SubSeq(d, p + 1, q)[i] = d[p + i]
  <2>1. SUFFICES ASSUME NEW i \in 1 .. q - p PROVE SubSeq(d, p + 1, q)[i] = d[p + i]
    OBVIOUS
  <2>2. i \in 1 .. q - (p + 1) + 1 /\ p + 1 + i - 1 = p + i
    BY <2>1, SMT
  <2>. QED BY <1>2, <2>2
<1>. QED BY <1>2, <1>3, SMT

\* The slice from the beginning.
LEMMA PrefixFacts ==
  ASSUME NEW S, NEW d \in Seq(S), NEW h \in Nat, h <= Len(d)
  PROVE  /\ SubSeq(d, 1, h) \in Seq(S) /\ Len(SubSeq(d, 1, h)) = h
         /\ \A i \in 1 .. h : SubSeq(d, 1, h)[i] = d[i]
<1>1. 0 \in Nat /\ 0 <= h /\ 0 + 1 = 1 /\ h - 0 = h /\ \A i \in 1 .. h : 0 + i = i
  BY SMT
<1>2. /\ SubSeq(d, 0 + 1, h) \in Seq(S)
      /\ Len(SubSeq(d, 0 + 1, h)) = h - 0
      /\ \A i \in 1 .. h - 0 : SubSeq(d, 0 + 1, h)[i] = d[0 + i]
  BY <1>1, SliceFacts
<1>. QED BY <1>1, <1>2

\* A file read to its end has nothing after it, and only that one.
LEMMA EmptyRest ==
  ASSUME NEW S, NEW d \in Seq(S), NEW h \in Nat, h <= Len(d)
  PROVE  SubSeq(d, h + 1, Len(d)) = <<>> <=> h = Len(d)
<1>1. Len(d) \in Nat /\ Len(d) <= Len(d)
  BY SMT
<1>2. SubSeq(d, h + 1, Len(d)) \in Seq(S) /\ Len(SubSeq(d, h + 1, Len(d))) = Len(d) - h
  BY <1>1, SliceFacts
<1>3. SubSeq(d, h + 1, Len(d)) = <<>> <=> Len(d) - h = 0
  BY <1>2, EmptySeq
<1>. QED BY <1>1, <1>3, SMT

\* What is before a place and what is from it on make up the whole.
LEMMA CutFacts ==
  ASSUME NEW S, NEW d \in Seq(S), NEW h \in Nat, h <= Len(d)
  PROVE  /\ SubSeq(d, 1, h) \in Seq(S) /\ SubSeq(d, h + 1, Len(d)) \in Seq(S)
         /\ Len(SubSeq(d, 1, h)) = h /\ Len(SubSeq(d, h + 1, Len(d))) = Len(d) - h
         /\ SubSeq(d, 1, h) \o SubSeq(d, h + 1, Len(d)) = d
         /\ (SubSeq(d, h + 1, Len(d)) = <<>> <=> h = Len(d))
<1>1. Len(d) \in Nat /\ Len(d) <= Len(d)
  BY SMT
<1>2. SubSeq(d, 1, h) \in Seq(S) /\ Len(SubSeq(d, 1, h)) = h
  BY PrefixFacts
<1>3. SubSeq(d, h + 1, Len(d)) \in Seq(S) /\ Len(SubSeq(d, h + 1, Len(d))) = Len(d) - h
  BY <1>1, SliceFacts
<1>4. SubSeq(d, 1, h) \o SubSeq(d, h + 1, Len(d)) = d
  <2>1. 1 \in 1 .. Len(d) + 1 /\ h \in 1 - 1 .. Len(d) /\ Len(d) \in h .. Len(d)
    BY <1>1, SMT
  <2>2. SubSeq(d, 1, h) \o SubSeq(d, h + 1, Len(d)) = SubSeq(d, 1, Len(d))
    BY <2>1, ConcatAdjacentSubSeq
  <2>. QED BY <2>2, SubSeqFull
<1>5. SubSeq(d, h + 1, Len(d)) = <<>> <=> h = Len(d)
  BY EmptyRest, Zenon
<1>. QED BY <1>2, <1>3, <1>4, <1>5

\* The component at the place, and the step over it.
LEMMA StepFacts ==
  ASSUME NEW S, NEW d \in Seq(S), NEW h \in Nat, h < Len(d)
  PROVE  /\ Head(SubSeq(d, h + 1, Len(d))) = d[h + 1]
         /\ Tail(SubSeq(d, h + 1, Len(d))) = SubSeq(d, h + 2, Len(d))
         /\ Append(SubSeq(d, 1, h), d[h + 1]) = SubSeq(d, 1, h + 1)
         /\ d[h + 1] \in S
<1>1. /\ h + 1 \in 1 .. Len(d) /\ Len(d) \in h + 1 .. Len(d) /\ 1 \in 1 .. Len(d)
      /\ h + 1 \in 1 .. Len(d) /\ h + 1 + 1 = h + 2 /\ h + 1 - 1 = h
  BY SMT
<1>2. /\ Head(SubSeq(d, h + 1, Len(d))) = d[h + 1]
      /\ Tail(SubSeq(d, h + 1, Len(d))) = SubSeq(d, h + 1 + 1, Len(d))
  BY <1>1, HeadTailOfSubSeq
<1>3. d[h + 1] \in S
  BY <1>1, SMT
<1>4. SubSeq(d, 1, h + 1) = SubSeq(d, 1, h + 1 - 1) \o <<d[h + 1]>>
  BY <1>1, SubSeqRecursiveSecond
<1>5. SubSeq(d, 1, h) \in Seq(S)
  BY <1>1, PrefixFacts, SMT
<1>6. Append(SubSeq(d, 1, h), d[h + 1]) = SubSeq(d, 1, h) \o <<d[h + 1]>>
  BY <1>3, <1>5, AppendIsConcat
<1>. QED BY <1>1, <1>2, <1>3, <1>4, <1>6

\* Sequences that agree on the first k elements.
LEMMA SamePrefix ==
  ASSUME NEW S, NEW d \in Seq(S), NEW e \in Seq(S), NEW k \in Nat, k <= Len(d), k <= Len(e),
         \A i \in 1 .. k : d[i] = e[i]
  PROVE  SubSeq(d, 1, k) = SubSeq(e, 1, k)
<1>1. /\ SubSeq(d, 1, k) \in Seq(S) /\ SubSeq(e, 1, k) \in Seq(S)
      /\ Len(SubSeq(d, 1, k)) = k /\ Len(SubSeq(e, 1, k)) = k
      /\ \A i \in 1 .. k : SubSeq(d, 1, k)[i] = SubSeq(e, 1, k)[i]
  BY PrefixFacts
<1>. QED BY <1>1, SeqEqual

\* fwrite at a place of the file or at its end: the components before it and
\* those after the one written stay.
Placed(d, h, x) == IF h >= Len(d) THEN Append(d, x) ELSE [d EXCEPT ![h + 1] = x]

LEMMA PlacedFacts ==
  ASSUME NEW S, NEW d \in Seq(S), NEW h \in Nat, h <= Len(d), NEW x \in S
  PROVE  /\ Placed(d, h, x) \in Seq(S) /\ Placed(d, h, x)[h + 1] = x
         /\ Len(Placed(d, h, x)) = IF h = Len(d) THEN h + 1 ELSE Len(d)
         /\ SubSeq(Placed(d, h, x), 1, h) = SubSeq(d, 1, h)
         /\ SubSeq(Placed(d, h, x), h + 2, Len(Placed(d, h, x))) = SubSeq(d, h + 2, Len(d))
<1>. DEFINE e == Placed(d, h, x)
<1>1. Len(d) \in Nat
  BY SMT
<1>2. CASE h = Len(d)
  <2>1. e = Append(d, x)
    BY <1>1, <1>2, SMT DEF Placed
  <2>2. /\ e \in Seq(S) /\ Len(e) = Len(d) + 1 /\ e[Len(d) + 1] = x
        /\ \A i \in 1 .. Len(d) : e[i] = d[i]
    BY <2>1, AppendProperties
  <2>3. SubSeq(e, 1, h) = SubSeq(d, 1, h)
    <3>1. h <= Len(e) /\ h <= Len(d)
      BY <1>1, <1>2, <2>2, SMT
    <3>. QED BY <1>2, <2>2, <3>1, SamePrefix
  <2>4. SubSeq(e, h + 2, Len(e)) = <<>> /\ SubSeq(d, h + 2, Len(d)) = <<>>
    <3>1. h + 2 \in Int /\ Len(e) \in Int /\ Len(d) \in Int /\ Len(e) < h + 2 /\ Len(d) < h + 2
      BY <1>1, <1>2, <2>2, SMT
    <3>. QED BY <3>1, SubSeqEmpty
  <2>. QED BY <1>2, <2>2, <2>3, <2>4
<1>3. CASE h < Len(d)
  <2>1. e = [d EXCEPT ![h + 1] = x]
    BY <1>1, <1>3, SMT DEF Placed
  <2>2. h + 1 \in 1 .. Len(d)
    BY <1>1, <1>3, SMT
  <2>3. e \in Seq(S) /\ Len(e) = Len(d) /\ \A i \in 1 .. Len(d) : e[i] = IF i = h + 1 THEN x ELSE d[i]
    BY <2>1, <2>2, ExceptSeq
  <2>4. SubSeq(e, 1, h) = SubSeq(d, 1, h)
    <3>1. h <= Len(e) /\ \A i \in 1 .. h : e[i] = d[i]
      BY <1>1, <2>2, <2>3, SMT
    <3>. QED BY <2>3, <3>1, SamePrefix
  <2>5. SubSeq(e, h + 2, Len(e)) = SubSeq(d, h + 2, Len(d))
    <3>1. /\ h + 1 \in Nat /\ h + 1 <= Len(d) /\ h + 1 <= Len(e) /\ h + 1 + 1 = h + 2
          /\ \A i \in 1 .. Len(d) - (h + 1) : (h + 1) + i \in 1 .. Len(d) /\ (h + 1) + i # h + 1
      BY <1>1, <2>2, <2>3, SMT
    <3>2. /\ SubSeq(e, h + 1 + 1, Len(e)) \in Seq(S) /\ Len(SubSeq(e, h + 1 + 1, Len(e))) = Len(e) - (h + 1)
          /\ \A i \in 1 .. Len(e) - (h + 1) : SubSeq(e, h + 1 + 1, Len(e))[i] = e[(h + 1) + i]
      <4>1. Len(e) \in Nat /\ Len(e) <= Len(e)
        BY <1>1, <2>3, SMT
      <4>. HIDE DEF e
      <4>. QED BY <2>3, <3>1, <4>1, SliceFacts
    <3>3. /\ SubSeq(d, h + 1 + 1, Len(d)) \in Seq(S) /\ Len(SubSeq(d, h + 1 + 1, Len(d))) = Len(d) - (h + 1)
          /\ \A i \in 1 .. Len(d) - (h + 1) : SubSeq(d, h + 1 + 1, Len(d))[i] = d[(h + 1) + i]
      <4>1. Len(d) <= Len(d)
        BY <1>1, SMT
      <4>. QED BY <1>1, <3>1, <4>1, SliceFacts
    <3>4. \A i \in 1 .. Len(d) - (h + 1) : e[(h + 1) + i] = d[(h + 1) + i]
      BY <2>3, <3>1
    <3>. HIDE DEF e
    <3>5. \A i \in 1 .. Len(d) - (h + 1) :
             SubSeq(e, h + 1 + 1, Len(e))[i] = SubSeq(d, h + 1 + 1, Len(d))[i]
      BY <2>3, <3>2, <3>3, <3>4
    <3>6. SubSeq(e, h + 1 + 1, Len(e)) = SubSeq(d, h + 1 + 1, Len(d))
      BY <2>3, <3>2, <3>3, <3>5, SeqEqual
    <3>. QED BY <3>1, <3>6
  <2>6. e[h + 1] = x
    BY <2>2, <2>3
  <2>7. h # Len(d)
    BY <1>1, <1>3, SMT
  <2>. QED BY <2>3, <2>4, <2>5, <2>6, <2>7
<1>4. h = Len(d) \/ h < Len(d)
  BY <1>1, SMT
<1>. QED BY <1>2, <1>3, <1>4

-----------------------------------------------------------------------------
(* The inductive invariant.                                                *)

\* What holds between the calls of a careful program: when there is a
\* component of read-ahead, and where the stream stands then; append mode is
\* writing to an external file; f^ is a component once it was fetched or
\* assigned; and a bounded file is within its bound.
ReadAhead ==
  /\ mode \in {"closed", "writing"} => ~have
  /\ ateof => have
  /\ have /\ ateof => at = Len(data)
  /\ have /\ ~ateof => at >= 1 /\ buf \in Component
  /\ assigned => buf \in Component
  /\ appending => mode = "writing" /\ Named
  /\ mode = "updating" => Direct
  /\ isOpen => mode # "closed"
  /\ Direct /\ Capacity > 0 => Len(data) <= Capacity

FileInv == TypeOK /\ ReadAhead

\* The position is a place of the file or its end, and the file is what is
\* before it and what is from it on.
LEMMA HereFacts ==
  ASSUME FileInv
  PROVE  /\ data \in Seq(Component) /\ Len(data) \in Nat
         /\ Here \in Nat /\ Here <= Len(data)
         /\ SubSeq(data, 1, Here) \o SubSeq(data, Here + 1, Len(data)) = data
         /\ Len(SubSeq(data, 1, Here)) = Here
         /\ (SubSeq(data, Here + 1, Len(data)) = <<>> <=> Here = Len(data))
         /\ Undefined \notin Component
<1>1. data \in Seq(Component) /\ Len(data) \in Nat /\ Here \in Nat /\ Here <= Len(data)
  BY SMT DEF FileInv, TypeOK, ReadAhead, Here
<1>2. /\ SubSeq(data, 1, Here) \o SubSeq(data, Here + 1, Len(data)) = data
      /\ Len(SubSeq(data, 1, Here)) = Here
      /\ (SubSeq(data, Here + 1, Len(data)) = <<>> <=> Here = Len(data))
  BY <1>1, CutFacts
<1>. QED BY <1>1, <1>2, PasFileAssumption

\* What pas_fill finds: the end exactly when nothing is left, else the
\* component the program stands at.
LEMMA FillFacts ==
  ASSUME FileInv, mode \in {"reading", "updating"}
  PROVE  /\ FillEof \in BOOLEAN /\ (FillEof <=> Here = Len(data))
         /\ ~FillEof => /\ FillAt = Here + 1 /\ Here < Len(data)
                        /\ FillBuf = Buffered /\ FillBuf \in Component
         /\ FillEof => FillAt = Here /\ Buffered = Undefined
         /\ FillBuf \in Component \cup {Undefined}
         /\ ~appending
<1>1. /\ data \in Seq(Component) /\ Len(data) \in Nat /\ at \in Nat /\ at <= Len(data)
      /\ have \in BOOLEAN /\ ateof \in BOOLEAN /\ ~appending
      /\ buf \in Component \cup {Undefined}
      /\ (have /\ ateof => at = Len(data)) /\ (have /\ ~ateof => at >= 1 /\ buf \in Component)
  BY SMT DEF FileInv, TypeOK, ReadAhead
<1>2. Here = IF have /\ ~ateof THEN at - 1 ELSE at
  BY <1>1 DEF Here
<1>3. Buffered = IF Here >= Len(data) THEN Undefined ELSE IF have THEN buf ELSE data[Here + 1]
  BY DEF Buffered
<1>4. CASE have
  <2>1. FillEof = ateof /\ FillBuf = buf /\ FillAt = at
    BY <1>4 DEF FillEof, FillBuf, FillAt
  <2>2. CASE ateof
    <3>1. Here = at /\ at = Len(data) /\ FillEof
      BY <1>1, <1>2, <1>4, <2>1, <2>2
    <3>2. Here >= Len(data)
      BY <1>1, <3>1, SMT
    <3>. QED BY <1>1, <1>3, <2>1, <3>1, <3>2
  <2>3. CASE ~ateof
    <3>1. Here = at - 1 /\ ~FillEof /\ at >= 1 /\ buf \in Component
      BY <1>1, <1>2, <1>4, <2>1, <2>3
    <3>2. Here < Len(data) /\ at = Here + 1 /\ ~(Here >= Len(data)) /\ Here # Len(data)
      BY <1>1, <3>1, SMT
    <3>. QED BY <1>1, <1>3, <1>4, <2>1, <3>1, <3>2
  <2>. QED BY <1>1, <2>2, <2>3
<1>5. CASE ~have
  <2>1. Here = at /\ FillEof = AtEnd /\ AtEnd \in BOOLEAN
    BY <1>2, <1>5 DEF FillEof, AtEnd
  <2>2. CASE AtEnd
    <3>1. at = Len(data) /\ at >= Len(data)
      BY <1>1, <2>2, SMT DEF AtEnd
    <3>2. FillBuf = buf /\ FillAt = at
      BY <2>2 DEF FillBuf, FillAt
    <3>. QED BY <1>1, <1>3, <2>1, <2>2, <3>1, <3>2
  <2>3. CASE ~AtEnd
    <3>1. at < Len(data) /\ ~(at >= Len(data)) /\ at # Len(data) /\ data[at + 1] \in Component
      BY <1>1, <2>3, SMT DEF AtEnd
    <3>2. FillBuf = data[at + 1] /\ FillAt = at + 1
      BY <1>5, <2>3 DEF FillBuf, FillAt
    <3>. QED BY <1>1, <1>3, <1>5, <2>1, <2>3, <3>1, <3>2
  <2>. QED BY <2>2, <2>3
<1>. QED BY <1>1, <1>4, <1>5

\* After a fetch the program stands where it stood, before the same f^.
LEMMA FetchFacts ==
  ASSUME FileInv, mode \in {"reading", "updating"},
         have' = TRUE, ateof' = FillEof, at' = FillAt, buf' = FillBuf,
         data' = data, mode' = mode, appending' = appending
  PROVE  Here' = Here /\ Buffered' = Buffered
<1>1. /\ FillEof \in BOOLEAN /\ (FillEof <=> Here = Len(data))
      /\ ~FillEof => FillAt = Here + 1 /\ Here < Len(data) /\ FillBuf = Buffered
      /\ FillEof => FillAt = Here /\ Buffered = Undefined
      /\ ~appending
  BY FillFacts
<1>2. Here \in Nat /\ Len(data) \in Nat
  BY HereFacts
<1>3. Here' = IF ~FillEof THEN FillAt - 1 ELSE FillAt
  BY <1>1 DEF Here
<1>4. Here' = Here
  BY <1>1, <1>2, <1>3, SMT
<1>5. Buffered' = IF Here >= Len(data) THEN Undefined ELSE FillBuf
  BY <1>4 DEF Buffered
<1>6. CASE FillEof
  <2>1. Here >= Len(data)
    BY <1>1, <1>2, <1>6, SMT
  <2>. QED BY <1>1, <1>4, <1>5, <1>6, <2>1
<1>7. CASE ~FillEof
  <2>1. ~(Here >= Len(data))
    BY <1>1, <1>2, <1>7, SMT
  <2>. QED BY <1>1, <1>4, <1>5, <1>7, <2>1
<1>. QED BY <1>6, <1>7

\* pas_runtime_error.
LEMMA FailsStep ==
  ASSUME FileInv, kind' = kind, Fails
  PROVE  FileInv' /\ Iso!Stop
<1>1. /\ data' = data /\ at' = at /\ appending' = appending /\ isOpen' = isOpen /\ mode' = mode
      /\ have' = have /\ ateof' = ateof /\ buf' = buf /\ assigned' = assigned
      /\ stopped' = TRUE /\ reply' = <<>>
  BY DEF Fails, stream, ahead
<1>2. FileInv'
  BY <1>1 DEF FileInv, TypeOK, ReadAhead, Named, Direct, Capacity
<1>3. Here' = Here
  BY <1>1 DEF Here
<1>4. Buffered' = Buffered
  BY <1>1, <1>3 DEF Buffered
<1>. QED BY <1>1, <1>2, <1>3, <1>4 DEF Iso!Stop

-----------------------------------------------------------------------------
(* reset, rewrite, extend and the seeks.                                   *)

\* An opening or a seek leaves the file at h with nothing fetched: f^ is then
\* what follows.
LEMMA OpenFacts ==
  ASSUME NEW h, data' \in Seq(Component), h \in Nat, h <= Len(data'), Here' = h,
         mode' \in {"reading", "writing", "updating"}, have' = FALSE, assigned' = FALSE
  PROVE  Buffered' = Iso!Follows(mode', SubSeq(data', h + 1, Len(data')))
<1>1. Len(data') \in Nat
  BY SMT
<1>2. (SubSeq(data', h + 1, Len(data')) = <<>>) <=> (h = Len(data'))
  <2>1. \A d \in Seq(Component) : h <= Len(d) => (SubSeq(d, h + 1, Len(d)) = <<>> <=> h = Len(d))
    BY EmptyRest, Zenon
  <2>. QED BY <2>1
<1>3. CASE mode' = "writing"
  <2>1. Buffered' = Undefined
    BY <1>3 DEF Buffered
  <2>2. Iso!Follows(mode', SubSeq(data', h + 1, Len(data'))) = Undefined
    BY <1>3 DEF Iso!Follows
  <2>. QED BY <2>1, <2>2
<1>4. CASE mode' \in {"reading", "updating"}
  <2>1. Buffered' = IF h >= Len(data') THEN Undefined ELSE data'[h + 1]
    BY <1>4 DEF Buffered
  <2>2. Iso!Follows(mode', SubSeq(data', h + 1, Len(data'))) =
          IF SubSeq(data', h + 1, Len(data')) = <<>> THEN Undefined
          ELSE Head(SubSeq(data', h + 1, Len(data')))
    BY <1>4 DEF Iso!Follows, Iso!First
  <2>3. CASE h = Len(data')
    <3>1. h >= Len(data')
      BY <1>1, <2>3, SMT
    <3>. QED BY <1>2, <2>1, <2>2, <2>3, <3>1
  <2>4. CASE h # Len(data')
    <3>1. h < Len(data') /\ ~(h >= Len(data'))
      BY <1>1, <2>4, SMT
    <3>2. Head(SubSeq(data', h + 1, Len(data'))) = data'[h + 1]
      BY <3>1, StepFacts
    <3>. QED BY <1>2, <2>1, <2>2, <2>4, <3>1, <3>2
  <2>. QED BY <2>3, <2>4
<1>. QED BY <1>3, <1>4
\* Such a step keeps the invariant.
LEMMA OpenKeeps ==
  ASSUME FileInv, kind' = kind, data' \in Seq(Component), at' \in 0 .. Len(data'),
         mode' \in {"reading", "writing", "updating"}, mode' = "updating" => Direct,
         isOpen' \in BOOLEAN, appending' \in BOOLEAN, appending' => mode' = "writing" /\ Named,
         have' = FALSE, ateof' = FALSE, buf' = buf, assigned' = FALSE, stopped' = stopped,
         Direct /\ Capacity > 0 => Len(data') <= Capacity
  PROVE  FileInv'
<1>1. kind \in Kinds /\ buf \in Component \cup {Undefined} /\ stopped \in BOOLEAN
  BY DEF FileInv, TypeOK
<1>2. TypeOK'
  <2>1. mode' \in {"closed", "reading", "writing", "updating"}
    OBVIOUS
  <2>. QED BY <1>1, <2>1, Zenon DEF TypeOK
<1>3. Named' = Named /\ Direct' = Direct /\ Capacity' = Capacity
  BY DEF Named, Direct, Capacity
<1>4. mode' # "closed"
  OBVIOUS
<1>5. ReadAhead'
  BY <1>3, <1>4, Zenon DEF ReadAhead
<1>. QED BY <1>2, <1>5 DEF FileInv

LEMMA OpenStep ==
  ASSUME NEW h \in Nat, NEW e \in Seq(Component), h <= Len(e), data' = e, Here' = h,
         mode' \in {"reading", "writing", "updating"}, have' = FALSE, assigned' = FALSE, Quiet
  PROVE  Iso!Open(SubSeq(e, 1, h), SubSeq(e, h + 1, Len(e)), mode')
<1>1. Buffered' = Iso!Follows(mode', SubSeq(data', h + 1, Len(data')))
  BY OpenFacts
<1>. QED BY <1>1 DEF Iso!Open, Iso!Quiet, Quiet

\* The slices at the two ends of a file.
LEMMA EndSlices ==
  ASSUME NEW e \in Seq(Component)
  PROVE  /\ SubSeq(e, 1, 0) = <<>> /\ SubSeq(e, 0 + 1, Len(e)) = e
         /\ SubSeq(e, 1, Len(e)) = e /\ SubSeq(e, Len(e) + 1, Len(e)) = <<>>
<1>1. /\ 1 \in Int /\ 0 \in Int /\ Len(e) \in Int /\ 0 < 1 /\ 0 + 1 = 1
      /\ Len(e) + 1 \in Int /\ Len(e) < Len(e) + 1
  BY SMT
<1>. QED BY <1>1, SubSeqEmpty, SubSeqFull

LEMMA ResetStep ==
  ASSUME FileInv, kind' = kind, Reset
  PROVE  FileInv' /\ (Iso!Reset \/ Iso!Stop)
<1>1. CASE Fails
  BY <1>1, FailsStep
<1>2. CASE /\ at' = 0 /\ appending' = IF Named THEN FALSE ELSE appending
           /\ isOpen' = TRUE /\ mode' = "reading" /\ assigned' = FALSE
           /\ Dropped /\ Quiet /\ UNCHANGED data
  <2>1. /\ at' = 0 /\ appending' = FALSE /\ isOpen' = TRUE /\ mode' = "reading" /\ assigned' = FALSE
        /\ have' = FALSE /\ ateof' = FALSE /\ buf' = buf /\ data' = data /\ stopped' = stopped
    BY <1>2, Zenon DEF Dropped, Quiet, FileInv, TypeOK, ReadAhead
  <2>2. Here' = 0
    BY <2>1 DEF Here
  <2>3. data \in Seq(Component) /\ 0 \in Nat /\ 0 <= Len(data) /\ 0 \in 0 .. Len(data)
    BY HereFacts, SMT
  <2>4. FileInv'
    BY <2>1, <2>3, OpenKeeps DEF FileInv, ReadAhead
  <2>5. Iso!Open(SubSeq(data, 1, 0), SubSeq(data, 0 + 1, Len(data)), mode')
    BY <1>2, <2>1, <2>2, <2>3, OpenStep
  <2>6. Iso!Open(<<>>, data, "reading")
    BY <2>1, <2>3, <2>5, EndSlices
  <2>7. SubSeq(data, 1, Here) \o SubSeq(data, Here + 1, Len(data)) = data
    BY HereFacts
  <2>. QED BY <2>4, <2>6, <2>7 DEF Iso!Reset
<1>. QED BY <1>1, <1>2 DEF Reset

LEMMA RewriteStep ==
  ASSUME FileInv, kind' = kind, Rewrite
  PROVE  FileInv' /\ (Iso!Rewrite \/ Iso!Stop)
<1>1. CASE Fails
  BY <1>1, FailsStep
<1>2. CASE /\ data' = <<>> /\ at' = 0 /\ appending' = FALSE
           /\ isOpen' = TRUE /\ mode' = "writing" /\ assigned' = FALSE
           /\ Dropped /\ Quiet
  <2>1. /\ at' = 0 /\ appending' = FALSE /\ isOpen' = TRUE /\ mode' = "writing" /\ assigned' = FALSE
        /\ have' = FALSE /\ ateof' = FALSE /\ buf' = buf /\ data' = <<>> /\ stopped' = stopped
    BY <1>2 DEF Dropped, Quiet
  <2>2. <<>> \in Seq(Component) /\ Len(<<>>) = 0 /\ 0 \in Nat /\ 0 <= 0
    BY EmptySeq, SMT
  <2>3. FileInv'
    <3>1. Capacity > 0 => 0 <= Capacity
      BY PasFileAssumption, SMT DEF FileInv, TypeOK, Capacity
    <3>2. 0 \in 0 .. Len(<<>>)
      BY <2>2, SMT
    <3>. QED BY <2>1, <2>2, <3>1, <3>2, OpenKeeps
  <2>4. Here' = 0
    BY <2>1 DEF Here
  <2>5. Iso!Open(SubSeq(<<>>, 1, 0), SubSeq(<<>>, 0 + 1, Len(<<>>)), mode')
    BY <1>2, <2>1, <2>2, <2>4, OpenStep
  <2>6. Iso!Open(<<>>, <<>>, "writing")
    BY <2>1, <2>2, <2>5, EndSlices
  <2>. QED BY <2>3, <2>6 DEF Iso!Rewrite
<1>. QED BY <1>1, <1>2 DEF Rewrite

LEMMA ExtendStep ==
  ASSUME FileInv, kind' = kind, Extend
  PROVE  FileInv' /\ (Iso!Extend \/ Iso!Stop)
<1>1. CASE Fails
  BY <1>1, FailsStep
<1>2. CASE /\ IF Named THEN appending' = TRUE /\ at' \in {0, Len(data)}
                       ELSE appending' = FALSE /\ at' = Len(data)
           /\ isOpen' = TRUE /\ mode' = "writing" /\ assigned' = FALSE
           /\ Dropped /\ Quiet /\ UNCHANGED data
  <2>1. /\ isOpen' = TRUE /\ mode' = "writing" /\ assigned' = FALSE
        /\ have' = FALSE /\ ateof' = FALSE /\ buf' = buf /\ data' = data /\ stopped' = stopped
    BY <1>2 DEF Dropped, Quiet
  <2>2. /\ appending' \in BOOLEAN /\ at' \in {0, Len(data)}
        /\ (appending' => Named) /\ (~appending' => at' = Len(data))
    BY <1>2
  <2>3. Here' = Len(data)
    BY <2>1, <2>2 DEF Here
  <2>4. data \in Seq(Component) /\ Len(data) \in Nat /\ Len(data) <= Len(data)
    BY HereFacts, SMT
  <2>5. FileInv'
    <3>1. at' \in 0 .. Len(data)
      BY <2>2, <2>4, SMT
    <3>. QED BY <2>1, <2>2, <2>4, <3>1, OpenKeeps DEF FileInv, ReadAhead
  <2>6. Iso!Open(SubSeq(data, 1, Len(data)), SubSeq(data, Len(data) + 1, Len(data)), mode')
    BY <1>2, <2>1, <2>3, <2>4, OpenStep
  <2>7. Iso!Open(data, <<>>, "writing")
    BY <2>1, <2>4, <2>6, EndSlices
  <2>8. SubSeq(data, 1, Here) \o SubSeq(data, Here + 1, Len(data)) = data
    BY HereFacts
  <2>. QED BY <2>5, <2>7, <2>8 DEF Iso!Extend
<1>. QED BY <1>1, <1>2 DEF Extend

LEMMA SeekStep ==
  ASSUME FileInv, kind' = kind, NEW n \in Int, NEW m \in {"reading", "writing", "updating"},
         ~appending, Seek(n, m)
  PROVE  /\ FileInv'
         /\ \/ Iso!Stop
            \/ /\ n \in 0 .. Len(SubSeq(data, 1, Here) \o SubSeq(data, Here + 1, Len(data)))
               /\ Iso!Seek(n, m)
<1>1. CASE ~isOpen \/ mode = "closed" \/ n < 0 \/ n > Len(data)
  BY <1>1, FailsStep DEF Seek
<1>2. CASE ~(~isOpen \/ mode = "closed" \/ n < 0 \/ n > Len(data))
  <2>1. data \in Seq(Component) /\ Len(data) \in Nat
    BY HereFacts
  <2>2. /\ at' = n /\ mode' = m /\ assigned' = FALSE /\ have' = FALSE /\ ateof' = FALSE /\ buf' = buf
        /\ data' = data /\ appending' = appending /\ isOpen' = isOpen /\ Quiet
        /\ stopped' = stopped /\ Direct /\ mode # "closed"
    BY <1>2 DEF Seek, Dropped, Quiet
  <2>3. n \in Nat /\ n <= Len(data) /\ n \in 0 .. Len(data)
    BY <1>2, <2>1, SMT
  <2>4. FileInv'
    BY <2>1, <2>2, <2>3, OpenKeeps DEF FileInv, TypeOK, ReadAhead
  <2>5. Here' = n
    BY <2>2 DEF Here
  <2>6. Iso!Open(SubSeq(data, 1, n), SubSeq(data, n + 1, Len(data)), m)
    BY <2>1, <2>2, <2>3, <2>5, OpenStep
  <2>7. SubSeq(data, 1, Here) \o SubSeq(data, Here + 1, Len(data)) = data
    BY HereFacts
  <2>. QED BY <2>2, <2>3, <2>4, <2>6, <2>7 DEF Iso!Seek
<1>. QED BY <1>1, <1>2
-----------------------------------------------------------------------------
(* The buffer variable.                                                    *)

\* A step inside one opening of the file keeps the invariant when it keeps the
\* read-ahead consistent.
LEMMA MoveKeeps ==
  ASSUME FileInv, kind' = kind, mode' = mode, isOpen' = isOpen, appending' = appending,
         data' \in Seq(Component), at' \in 0 .. Len(data'),
         have' \in BOOLEAN, ateof' \in BOOLEAN, assigned' \in BOOLEAN, stopped' = stopped,
         buf' \in Component \cup {Undefined},
         mode \in {"closed", "writing"} => ~have', ateof' => have',
         have' /\ ateof' => at' = Len(data'),
         have' /\ ~ateof' => at' >= 1 /\ buf' \in Component,
         assigned' => buf' \in Component,
         Direct /\ Capacity > 0 => Len(data') <= Capacity
  PROVE  FileInv'
<1>1. /\ kind \in Kinds /\ mode \in {"closed", "reading", "writing", "updating"}
      /\ isOpen \in BOOLEAN /\ appending \in BOOLEAN /\ stopped \in BOOLEAN
  BY DEF FileInv, TypeOK
<1>2. TypeOK'
  BY <1>1, Zenon DEF TypeOK
<1>3. Named' = Named /\ Direct' = Direct /\ Capacity' = Capacity
  BY DEF Named, Direct, Capacity
<1>4. /\ appending => mode = "writing" /\ Named
      /\ mode = "updating" => Direct
      /\ isOpen => mode # "closed"
  BY DEF FileInv, ReadAhead
<1>5. ReadAhead'
  BY <1>3, <1>4, Zenon DEF ReadAhead
<1>. QED BY <1>2, <1>5 DEF FileInv

\* f^ used: what pas_buffer does before the program gets at it.
LEMMA UseFacts ==
  ASSUME FileInv, NEW x, buf' = x, x \in Component \cup {Undefined},
         mode \in {"reading", "updating"} => x \in Component,
         kind' = kind, assigned' \in BOOLEAN, assigned' => x \in Component,
         Buffer(buf' = x), ~Fails
  PROVE  /\ FileInv' /\ data' = data /\ mode' = mode /\ Here' = Here /\ stopped' = stopped
         /\ mode # "closed" /\ mode \in {"reading", "writing", "updating"}
         /\ mode \in {"reading", "updating"} => ~FillEof /\ Buffered' = x
         /\ mode = "writing" => Buffered' = IF assigned' THEN x ELSE Undefined
<1>1. /\ data \in Seq(Component) /\ Len(data) \in Nat /\ Here \in Nat
      /\ at \in 0 .. Len(data) /\ have \in BOOLEAN /\ ateof \in BOOLEAN
      /\ mode \in {"closed", "reading", "writing", "updating"}
      /\ (Direct /\ Capacity > 0 => Len(data) <= Capacity)
  BY HereFacts DEF FileInv, TypeOK, ReadAhead
<1>2. CASE mode \in {"reading", "updating"}
  <2>1. /\ have' = TRUE /\ ateof' = FALSE /\ at' = FillAt /\ data' = data /\ appending' = appending
        /\ isOpen' = isOpen /\ mode' = mode /\ stopped' = stopped /\ ~FillEof
    BY <1>2 DEF Buffer
  <2>2. FillAt = Here + 1 /\ Here < Len(data) /\ ~appending
    BY <1>2, <2>1, FillFacts
  <2>3. at' \in 0 .. Len(data) /\ at' >= 1 /\ at' - 1 = Here /\ ~(Here >= Len(data))
    BY <1>1, <2>1, <2>2, SMT
  <2>4. FileInv'
    BY <1>1, <1>2, <2>1, <2>3, MoveKeeps
  <2>5. Here' = Here
    BY <2>1, <2>2, <2>3 DEF Here
  <2>6. Buffered' = x
    BY <1>2, <2>1, <2>3, <2>5 DEF Buffered
  <2>. QED BY <1>2, <2>1, <2>4, <2>5, <2>6
<1>3. CASE mode = "closed"
  BY <1>3 DEF Buffer
<1>4. CASE mode = "writing"
  <2>1. /\ data' = data /\ at' = at /\ appending' = appending /\ isOpen' = isOpen
        /\ mode' = mode /\ have' = have /\ ateof' = ateof /\ stopped' = stopped
    BY <1>4 DEF Buffer, stream
  <2>2. ~have /\ ~ateof
    BY <1>4 DEF FileInv, ReadAhead
  <2>3. FileInv'
    BY <1>1, <1>4, <2>1, <2>2, MoveKeeps
  <2>4. Here' = Here
    BY <2>1 DEF Here
  <2>5. Buffered' = IF assigned' THEN x ELSE Undefined
    BY <1>4, <2>1 DEF Buffered
  <2>. QED BY <1>4, <2>1, <2>3, <2>4, <2>5
<1>. QED BY <1>1, <1>2, <1>3, <1>4

LEMMA AssignStep ==
  ASSUME FileInv, kind' = kind, NEW x \in Component, Assign(x)
  PROVE  FileInv' /\ (Iso!Assign(x) \/ Iso!Stop)
<1>1. CASE Fails
  BY <1>1, FailsStep
<1>2. CASE ~Fails
  <2>1. Buffer(buf' = x) /\ buf' = x /\ assigned' = TRUE /\ reply' = <<>>
    BY <1>2 DEF Assign, Buffer
  <2>2. /\ FileInv' /\ data' = data /\ mode' = mode /\ Here' = Here /\ stopped' = stopped
        /\ mode # "closed" /\ mode \in {"reading", "writing", "updating"}
        /\ mode \in {"reading", "updating"} => ~FillEof /\ Buffered' = x
        /\ mode = "writing" => Buffered' = IF assigned' THEN x ELSE Undefined
    BY <1>2, <2>1, UseFacts
  <2>3. Buffered' = x
    BY <2>1, <2>2
  <2>4. mode = "writing" \/ SubSeq(data, Here + 1, Len(data)) # <<>>
    BY <2>2, FillFacts, HereFacts
  <2>. QED BY <2>1, <2>2, <2>3, <2>4 DEF Iso!Assign, Iso!Quiet
<1>. QED BY <1>1, <1>2

LEMMA LookStep ==
  ASSUME FileInv, kind' = kind, Look
  PROVE  FileInv' /\ (Iso!Ask \/ Iso!Stop)
<1>1. CASE Fails
  BY <1>1, FailsStep
<1>2. CASE ~Fails
  <2>1. /\ buf \in Component \cup {Undefined} /\ assigned \in BOOLEAN
        /\ (assigned => buf \in Component) /\ Undefined \notin Component
    BY HereFacts DEF FileInv, TypeOK, ReadAhead
  <2>2. Buffer(buf' = LookAt) /\ buf' = LookAt /\ assigned' = assigned /\ reply' = <<"buffer", LookAt>>
    BY <1>2 DEF Look, Buffer
  <2>3. mode \in {"reading", "updating"} =>
          /\ ~FillEof /\ LookAt = Buffered /\ LookAt \in Component
    <3>1. ASSUME mode \in {"reading", "updating"} PROVE ~FillEof
      BY <1>2, <2>2, <3>1 DEF Buffer
    <3>2. ASSUME mode \in {"reading", "updating"} PROVE LookAt = FillBuf
      BY <3>2 DEF LookAt
    <3>. QED BY <3>1, <3>2, FillFacts
  <2>4. mode = "writing" => LookAt = buf
    BY DEF LookAt
  <2>5. mode # "closed"
    BY <1>2, <2>2 DEF Buffer
  <2>6. mode \in {"reading", "writing", "updating"}
    BY <2>5 DEF FileInv, TypeOK
  <2>7. /\ LookAt \in Component \cup {Undefined}
        /\ (assigned' => LookAt \in Component)
    BY <2>1, <2>2, <2>3, <2>4, <2>6
  <2>8. /\ FileInv' /\ data' = data /\ mode' = mode /\ Here' = Here /\ stopped' = stopped
        /\ mode \in {"reading", "updating"} => Buffered' = LookAt
        /\ mode = "writing" => Buffered' = IF assigned' THEN LookAt ELSE Undefined
    BY <1>2, <2>1, <2>2, <2>3, <2>7, UseFacts
  <2>9. CASE mode \in {"reading", "updating"}
    <3>1. Buffered' = Buffered /\ Buffered # Undefined /\ reply' = <<"buffer", Buffered>>
      BY <2>1, <2>2, <2>3, <2>8, <2>9
    <3>. QED BY <2>5, <2>8, <3>1 DEF Iso!Ask
  <2>10. CASE mode = "writing"
    <3>1. Buffered = IF assigned THEN buf ELSE Undefined
      BY <2>10 DEF Buffered
    <3>2. Buffered' = Buffered /\ reply' = <<"buffer", buf>>
      BY <2>2, <2>4, <2>8, <2>10, <3>1
    <3>3. CASE assigned
      <4>1. Buffered # Undefined /\ reply' = <<"buffer", Buffered>>
        BY <2>1, <3>1, <3>2, <3>3
      <4>. QED BY <2>5, <2>8, <3>2, <4>1 DEF Iso!Ask
    <3>4. CASE ~assigned
      <4>1. Buffered = Undefined
        BY <3>1, <3>4
      <4>. QED BY <2>1, <2>8, <2>10, <3>2, <4>1 DEF Iso!Ask
    <3>. QED BY <3>3, <3>4
  <2>. QED BY <2>6, <2>9, <2>10
<1>. QED BY <1>1, <1>2

LEMMA GetStep ==
  ASSUME FileInv, kind' = kind, Get
  PROVE  FileInv' /\ (Iso!Get \/ Iso!Stop)
<1>1. CASE mode \notin {"reading", "updating"} \/ FillEof
  BY <1>1, FailsStep DEF Get
<1>2. CASE ~(mode \notin {"reading", "updating"} \/ FillEof)
  <2>1. /\ have' = FALSE /\ ateof' = FALSE /\ at' = FillAt /\ buf' = FillBuf /\ assigned' = FALSE
        /\ data' = data /\ appending' = appending /\ isOpen' = isOpen /\ mode' = mode
        /\ stopped' = stopped /\ reply' = <<>> /\ mode \in {"reading", "updating"} /\ ~FillEof
    BY <1>2 DEF Get, Quiet
  <2>2. /\ FillAt = Here + 1 /\ Here < Len(data) /\ FillBuf \in Component /\ ~appending
    BY <2>1, FillFacts
  <2>3. /\ data \in Seq(Component) /\ Len(data) \in Nat /\ Here \in Nat
        /\ (SubSeq(data, Here + 1, Len(data)) = <<>> <=> Here = Len(data))
        /\ (Direct /\ Capacity > 0 => Len(data) <= Capacity)
    BY HereFacts DEF FileInv, ReadAhead
  <2>4. at' \in 0 .. Len(data) /\ Here + 1 \in Nat /\ Here + 1 <= Len(data) /\ Here # Len(data)
        /\ Here + 1 + 1 = Here + 2
    BY <2>1, <2>2, <2>3, SMT
  <2>5. FileInv'
    BY <2>1, <2>2, <2>3, <2>4, MoveKeeps
  <2>6. Here' = Here + 1
    BY <2>1, <2>2 DEF Here
  <2>7. /\ Head(SubSeq(data, Here + 1, Len(data))) = data[Here + 1]
        /\ Tail(SubSeq(data, Here + 1, Len(data))) = SubSeq(data, Here + 2, Len(data))
        /\ Append(SubSeq(data, 1, Here), data[Here + 1]) = SubSeq(data, 1, Here + 1)
    BY <2>2, <2>3, StepFacts
  <2>8. Buffered' = Iso!Follows(mode', SubSeq(data', Here' + 1, Len(data')))
    BY <2>1, <2>3, <2>4, <2>6, OpenFacts
  <2>9. Buffered' = Iso!First(SubSeq(data, Here + 2, Len(data)))
    BY <2>1, <2>4, <2>6, <2>8 DEF Iso!Follows
  <2>. QED BY <2>1, <2>3, <2>4, <2>5, <2>6, <2>7, <2>9 DEF Iso!Get, Iso!Quiet
<1>. QED BY <1>1, <1>2
-----------------------------------------------------------------------------
(* put and update.                                                         *)

\* What is written of a touched f^, and where: over the component the program
\* stands at, or at the end; in append mode these are the same.
LEMMA WriteFacts ==
  ASSUME FileInv, Touched, mode \in {"writing", "updating"}
  PROVE  /\ buf \in Component /\ Buffered = buf /\ ateof = FALSE
         /\ Written(data, Place, buf) = Placed(data, Here, buf)
         /\ (appending => Here = Len(data)) /\ (~appending => Place = Here)
         /\ mode = "writing" => assigned
         /\ mode = "updating" => Here < Len(data) /\ ~appending
<1>1. /\ data \in Seq(Component) /\ Len(data) \in Nat /\ at \in Nat /\ at <= Len(data)
      /\ have \in BOOLEAN /\ ateof \in BOOLEAN /\ appending \in BOOLEAN /\ Here \in Nat
  BY HereFacts, SMT DEF FileInv, TypeOK
<1>2. CASE mode = "writing"
  <2>1. assigned /\ buf \in Component /\ ~have /\ ~ateof
    BY <1>2 DEF Touched, FileInv, ReadAhead
  <2>2. Place = at /\ Buffered = buf
    BY <1>2, <2>1 DEF Place, Buffered
  <2>3. Here = IF appending THEN Len(data) ELSE at
    BY <2>1 DEF Here
  <2>4. CASE appending
    <3>1. Here >= Len(data)
      BY <1>1, <2>3, <2>4, SMT
    <3>2. Written(data, Place, buf) = Append(data, buf) /\ Placed(data, Here, buf) = Append(data, buf)
      BY <2>4, <3>1 DEF Written, Placed
    <3>. QED BY <1>1, <1>2, <2>1, <2>2, <2>3, <2>4, <3>2
  <2>5. CASE ~appending
    <3>1. Written(data, Place, buf) = Placed(data, Here, buf)
      BY <2>2, <2>3, <2>5 DEF Written, Placed
    <3>. QED BY <1>1, <1>2, <2>1, <2>2, <2>3, <2>5, <3>1
  <2>. QED BY <2>4, <2>5
<1>3. CASE mode = "updating"
  <2>1. have /\ ~ateof /\ buf \in Component /\ at >= 1 /\ ~appending /\ Direct
    BY <1>3 DEF Touched, FileInv, ReadAhead
  <2>2. Place = at - 1 /\ Here = at - 1
    BY <2>1 DEF Place, Here
  <2>3. Here < Len(data) /\ ~(Here >= Len(data))
    BY <1>1, <2>1, <2>2, SMT
  <2>4. Buffered = buf
    BY <1>3, <2>1, <2>3 DEF Buffered
  <2>5. Written(data, Place, buf) = Placed(data, Here, buf)
    BY <2>1, <2>2 DEF Written, Placed
  <2>. QED BY <1>1, <1>3, <2>1, <2>2, <2>3, <2>4, <2>5
<1>. QED BY <1>2, <1>3

\* The components after the one written are those the abstract file keeps.
LEMMA RestFacts ==
  ASSUME NEW d \in Seq(Component), NEW h \in Nat, h <= Len(d)
  PROVE  SubSeq(d, h + 2, Len(d)) =
           IF SubSeq(d, h + 1, Len(d)) = <<>> THEN <<>> ELSE Tail(SubSeq(d, h + 1, Len(d)))
<1>1. Len(d) \in Nat
  BY SMT
<1>2. SubSeq(d, h + 1, Len(d)) = <<>> <=> h = Len(d)
  BY EmptyRest, Zenon
<1>3. CASE h = Len(d)
  <2>1. h + 2 \in Int /\ Len(d) \in Int /\ Len(d) < h + 2
    BY <1>1, <1>3, SMT
  <2>. QED BY <1>2, <1>3, <2>1, SubSeqEmpty
<1>4. CASE h # Len(d)
  <2>1. h < Len(d)
    BY <1>1, <1>4, SMT
  <2>. QED BY <1>2, <1>4, <2>1, StepFacts
<1>. QED BY <1>3, <1>4

LEMMA PutStep ==
  ASSUME FileInv, kind' = kind, Touched, ~Overfills, Put
  PROVE  FileInv' /\ (Iso!Put \/ Iso!Stop)
<1>1. CASE Fails
  BY <1>1, FailsStep
<1>2. CASE ~Fails
  <2>. DEFINE e == Placed(data, Here, buf)
  <2>1. /\ mode \in {"writing", "updating"} /\ ~Full /\ data' = Written(data, Place, buf)
        /\ at' = After(Place) /\ have' = FALSE /\ assigned' = FALSE /\ reply' = <<>>
        /\ stopped' = stopped /\ appending' = appending /\ isOpen' = isOpen /\ mode' = mode
        /\ ateof' = ateof /\ buf' = buf
    BY <1>2 DEF Put, Quiet
  <2>2. /\ buf \in Component /\ Buffered = buf /\ ateof = FALSE
        /\ Written(data, Place, buf) = e
        /\ (appending => Here = Len(data)) /\ (~appending => Place = Here)
    BY <2>1, WriteFacts
  <2>3. /\ data \in Seq(Component) /\ Len(data) \in Nat /\ Here \in Nat /\ Here <= Len(data)
        /\ Undefined \notin Component /\ appending \in BOOLEAN
        /\ (Direct /\ Capacity > 0 => Len(data) <= Capacity) /\ Capacity \in Nat
    BY HereFacts, PasFileAssumption DEF FileInv, TypeOK, ReadAhead, Capacity
  <2>4. /\ e \in Seq(Component) /\ e[Here + 1] = buf
        /\ Len(e) = IF Here = Len(data) THEN Here + 1 ELSE Len(data)
        /\ SubSeq(e, 1, Here) = SubSeq(data, 1, Here)
        /\ SubSeq(e, Here + 2, Len(e)) = SubSeq(data, Here + 2, Len(data))
    <3>1. buf \in Component /\ data \in Seq(Component) /\ Here \in Nat /\ Here <= Len(data)
      BY <2>2, <2>3
    <3>. QED BY <3>1, PlacedFacts
  <2>. HIDE DEF e
  <2>5. /\ Len(e) \in Nat /\ Here < Len(e) /\ Here + 1 \in Nat /\ Here + 1 <= Len(e)
        /\ Here + 1 \in 0 .. Len(e) /\ Here + 1 + 1 = Here + 2
        /\ (Here = Len(data) => Len(e) = Here + 1)
    BY <2>3, <2>4, SMT
  <2>6. at' = Here + 1
    BY <2>1, <2>2, <2>3 DEF After
  <2>7. Here' = Here + 1
    <3>1. CASE appending
      BY <2>1, <2>2, <2>5, <3>1 DEF Here
    <3>2. CASE ~appending
      BY <2>1, <2>6, <3>2 DEF Here
    <3>. QED BY <2>3, <3>1, <3>2
  <2>8. Direct /\ Capacity > 0 => Len(e) <= Capacity
    <3>1. Capacity > 0 => ~(Place >= Capacity)
      BY <2>1 DEF Full
    <3>2. CASE appending
      <4>1. Capacity > 0 => ~(Len(data) >= Capacity) \/ ~(Place < Capacity)
        BY <3>2 DEF Overfills
      <4>2. at \in Nat /\ Place = at
        BY <2>1, <3>2, SMT DEF FileInv, TypeOK, ReadAhead, Place
      <4>. QED BY <2>2, <2>3, <2>4, <3>1, <3>2, <4>1, <4>2, SMT
    <3>3. CASE ~appending
      BY <2>2, <2>3, <2>4, <3>1, <3>3, SMT
    <3>. QED BY <2>3, <3>2, <3>3
  <2>9. FileInv'
    BY <2>1, <2>2, <2>4, <2>5, <2>6, <2>8, MoveKeeps
  <2>10. Buffered' = Iso!Follows(mode', SubSeq(data', Here' + 1, Len(data')))
    <3>1. mode' \in {"reading", "writing", "updating"}
      BY <2>1
    <3>. QED BY <2>1, <2>2, <2>4, <2>5, <2>7, <3>1, OpenFacts
  <2>11. SubSeq(e, 1, Here + 1) = Append(SubSeq(data, 1, Here), buf)
    BY <2>3, <2>4, <2>5, StepFacts
  <2>12. SubSeq(e, Here + 2, Len(e)) =
           IF SubSeq(data, Here + 1, Len(data)) = <<>> THEN <<>>
           ELSE Tail(SubSeq(data, Here + 1, Len(data)))
    BY <2>3, <2>4, RestFacts
  <2>13. SubSeq(e, 1, Here + 1) \o SubSeq(e, Here + 2, Len(e)) = e
    BY <2>4, <2>5, CutFacts
  <2>14. data' = e /\ Here' + 1 = Here + 2
    BY <2>1, <2>2, <2>5, <2>7
  <2>15. (IF Direct THEN Capacity ELSE 0) > 0 => Len(e) <= (IF Direct THEN Capacity ELSE 0)
    BY <2>8
  <2>16. SubSeq(data', 1, Here') = SubSeq(e, 1, Here + 1)
         /\ SubSeq(data', Here' + 1, Len(data')) = SubSeq(e, Here + 2, Len(e))
    BY <2>7, <2>14
  <2>17. Iso!Fits
    BY <2>13, <2>15, <2>16 DEF Iso!Fits
  <2>18. Buffered # Undefined
    BY <2>2, <2>3
  <2>. QED
    BY <2>1, <2>2, <2>9, <2>10, <2>11, <2>12, <2>16, <2>17, <2>18 DEF Iso!Put, Iso!Quiet
<1>. QED BY <1>1, <1>2

LEMMA UpdateStep ==
  ASSUME FileInv, kind' = kind, ~appending, Touched, Place < Len(data) \/ ~Full, Update
  PROVE  FileInv' /\ (Iso!Update \/ Iso!Stop)
<1>1. CASE Fails
  BY <1>1, FailsStep
<1>2. CASE ~Fails
  <2>. DEFINE e == Placed(data, Here, buf)
  <2>1. /\ mode \in {"writing", "updating"} /\ data' = Written(data, Place, buf)
        /\ at' = Place /\ have' = FALSE /\ assigned' = assigned /\ reply' = <<>>
        /\ stopped' = stopped /\ appending' = appending /\ isOpen' = isOpen /\ mode' = mode
        /\ ateof' = ateof /\ buf' = buf
    BY <1>2 DEF Update, Quiet
  <2>2. /\ buf \in Component /\ Buffered = buf /\ ateof = FALSE
        /\ Written(data, Place, buf) = e /\ Place = Here
        /\ (mode = "writing" => assigned) /\ (mode = "updating" => Here < Len(data))
    BY <2>1, WriteFacts
  <2>3. /\ data \in Seq(Component) /\ Len(data) \in Nat /\ Here \in Nat /\ Here <= Len(data)
        /\ Undefined \notin Component /\ assigned \in BOOLEAN
        /\ (Direct /\ Capacity > 0 => Len(data) <= Capacity) /\ Capacity \in Nat
        /\ (assigned => buf \in Component)
    BY HereFacts, PasFileAssumption DEF FileInv, TypeOK, ReadAhead, Capacity
  <2>4. /\ e \in Seq(Component) /\ e[Here + 1] = buf
        /\ Len(e) = IF Here = Len(data) THEN Here + 1 ELSE Len(data)
        /\ SubSeq(e, 1, Here) = SubSeq(data, 1, Here)
        /\ SubSeq(e, Here + 2, Len(e)) = SubSeq(data, Here + 2, Len(data))
    <3>1. buf \in Component /\ data \in Seq(Component) /\ Here \in Nat /\ Here <= Len(data)
      BY <2>2, <2>3
    <3>. QED BY <3>1, PlacedFacts
  <2>. HIDE DEF e
  <2>5. /\ Len(e) \in Nat /\ Here < Len(e) /\ Here <= Len(e) /\ Here \in 0 .. Len(e)
        /\ ~(Here >= Len(e)) /\ Here + 1 + 1 = Here + 2
        /\ Here + 1 \in 1 .. Len(e) /\ Len(e) \in Here + 1 .. Len(e)
    BY <2>3, <2>4, SMT
  <2>6. Here' = Here
    BY <2>1, <2>2 DEF Here
  <2>7. Direct /\ Capacity > 0 => Len(e) <= Capacity
    <3>1. Capacity > 0 => Here < Len(data) \/ ~(Here >= Capacity)
      BY <2>2 DEF Full
    <3>. QED BY <2>3, <2>4, <3>1, SMT
  <2>8. FileInv'
    BY <2>1, <2>2, <2>3, <2>4, <2>5, <2>7, MoveKeeps
  <2>9. data' = e
    BY <2>1, <2>2
  <2>10. Buffered' = Buffered
    <3>1. CASE mode = "writing"
      BY <2>1, <2>2, <3>1 DEF Buffered
    <3>2. CASE mode = "updating"
      <4>1. Buffered' = IF Here >= Len(e) THEN Undefined ELSE e[Here + 1]
        BY <2>1, <2>6, <2>9, <3>2 DEF Buffered
      <4>. QED BY <2>2, <2>4, <2>5, <4>1
    <3>. QED BY <2>1, <3>1, <3>2
  <2>11. SubSeq(e, Here + 1, Len(e)) = <<e[Here + 1]>> \o SubSeq(e, Here + 1 + 1, Len(e))
    BY <2>4, <2>5, SubSeqRecursiveFirst
  <2>12. SubSeq(e, Here + 1, Len(e)) =
           <<buf>> \o (IF SubSeq(data, Here + 1, Len(data)) = <<>> THEN <<>>
                       ELSE Tail(SubSeq(data, Here + 1, Len(data))))
    BY <2>3, <2>4, <2>5, <2>11, RestFacts
  <2>13. SubSeq(e, 1, Here) \o SubSeq(e, Here + 1, Len(e)) = e
    BY <2>3, <2>4, <2>5, CutFacts
  <2>14. (IF Direct THEN Capacity ELSE 0) > 0 => Len(e) <= (IF Direct THEN Capacity ELSE 0)
    BY <2>7
  <2>15. SubSeq(data', 1, Here') = SubSeq(e, 1, Here)
         /\ SubSeq(data', Here' + 1, Len(data')) = SubSeq(e, Here + 1, Len(e))
    BY <2>6, <2>9
  <2>16. Iso!Fits
    BY <2>13, <2>14, <2>15 DEF Iso!Fits
  <2>17. Buffered # Undefined
    BY <2>2, <2>3
  <2>. QED
    BY <2>1, <2>2, <2>4, <2>8, <2>10, <2>12, <2>15, <2>16, <2>17 DEF Iso!Update, Iso!Quiet
<1>. QED BY <1>1, <1>2
-----------------------------------------------------------------------------
(* The questions.                                                          *)

\* A question that only answers leaves the file as it was.
LEMMA AnswerFacts ==
  ASSUME FileInv, kind' = kind, NEW what, NEW value, Answer(what, value)
  PROVE  /\ FileInv' /\ reply' = <<what, value>> /\ data' = data /\ mode' = mode
         /\ stopped' = stopped /\ Here' = Here /\ Buffered' = Buffered
<1>1. /\ data' = data /\ at' = at /\ appending' = appending /\ isOpen' = isOpen /\ mode' = mode
      /\ have' = have /\ ateof' = ateof /\ buf' = buf /\ assigned' = assigned
      /\ stopped' = stopped /\ reply' = <<what, value>>
  BY DEF Answer, stream, ahead
<1>2. FileInv'
  BY <1>1 DEF FileInv, TypeOK, ReadAhead, Named, Direct, Capacity
<1>3. Here' = Here
  BY <1>1 DEF Here
<1>4. Buffered' = Buffered
  BY <1>1, <1>3 DEF Buffered
<1>. QED BY <1>1, <1>2, <1>3, <1>4

LEMMA EofStep ==
  ASSUME FileInv, kind' = kind, Eof
  PROVE  FileInv' /\ (Iso!Ask \/ Iso!Stop)
<1>1. mode \in {"closed", "reading", "writing", "updating"}
  BY DEF FileInv, TypeOK
<1>2. CASE mode = "writing"
  <2>1. Answer("eof", TRUE)
    BY <1>2 DEF Eof
  <2>2. /\ FileInv' /\ reply' = <<"eof", TRUE>> /\ data' = data /\ mode' = mode
        /\ stopped' = stopped /\ Here' = Here /\ Buffered' = Buffered
    BY <2>1, AnswerFacts
  <2>3. (mode = "writing" \/ SubSeq(data, Here + 1, Len(data)) = <<>>) = TRUE
    BY <1>2
  <2>. QED BY <2>2, <2>3 DEF Iso!Ask
<1>3. CASE mode = "closed"
  BY <1>3, FailsStep DEF Eof
<1>4. CASE mode \in {"reading", "updating"}
  <2>1. /\ have' = TRUE /\ ateof' = FillEof /\ at' = FillAt /\ buf' = FillBuf
        /\ data' = data /\ appending' = appending /\ isOpen' = isOpen
        /\ reply' = <<"eof", FillEof>> /\ mode' = mode /\ assigned' = assigned /\ stopped' = stopped
    BY <1>4 DEF Eof, Filled
  <2>2. /\ FillEof \in BOOLEAN /\ (FillEof <=> Here = Len(data))
        /\ (~FillEof => FillAt = Here + 1 /\ Here < Len(data) /\ FillBuf \in Component)
        /\ (FillEof => FillAt = Here)
        /\ FillBuf \in Component \cup {Undefined}
    BY <1>4, FillFacts
  <2>3. /\ data \in Seq(Component) /\ Len(data) \in Nat /\ Here \in Nat
        /\ (SubSeq(data, Here + 1, Len(data)) = <<>> <=> Here = Len(data))
        /\ (Direct /\ Capacity > 0 => Len(data) <= Capacity)
        /\ assigned \in BOOLEAN /\ (assigned => buf \in Component)
    BY HereFacts DEF FileInv, TypeOK, ReadAhead
  <2>4. /\ at' \in 0 .. Len(data) /\ (FillEof => at' = Len(data)) /\ (~FillEof => at' >= 1)
    BY <2>1, <2>2, <2>3, SMT
  <2>5. assigned => FillBuf \in Component
    BY <2>2, <2>3 DEF FillEof, FillBuf
  <2>6. FileInv'
    BY <1>4, <2>1, <2>2, <2>3, <2>4, <2>5, MoveKeeps
  <2>7. Here' = Here /\ Buffered' = Buffered
    BY <1>4, <2>1, FetchFacts
  <2>8. (mode = "writing" \/ SubSeq(data, Here + 1, Len(data)) = <<>>) = FillEof
    BY <1>4, <2>2, <2>3
  <2>. QED BY <2>1, <2>6, <2>7, <2>8 DEF Iso!Ask
<1>. QED BY <1>1, <1>2, <1>3, <1>4

LEMMA PositionStep ==
  ASSUME FileInv, kind' = kind, ~appending, ~(have /\ ateof), Position
  PROVE  FileInv' /\ (Iso!Ask \/ Iso!Stop)
<1>1. CASE ~isOpen
  BY <1>1, FailsStep DEF Position
<1>2. CASE isOpen
  <2>1. Answer("position", IF have /\ mode # "writing" THEN at - 1 ELSE at)
    BY <1>2 DEF Position
  <2>2. (IF have /\ mode # "writing" THEN at - 1 ELSE at) = Here
    BY DEF FileInv, ReadAhead, Here
  <2>3. /\ FileInv' /\ reply' = <<"position", Here>> /\ data' = data /\ mode' = mode
        /\ stopped' = stopped /\ Here' = Here /\ Buffered' = Buffered
    BY <2>1, <2>2, AnswerFacts
  <2>4. Len(SubSeq(data, 1, Here)) = Here
    BY HereFacts
  <2>5. mode # "closed"
    BY <1>2 DEF FileInv, ReadAhead
  <2>. QED BY <2>3, <2>4, <2>5 DEF Iso!Ask
<1>. QED BY <1>1, <1>2

LEMMA LastPositionStep ==
  ASSUME FileInv, kind' = kind, LastPosition
  PROVE  FileInv' /\ (Iso!Ask \/ Iso!Stop)
<1>1. CASE ~isOpen \/ data = <<>>
  BY <1>1, FailsStep DEF LastPosition
<1>2. CASE isOpen /\ data # <<>>
  <2>1. Answer("last", Len(data) - 1)
    BY <1>2 DEF LastPosition
  <2>2. /\ FileInv' /\ reply' = <<"last", Len(data) - 1>> /\ data' = data /\ mode' = mode
        /\ stopped' = stopped /\ Here' = Here /\ Buffered' = Buffered
    BY <2>1, AnswerFacts
  <2>3. SubSeq(data, 1, Here) \o SubSeq(data, Here + 1, Len(data)) = data
    BY HereFacts
  <2>4. mode # "closed"
    BY <1>2 DEF FileInv, ReadAhead
  <2>. QED BY <1>2, <2>2, <2>3, <2>4 DEF Iso!Ask
<1>. QED BY <1>1, <1>2

LEMMA EmptyStep ==
  ASSUME FileInv, kind' = kind, Empty
  PROVE  FileInv' /\ (Iso!Ask \/ Iso!Stop)
<1>1. CASE ~isOpen
  BY <1>1, FailsStep DEF Empty
<1>2. CASE isOpen
  <2>1. Answer("empty", data = <<>>)
    BY <1>2 DEF Empty
  <2>2. /\ FileInv' /\ reply' = <<"empty", data = <<>>>> /\ data' = data /\ mode' = mode
        /\ stopped' = stopped /\ Here' = Here /\ Buffered' = Buffered
    BY <2>1, AnswerFacts
  <2>3. SubSeq(data, 1, Here) \o SubSeq(data, Here + 1, Len(data)) = data
    BY HereFacts
  <2>4. mode # "closed"
    BY <1>2 DEF FileInv, ReadAhead
  <2>. QED BY <2>2, <2>3, <2>4 DEF Iso!Ask
<1>. QED BY <1>1, <1>2

-----------------------------------------------------------------------------
(* The theorems.                                                           *)

LEMMA FileInitially == Init => FileInv /\ Iso!Init
<1>. SUFFICES ASSUME Init PROVE FileInv /\ Iso!Init
  OBVIOUS
<1>1. /\ kind \in Kinds /\ at = 0 /\ appending = FALSE /\ isOpen = FALSE /\ mode = "closed"
      /\ have = FALSE /\ ateof = FALSE /\ buf = Undefined /\ assigned = FALSE
      /\ reply = <<>> /\ stopped = FALSE /\ data \in IF Named THEN Contents ELSE {<<>>}
  BY DEF Init
<1>2. Capacity \in Nat /\ MaxLength \in Nat /\ Direct \in BOOLEAN
  BY <1>1, PasFileAssumption, SMT DEF Capacity, Direct
<1>3. data \in Seq(Component) /\ (Capacity > 0 => Len(data) <= Capacity)
  <2>1. CASE Named
    <3>1. PICK n \in 0 .. IF Capacity > 0 THEN Capacity ELSE MaxLength : data \in [1 .. n -> Component]
      BY <1>1, <2>1 DEF Contents
    <3>2. n \in Nat /\ (Capacity > 0 => n <= Capacity)
      BY <1>2, <3>1, SMT
    <3>3. data \in Seq(Component) /\ Len(data) = n
      BY <3>1, <3>2, SMT
    <3>. QED BY <3>2, <3>3
  <2>2. CASE ~Named
    <3>1. data = <<>>
      BY <1>1, <2>2
    <3>. QED BY <1>2, <3>1, EmptySeq, SMT
  <2>. QED BY <2>1, <2>2
<1>4. Len(data) \in Nat /\ at \in 0 .. Len(data)
  BY <1>1, <1>3, SMT
<1>5. FileInv
  BY <1>1, <1>3, <1>4, Zenon DEF FileInv, TypeOK, ReadAhead
<1>6. Here = 0
  BY <1>1 DEF Here
<1>7. SubSeq(data, 1, Here) = <<>> /\ SubSeq(data, Here + 1, Len(data)) = data
  BY <1>3, <1>6, EndSlices
<1>8. Buffered = Undefined
  BY <1>1 DEF Buffered
<1>9. (IF Direct THEN Capacity ELSE 0) \in Nat
  BY <1>2
<1>10. Iso!Init
  BY <1>1, <1>3, <1>7, <1>8, <1>9 DEF Iso!Init
<1>. QED BY <1>5, <1>10

\* Every call of a careful program is a step of the abstract file.
LEMMA FileStep ==
  ASSUME FileInv, CarefulNext
  PROVE  FileInv' /\ Iso!Next
<1>1. ~stopped /\ kind' = kind
  BY DEF CarefulNext
<1>. DEFINE room == IF Direct THEN Capacity ELSE 0
<1>2. room' = room
  BY <1>1 DEF Direct, Capacity
<1>3. CASE Reset
  BY <1>1, <1>2, <1>3, ResetStep DEF Iso!Next
<1>4. CASE Rewrite
  BY <1>1, <1>2, <1>4, RewriteStep DEF Iso!Next
<1>5. CASE Extend
  BY <1>1, <1>2, <1>5, ExtendStep DEF Iso!Next
<1>6. CASE Look
  BY <1>1, <1>2, <1>6, LookStep DEF Iso!Next
<1>7. CASE Get
  BY <1>1, <1>2, <1>7, GetStep DEF Iso!Next
<1>8. CASE Eof
  BY <1>1, <1>2, <1>8, EofStep DEF Iso!Next
<1>9. CASE LastPosition
  BY <1>1, <1>2, <1>9, LastPositionStep DEF Iso!Next
<1>10. CASE Empty
  BY <1>1, <1>2, <1>10, EmptyStep DEF Iso!Next
<1>11. CASE \E x \in Component : Assign(x)
  BY <1>1, <1>2, <1>11, AssignStep DEF Iso!Next
<1>12. CASE Touched /\ ~Overfills /\ Put
  BY <1>1, <1>2, <1>12, PutStep DEF Iso!Next
<1>13. CASE ~appending /\ Seeks
  <2>1. PICK n \in -1 .. MaxLength + 1, m \in {"reading", "writing", "updating"} : Seek(n, m)
    BY <1>13 DEF Seeks
  <2>2. n \in Int
    BY <2>1, PasFileAssumption, SMT
  <2>3. /\ FileInv'
        /\ \/ Iso!Stop
           \/ /\ n \in 0 .. Len(SubSeq(data, 1, Here) \o SubSeq(data, Here + 1, Len(data)))
              /\ Iso!Seek(n, m)
    BY <1>1, <1>13, <2>1, <2>2, SeekStep
  <2>. QED BY <1>1, <1>2, <2>3 DEF Iso!Next
<1>14. CASE ~appending /\ Touched /\ (Place < Len(data) \/ ~Full) /\ Update
  BY <1>1, <1>2, <1>14, UpdateStep DEF Iso!Next
<1>15. CASE ~appending /\ ~(have /\ ateof) /\ Position
  BY <1>1, <1>2, <1>15, PositionStep DEF Iso!Next
<1>. QED
  BY <1>3, <1>4, <1>5, <1>6, <1>7, <1>8, <1>9, <1>10, <1>11, <1>12, <1>13, <1>14, <1>15
  DEF CarefulNext, Common

\* The read-ahead of pas_fill stays consistent with the stream, the mode and
\* the bound through every sequence of calls of a careful program.
THEOREM FileInvariant == CarefulSpec => []FileInv
<1>1. Init => FileInv
  BY FileInitially
<1>2. FileInv /\ [CarefulNext]_vars => FileInv'
  <2>1. ASSUME FileInv, UNCHANGED vars PROVE FileInv'
    BY <2>1 DEF vars, stream, ahead, FileInv, TypeOK, ReadAhead, Named, Direct, Capacity
  <2>. QED BY <2>1, FileStep
<1>. QED BY <1>1, <1>2, PTL DEF CarefulSpec

\* The lazily filled stream of struct pas_file is, to a careful program, the
\* file of the standard: initial states are initial, and every call is a step
\* of FileSpec or leaves the abstract file as it is.
THEOREM FileIsImplemented == CarefulSpec => ImplementsFile
<1>1. Init => Iso!Init
  BY FileInitially
<1>2. FileInv /\ [CarefulNext]_vars => [Iso!Next]_Iso!vars
  <2>1. ASSUME UNCHANGED vars PROVE UNCHANGED Iso!vars
    <3>1. /\ kind' = kind /\ data' = data /\ at' = at /\ appending' = appending /\ isOpen' = isOpen
          /\ mode' = mode /\ have' = have /\ ateof' = ateof /\ buf' = buf
          /\ assigned' = assigned /\ reply' = reply /\ stopped' = stopped
      BY <2>1 DEF vars, stream, ahead
    <3>2. Here' = Here
      BY <3>1 DEF Here
    <3>3. Buffered' = Buffered
      BY <3>1, <3>2 DEF Buffered
    <3>4. Direct' = Direct /\ Capacity' = Capacity
      BY <3>1 DEF Direct, Capacity
    <3>. QED BY <3>1, <3>2, <3>3, <3>4 DEF Iso!vars
  <2>. QED BY <2>1, FileStep
<1>. QED BY <1>1, <1>2, FileInvariant, PTL DEF CarefulSpec, ImplementsFile, Iso!Spec
=============================================================================
