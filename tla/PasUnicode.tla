----------------------------- MODULE PasUnicode -----------------------------
(***************************************************************************)
(* The text primitives (runtime/pasrt_unicode.c): UTF-8, Normalization     *)
(* Form C one segment at a time, the full case mappings, and where one     *)
(* extended grapheme cluster ends.  Pure functions of a byte sequence; an  *)
(* offset counts from 0, as in the code.                                   *)
(***************************************************************************)
EXTENDS PasUnicodeData, Sequences, SequencesExt

CONSTANT SegmentMax  \* SEGMENT_MAX: the code points one segment may hold

PAS_TEXT_ILLFORMED == -1
PAS_TEXT_OVERFLOW == -2
PAS_TEXT_SEGMENT == -3

S_BASE == \hAC00
L_BASE == \h1100
V_BASE == \h1161
T_BASE == \h11A7
L_COUNT == 19
V_COUNT == 21
T_COUNT == 28
N_COUNT == V_COUNT * T_COUNT
S_COUNT == L_COUNT * N_COUNT

GCB == [CR |-> 1, LF |-> 2, CONTROL |-> 3, EXTEND |-> 4, ZWJ |-> 5, RI |-> 6,
        PREPEND |-> 7, SPACINGMARK |-> 8, L |-> 9, V |-> 10, T |-> 11, LV |-> 12,
        LVT |-> 13]
INCB == [CONSONANT |-> 1, EXTEND |-> 2, LINKER |-> 3]

-----------------------------------------------------------------------------
(* The tables, by bisection.                                               *)

\* Where the bisection of n rows ends, each of which is after what is sought (-1),
\* before it (1), or the one that has it (0): that row, or 0.
Bisect(n, side) ==
  LET Find[r \in (0 .. n) \X (0 .. n)] ==  \* lo and hi
        LET mid == r[1] + ((r[2] - r[1]) \div 2)
        IN IF r[1] >= r[2] THEN 0
           ELSE IF side[mid + 1] < 0 THEN Find[<<r[1], mid>>]
           ELSE IF side[mid + 1] > 0 THEN Find[<<mid + 1, r[2]>>]
           ELSE mid + 1
  IN Find[<<0, n>>]

\* On which side of a row's first and last character another is.
Side(cp, first, last) == IF cp < first THEN -1 ELSE IF cp > last THEN 1 ELSE 0

\* The value of the range that holds cp, or dflt.
range_lookup_or(tbl, cp, dflt) ==
  LET Row(i) == IF i = 0 THEN dflt ELSE tbl[i][3]
  IN Row(Bisect(Len(tbl), [i \in DOMAIN tbl |-> Side(cp, tbl[i][1], tbl[i][2])]))

range_lookup(tbl, cp) == range_lookup_or(tbl, cp, 0)

u_ccc(cp) == range_lookup(pas_u_ccc, cp)
u_gcb(cp) == range_lookup(pas_u_gcb, cp)
u_incb(cp) == range_lookup(pas_u_incb, cp)
u_extpict(cp) == range_lookup(pas_u_extpict, cp) # 0

\* The same over rows of one character each, for decomp_lookup and case_lookup;
\* <<>> is NULL.
row_lookup(tbl, cp) ==
  LET Row(i) == IF i = 0 THEN <<>> ELSE tbl[i]
  IN Row(Bisect(Len(tbl), [i \in DOMAIN tbl |-> Side(cp, tbl[i][1], tbl[i][1])]))

IsV(cp) == cp \in V_BASE .. V_BASE + V_COUNT - 1
IsT(cp) == cp \in T_BASE + 1 .. T_BASE + T_COUNT - 1
IsS(cp) == cp \in S_BASE .. S_BASE + S_COUNT - 1

Mutantcombines_back(cp) == range_lookup(pas_u_combines_back, cp) # 0

\* A starter that can be the second of a composition does not begin a segment.
combines_back(cp) ==
  IsV(cp) \/ IsT(cp) \/ range_lookup(pas_u_combines_back, cp) # 0

compose_pair(a, b) ==
  LET tbl == pas_u_compose_tbl
      PairSide(e) == IF a = e[1] THEN Side(b, e[2], e[2]) ELSE Side(a, e[1], e[1])
      Row(i) == IF i = 0 THEN 0 ELSE tbl[i][3]
  IN IF a \in L_BASE .. L_BASE + L_COUNT - 1 /\ IsV(b)
       THEN S_BASE + ((a - L_BASE) * V_COUNT + (b - V_BASE)) * T_COUNT
     ELSE IF IsS(a) /\ (a - S_BASE) % T_COUNT = 0 /\ IsT(b)
       THEN a + (b - T_BASE)
     ELSE Row(Bisect(Len(tbl), [i \in DOMAIN tbl |-> PairSide(tbl[i])]))

-----------------------------------------------------------------------------
(* UTF-8.                                                                  *)

\* A count of continuation bytes, with no second byte of its own.
MutantLeadByte(c) ==
  CASE c < \h80 -> [k |-> 1, second |-> {}]
    [] c \in \hC2 .. \hDF -> [k |-> 2, second |-> \h80 .. \hBF]
    [] c \in \hE0 .. \hEF -> [k |-> 3, second |-> \h80 .. \hBF]
    [] c \in \hF0 .. \hF4 -> [k |-> 4, second |-> \h80 .. \hBF]
    [] OTHER -> [k |-> 0, second |-> {}]

\* For a lead byte: how many bytes, and what the second may be.
LeadByte(c) ==
  IF c < \h80 THEN [k |-> 1, second |-> {}]
  ELSE IF c \in \hC2 .. \hDF THEN [k |-> 2, second |-> \h80 .. \hBF]
  ELSE IF c = \hE0 THEN [k |-> 3, second |-> \hA0 .. \hBF]
  ELSE IF c = \hED THEN [k |-> 3, second |-> \h80 .. \h9F]
  ELSE IF c \in \hE1 .. \hEF THEN [k |-> 3, second |-> \h80 .. \hBF]
  ELSE IF c = \hF0 THEN [k |-> 4, second |-> \h90 .. \hBF]
  ELSE IF c = \hF4 THEN [k |-> 4, second |-> \h80 .. \h8F]
  ELSE IF c \in \hF1 .. \hF3 THEN [k |-> 4, second |-> \h80 .. \hBF]
  ELSE [k |-> 0, second |-> {}]

\* The scalar at offset i, with the bytes it takes, given what its lead byte
\* says; k = 0 where the sequence is not well-formed.  The lead byte keeps the
\* bits under its tag (the mask 7F >> k), and each byte after it adds six.
LeadBits == <<128, 32, 16, 8>>
Scalar(s, i, lead) ==
  LET Bits[j \in 0 .. lead.k - 1] ==
        IF j = 0 THEN s[i + 1] % LeadBits[lead.k] ELSE Bits[j - 1] * 64 + (s[i + j + 1] % 64)
  IN IF /\ lead.k # 0 /\ i + lead.k <= Len(s)
        /\ lead.k > 1 => s[i + 2] \in lead.second
        /\ \A j \in 2 .. lead.k - 1 : s[i + j + 1] \in \h80 .. \hBF
       THEN [k |-> lead.k, cp |-> Bits[lead.k - 1]]
       ELSE [k |-> 0, cp |-> 0]

u8dec(s, i) == Scalar(s, i, LeadByte(s[i + 1]))

u8len(cp) == IF cp < \h80 THEN 1 ELSE IF cp < \h800 THEN 2 ELSE IF cp < \h10000 THEN 3 ELSE 4

u8enc(cp) ==
  LET cont(shift) == \h80 + ((cp \div shift) % 64)
  IN IF u8len(cp) = 1 THEN <<cp>>
     ELSE IF u8len(cp) = 2 THEN <<\hC0 + (cp \div 64), cont(1)>>
     ELSE IF u8len(cp) = 3 THEN <<\hE0 + (cp \div 4096), cont(64), cont(1)>>
     ELSE <<\hF0 + (cp \div 262144), cont(4096), cont(64), cont(1)>>

\* What the decoding loops meet from offset i on: the scalars, and -1 where
\* they find bytes that are no scalar and stop.
Ill == -1
Decoded(s, i) ==
  LET From[j \in i .. Len(s)] ==
        LET Then(d) == IF d.k = 0 THEN <<Ill>> ELSE <<d.cp>> \o From[j + d.k]
        IN IF j >= Len(s) THEN <<>> ELSE Then(u8dec(s, j))
  IN From[i]

ByteLength(cps) == FoldLeft(LAMBDA n, cp : n + u8len(cp), 0, cps)
Encode(cps) == FoldLeft(LAMBDA bytes, cp : bytes \o u8enc(cp), <<>>, cps)

\* -1, or the offset of the first byte that is part of no scalar.
pas_text_validate(s) ==
  LET From[i \in 0 .. Len(s)] ==
        LET Past(k) == IF k = 0 THEN i ELSE From[i + k]
        IN IF i >= Len(s) THEN -1 ELSE Past(u8dec(s, i).k)
  IN From[0]

-----------------------------------------------------------------------------
(* Normalization Form C.                                                   *)

\* Fully decomposed, Hangul by arithmetic.
decompose[cp \in Nat] ==
  LET si == cp - S_BASE
      ByRow(e) ==
        IF e = <<>> THEN <<cp>>
        ELSE decompose[e[2]] \o (IF e[3] # 0 THEN decompose[e[3]] ELSE <<>>)
  IN IF IsS(cp)
       THEN <<L_BASE + (si \div N_COUNT), V_BASE + ((si % N_COUNT) \div T_COUNT)>>
            \o (IF si % T_COUNT = 0 THEN <<>> ELSE <<T_BASE + (si % T_COUNT)>>)
     ELSE ByRow(row_lookup(pas_u_decomp_tbl, cp))

\* Marks of one class swap.
Mutantcanonical_order(buf) ==
  FoldLeft(LAMBDA done, cp :
             LET PutClass(c) ==
                   LET stays == {0} \cup {j \in 1 .. Len(done) : u_ccc(done[j]) < c}
                   IN IF c = 0 THEN Append(done, cp) ELSE InsertAt(done, Max(stays) + 1, cp)
             IN PutClass(u_ccc(cp)),
           <<>>, buf)

\* The insertion sort: a mark moves back over marks of a higher class and
\* stops at one of its own class, or at a starter.
canonical_order(buf) ==
  FoldLeft(LAMBDA done, cp :
             LET PutClass(c) ==
                   LET stays == {0} \cup {j \in 1 .. Len(done) : u_ccc(done[j]) <= c}
                   IN IF c = 0 THEN Append(done, cp) ELSE InsertAt(done, Max(stays) + 1, cp)
             IN PutClass(u_ccc(cp)),
           <<>>, buf)

\* Composition onto the head, which is the starter last put; 256 says that
\* the segment begins with a mark, onto which nothing composes.
compose_segment(buf) ==
  IF Len(buf) < 2 THEN buf
  ELSE FoldLeft(
         LAMBDA st, cp :
           LET Put(cls, made) ==
                 IF made # 0 /\ (st.last < cls \/ st.last = 0)
                   THEN [st EXCEPT !.out[st.start] = made]
                   ELSE [out |-> Append(st.out, cp),
                         start |-> IF cls = 0 THEN Len(st.out) + 1 ELSE st.start,
                         last |-> cls]
           IN Put(u_ccc(cp), compose_pair(st.out[st.start], cp)),
         [out |-> <<Head(buf)>>, start |-> 1, last |-> IF u_ccc(Head(buf)) # 0 THEN 256 ELSE 0],
         Tail(buf)).out

\* What has been normalized so far: a status, the bytes written and the
\* segment held.
NothingYet == [n |-> 0, dst |-> <<>>, seg |-> <<>>]

\* Order, compose and encode the segment held into what is left of cap.
EncodeInto(st, cps, cap) ==
  IF Len(st.dst) + ByteLength(cps) > cap THEN [st EXCEPT !.n = PAS_TEXT_OVERFLOW]
  ELSE [st EXCEPT !.dst = @ \o Encode(cps)]
flush_segment(st, cap) ==
  [EncodeInto(st, compose_segment(canonical_order(st.seg)), cap) EXCEPT !.seg = <<>>]

\* A new segment begins with a starter that does not combine backwards.
BeginsSegment(d) == u_ccc(d[1]) = 0 /\ ~combines_back(d[1])

Hold(st, d) ==
  IF st.n < 0 THEN st
  ELSE IF Len(st.seg) + Len(d) > SegmentMax THEN [st EXCEPT !.n = PAS_TEXT_SEGMENT]
  ELSE [st EXCEPT !.seg = @ \o d]
TakeDecomposed(st, d, cap) ==
  Hold(IF st.seg # <<>> /\ BeginsSegment(d) THEN flush_segment(st, cap) ELSE st, d)

\* The answer of a loop: a length, or its status.
Answered(st) == [n |-> IF st.n < 0 THEN st.n ELSE Len(st.dst), dst |-> st.dst]

\* The normal form and its length, or a status.
pas_text_nfc(s, cap) ==
  LET Take(st, cp) ==
        IF st.n < 0 THEN st
        ELSE IF cp = Ill THEN [st EXCEPT !.n = PAS_TEXT_ILLFORMED]
        ELSE TakeDecomposed(st, decompose[cp], cap)
      Finish(st) == Answered(IF st.n < 0 THEN st ELSE flush_segment(st, cap))
  IN Finish(FoldLeft(Take, NothingYet, Decoded(s, 0)))

-----------------------------------------------------------------------------
(* Case.                                                                   *)

case_map(tbl, cp) == LET To(e) == IF e = <<>> THEN <<cp>> ELSE e[2] IN To(row_lookup(tbl, cp))

case_all(tbl, s, cap) ==
  LET Put(st, cp) ==
        IF st.n < 0 THEN st
        ELSE IF cp = Ill THEN [st EXCEPT !.n = PAS_TEXT_ILLFORMED]
        ELSE EncodeInto(st, case_map(tbl, cp), cap)
  IN Answered(FoldLeft(Put, NothingYet, Decoded(s, 0)))

pas_text_fold(s, cap) == case_all(pas_u_fold, s, cap)
pas_text_upper(s, cap) == case_all(pas_u_upper, s, cap)
pas_text_lower(s, cap) == case_all(pas_u_lower, s, cap)

-----------------------------------------------------------------------------
(* Extended grapheme clusters.                                             *)

\* What a scan remembers: the regional indicators in a row, how far it is into
\* a pictograph that may be joined, and into a conjunct, and the last break
\* property.
scan == [ri |-> 0, pict |-> 0, incb |-> 0, gcb |-> 0]

\* A mark between the consonant and the linker ends the conjunct.
Mutantscan_next(st, g, ic, pict) ==
  [ri |-> IF g = GCB.RI THEN st.ri + 1 ELSE 0,
   pict |-> CASE pict \/ (g = GCB.EXTEND /\ st.pict = 1) -> 1
              [] ~pict /\ g = GCB.ZWJ /\ st.pict = 1 -> 2
              [] OTHER -> 0,
   incb |-> CASE ic = INCB.CONSONANT -> 1
              [] ic = INCB.LINKER /\ st.incb # 0 -> 2
              [] OTHER -> 0,
   gcb |-> g]

\* The scan goes on to a character with these properties.
scan_next(st, g, ic, pict) ==
  [ri |-> IF g = GCB.RI THEN st.ri + 1 ELSE 0,
   pict |-> CASE pict \/ (g = GCB.EXTEND /\ st.pict = 1) -> 1
              [] ~pict /\ g = GCB.ZWJ /\ st.pict = 1 -> 2
              [] OTHER -> 0,
   incb |-> CASE ic = INCB.CONSONANT -> 1
              [] ic = INCB.LINKER /\ st.incb # 0 -> 2
              [] ic = INCB.EXTEND -> st.incb
              [] OTHER -> 0,
   gcb |-> g]

scan_step(st, cp) == scan_next(st, u_gcb(cp), u_incb(cp), u_extpict(cp))

\* GB3 to GB999, tried in that order.
BreaksBetween(st, p, g, ic, pict) ==
  LET ends == {GCB.CONTROL, GCB.CR, GCB.LF}
  IN IF p = GCB.CR /\ g = GCB.LF THEN FALSE
     ELSE IF p \in ends \/ g \in ends THEN TRUE
     ELSE ~ \/ p = GCB.L /\ g \in {GCB.L, GCB.V, GCB.LV, GCB.LVT}
            \/ p \in {GCB.LV, GCB.V} /\ g \in {GCB.V, GCB.T}
            \/ p \in {GCB.LVT, GCB.T} /\ g = GCB.T
            \/ g \in {GCB.EXTEND, GCB.ZWJ, GCB.SPACINGMARK}
            \/ p = GCB.PREPEND
            \/ st.incb = 2 /\ ic = INCB.CONSONANT
            \/ st.pict = 2 /\ pict
            \/ p = GCB.RI /\ g = GCB.RI /\ st.ri % 2 = 1
breaks_before(st, cp) == BreaksBetween(st, st.gcb, u_gcb(cp), u_incb(cp), u_extpict(cp))

\* The offset past the element that begins at `at`; bytes that are no scalar
\* end an element, and the first of them is one.
ElementOf(d, at) ==
  LET Take(acc, cp) ==
        IF acc.over \/ cp = Ill \/ breaks_before(acc.st, cp)
          THEN [acc EXCEPT !.over = TRUE]
          ELSE [st |-> scan_step(acc.st, cp), end |-> acc.end + u8len(cp), over |-> FALSE]
  IN IF d[1] = Ill THEN at + 1
     ELSE FoldLeft(Take, [st |-> scan_step(scan, d[1]), end |-> at + u8len(d[1]),
                          over |-> FALSE], Tail(d)).end
pas_text_next(s, at) ==
  IF at >= Len(s) THEN Len(s) ELSE ElementOf(Decoded(s, at), at)

pas_text_scalar_at(s, at) ==
  IF at < 0 \/ at >= Len(s) THEN [k |-> 0, cp |-> 0] ELSE u8dec(s, at)

\* The offsets at which the elements of s begin.
Starts(s) ==
  LET From[i \in 0 .. Len(s)] ==
        IF i >= Len(s) THEN {} ELSE {i} \cup From[pas_text_next(s, i)]
  IN From[0]

pas_text_count(s) == Cardinality(Starts(s))

\* An element is as wide as its first scalar.
pas_text_columns(s) ==
  LET width(d) == IF d.k = 0 THEN 1 ELSE range_lookup_or(pas_u_width, d.cp, 1)
  IN MapThenSumSet(LAMBDA i : width(u8dec(s, i)), Starts(s))
=============================================================================
