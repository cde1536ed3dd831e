----------------------------- MODULE UnicodeSpec -----------------------------
(***************************************************************************)
(* What the Unicode Standard says of a whole text, without a segment, a    *)
(* scan or a lead byte's table: the reference PasUnicode is compared with. *)
(***************************************************************************)
EXTENDS PasUnicode

\* D92: a scalar's bytes are the shortest that carry its bits, and neither a
\* surrogate nor anything past 10FFFF is a scalar.
Shortest(b, tag, leads, value) ==
  /\ b[1] \in tag .. tag + leads - 1
  /\ \A j \in 2 .. Len(b) : b[j] \in \h80 .. \hBF
  /\ u8len(value) = Len(b) /\ value <= \h10FFFF /\ value \notin \hD800 .. \hDFFF
IsEncoding(b) ==
  LET Six(j) == b[j] - \h80
  IN \/ Len(b) = 1 /\ Shortest(b, 0, 128, b[1])
     \/ Len(b) = 2 /\ Shortest(b, \hC0, 32, (b[1] - \hC0) * 64 + Six(2))
     \/ Len(b) = 3 /\ Shortest(b, \hE0, 16, (b[1] - \hE0) * 4096 + Six(2) * 64 + Six(3))
     \/ /\ Len(b) = 4
        /\ Shortest(b, \hF0, 8,
                    (b[1] - \hF0) * 262144 + Six(2) * 4096 + Six(3) * 64 + Six(4))

\* D109: of two adjacent marks, the one of the lower class comes first; marks
\* of one class keep their order.
CanonicalOrder(cps) ==
  LET Precedes(i, j) ==
        LET ci == u_ccc(cps[i])
            cj == u_ccc(cps[j])
            sameRun == \A k \in Min({i, j}) .. Max({i, j}) : u_ccc(cps[k]) # 0
        IN IF sameRun /\ ci # cj THEN ci < cj ELSE i < j
      rank(i) == Cardinality({j \in DOMAIN cps : Precedes(j, i)}) + 1
  IN [n \in DOMAIN cps |-> cps[CHOOSE i \in DOMAIN cps : rank(i) = n]]

\* D115 and D117 over the whole text: the first character that a primary
\* composite joins to the last starter before it, with nothing between that
\* blocks it, is joined, until there is none.
Compose(cps) ==
  LET Starter(s, i) ==
        LET before == {j \in 1 .. i - 1 : u_ccc(s[j]) = 0}
        IN IF before = {} THEN 0 ELSE Max(before)
      Joins(s, i) ==
        LET j == Starter(s, i)
        IN /\ j # 0 /\ compose_pair(s[j], s[i]) # 0
           /\ \A b \in j + 1 .. i - 1 : u_ccc(s[b]) # 0 /\ u_ccc(s[b]) < u_ccc(s[i])
      Step(s) ==
        LET can == {i \in DOMAIN s : Joins(s, i)}
        IN IF can = {} THEN s
           ELSE LET i == Min(can)
                    j == Starter(s, i)
                IN SubSeq(s, 1, j - 1) \o <<compose_pair(s[j], s[i])>>
                   \o SubSeq(s, j + 1, i - 1) \o SubSeq(s, i + 1, Len(s))
  IN FoldLeft(LAMBDA s, k : Step(s), cps, cps)

Decompose(cps) == FoldLeft(LAMBDA d, cp : d \o decompose[cp], <<>>, cps)
NFC(cps) == Compose(CanonicalOrder(Decompose(cps)))

\* UAX #29: is there a boundary before c[i], seen from the start of the text?
Boundary(c, i) ==
  LET p == u_gcb(c[i - 1])
      g == u_gcb(c[i])
      ends == {GCB.CONTROL, GCB.CR, GCB.LF}
      flags == CHOOSE n \in 0 .. i - 1 :
                 /\ \A j \in i - n .. i - 1 : u_gcb(c[j]) = GCB.RI
                 /\ n = i - 1 \/ u_gcb(c[i - n - 1]) # GCB.RI
      gb9c == \E j \in 1 .. i - 1 :
                /\ u_incb(c[j]) = INCB.CONSONANT /\ u_incb(c[i]) = INCB.CONSONANT
                /\ \A k \in j + 1 .. i - 1 : u_incb(c[k]) \in {INCB.EXTEND, INCB.LINKER}
                /\ \E k \in j + 1 .. i - 1 : u_incb(c[k]) = INCB.LINKER
      gb11 == \E j \in 1 .. i - 2 :
                /\ u_extpict(c[j]) /\ p = GCB.ZWJ /\ u_extpict(c[i])
                /\ \A k \in j + 1 .. i - 2 : u_gcb(c[k]) = GCB.EXTEND
      joined ==
        \/ <<p, g>> \in ({GCB.L} \X {GCB.L, GCB.V, GCB.LV, GCB.LVT})
                        \cup ({GCB.LV, GCB.V} \X {GCB.V, GCB.T})
                        \cup ({GCB.LVT, GCB.T} \X {GCB.T})
        \/ g \in {GCB.EXTEND, GCB.ZWJ, GCB.SPACINGMARK} \/ p = GCB.PREPEND
        \/ gb9c \/ gb11 \/ (g = GCB.RI /\ flags % 2 = 1)
  IN (p \in ends \/ g \in ends \/ ~joined) /\ ~(p = GCB.CR /\ g = GCB.LF)
=============================================================================
