--------------------------- MODULE PasUnicodeData ---------------------------
(***************************************************************************)
(* A sample of the tables of runtime/pasrt_unicode_data.h: of each table   *)
(* the rows, as they stand there and in their order, that a few characters *)
(* meet - a letter with marks below and above, a singleton, a composition  *)
(* exclusion, a starter that combines backwards, Hangul letters, a         *)
(* character whose normal form is three times as long, the marks, joiners, *)
(* controls, flags and pictographs of the segmentation rules, and the full *)
(* case mappings - and every character decomposition, composition and case *)
(* mapping reach from these, so that the sample is closed under all three. *)
(***************************************************************************)
EXTENDS Integers, Sequences

\* Canonical_Combining_Class: lo, hi, class.
pas_u_ccc == <<
  <<\h0300, \h0314, 230>>, <<\h0323, \h0326, 220>>, <<\h033D, \h0344, 230>>,
  <<\h093C, \h093C, 7>>, <<\h094D, \h094D, 9>>, <<\h1D165, \h1D166, 216>>,
  <<\h1D16E, \h1D172, 216>> >>

\* Grapheme_Cluster_Break, numbered as the enumeration of pasrt_unicode.c is.
pas_u_gcb == <<
  <<\h0000, \h0009, 3>>, <<\h000A, \h000A, 2>>, <<\h000D, \h000D, 1>>,
  <<\h0300, \h036F, 4>>, <<\h0600, \h0605, 7>>, <<\h0903, \h0903, 8>>,
  <<\h093C, \h093C, 4>>, <<\h094D, \h094D, 4>>, <<\h09BE, \h09BE, 4>>,
  <<\h09C7, \h09C8, 8>>, <<\h09CB, \h09CC, 8>>, <<\h1100, \h115F, 9>>,
  <<\h1160, \h11A7, 10>>, <<\h11A8, \h11FF, 11>>, <<\h200D, \h200D, 5>>,
  <<\hAC00, \hAC00, 12>>, <<\hAC01, \hAC1B, 13>>, <<\h1D165, \h1D169, 4>>,
  <<\h1D16D, \h1D172, 4>>, <<\h1F1E6, \h1F1FF, 6>> >>

\* Indic_Conjunct_Break: 1 a consonant, 2 an extender, 3 a linker.
pas_u_incb == <<
  <<\h0300, \h036F, 2>>, <<\h0915, \h0939, 1>>, <<\h093C, \h093C, 2>>,
  <<\h094D, \h094D, 3>>, <<\h0958, \h095F, 1>>, <<\h09BE, \h09BE, 2>>,
  <<\h200D, \h200D, 2>>, <<\h1D165, \h1D169, 2>>, <<\h1D16D, \h1D172, 2>> >>

\* The starters that can be the second half of a composition.
pas_u_combines_back == <<
  <<\h09BE, \h09BE, 1>> >>

\* Columns, where they are not one.
pas_u_width == <<
  <<\h0000, \h001F, 0>>, <<\h0300, \h036F, 0>>, <<\h0600, \h0605, 0>>,
  <<\h093C, \h093C, 0>>, <<\h094D, \h094D, 0>>, <<\h1100, \h115F, 2>>,
  <<\h200B, \h200F, 0>>, <<\h3250, \hA48C, 2>>, <<\hAC00, \hD7A3, 2>>,
  <<\h1F5FB, \h1F64F, 2>> >>

\* Extended_Pictographic.
pas_u_extpict == <<
  <<\h1F5FA, \h1F64F, 1>> >>

\* Full case folding: the character and what it becomes.
pas_u_fold == <<
  <<\h0041, <<\h0061>>>>, <<\h0053, <<\h0073>>>>, <<\h00C1, <<\h00E1>>>>,
  <<\h00C4, <<\h00E4>>>>, <<\h00C5, <<\h00E5>>>>,
  <<\h00DF, <<\h0073, \h0073>>>>, <<\h015A, <<\h015B>>>>,
  <<\h01FA, <<\h01FB>>>>, <<\h0226, <<\h0227>>>>, <<\h038A, <<\h03AF>>>>,
  <<\h0390, <<\h03B9, \h0308, \h0301>>>>, <<\h0399, <<\h03B9>>>>,
  <<\h03AA, <<\h03CA>>>>, <<\h1E60, <<\h1E61>>>>, <<\h1E62, <<\h1E63>>>>,
  <<\h1E64, <<\h1E65>>>>, <<\h1E68, <<\h1E69>>>>, <<\h1EA0, <<\h1EA1>>>>,
  <<\h212B, <<\h00E5>>>> >>

\* Full upper-case mapping.
pas_u_upper == <<
  <<\h0061, <<\h0041>>>>, <<\h0073, <<\h0053>>>>,
  <<\h00DF, <<\h0053, \h0053>>>>, <<\h00E1, <<\h00C1>>>>,
  <<\h00E4, <<\h00C4>>>>, <<\h00E5, <<\h00C5>>>>, <<\h015B, <<\h015A>>>>,
  <<\h01FB, <<\h01FA>>>>, <<\h0227, <<\h0226>>>>,
  <<\h0390, <<\h0399, \h0308, \h0301>>>>, <<\h03AF, <<\h038A>>>>,
  <<\h03B9, <<\h0399>>>>, <<\h03CA, <<\h03AA>>>>, <<\h1E61, <<\h1E60>>>>,
  <<\h1E63, <<\h1E62>>>>, <<\h1E65, <<\h1E64>>>>, <<\h1E69, <<\h1E68>>>>,
  <<\h1EA1, <<\h1EA0>>>> >>

\* Full lower-case mapping.
pas_u_lower == <<
  <<\h0041, <<\h0061>>>>, <<\h0053, <<\h0073>>>>, <<\h00C1, <<\h00E1>>>>,
  <<\h00C4, <<\h00E4>>>>, <<\h00C5, <<\h00E5>>>>, <<\h015A, <<\h015B>>>>,
  <<\h01FA, <<\h01FB>>>>, <<\h0226, <<\h0227>>>>, <<\h038A, <<\h03AF>>>>,
  <<\h0399, <<\h03B9>>>>, <<\h03AA, <<\h03CA>>>>, <<\h1E60, <<\h1E61>>>>,
  <<\h1E62, <<\h1E63>>>>, <<\h1E64, <<\h1E65>>>>, <<\h1E68, <<\h1E69>>>>,
  <<\h1EA0, <<\h1EA1>>>>, <<\h212B, <<\h00E5>>>> >>

\* Canonical decompositions, one step of each; a singleton has 0 as its second.
pas_u_decomp_tbl == <<
  <<\h00C1, \h0041, \h0301>>, <<\h00C4, \h0041, \h0308>>,
  <<\h00C5, \h0041, \h030A>>, <<\h00E1, \h0061, \h0301>>,
  <<\h00E4, \h0061, \h0308>>, <<\h00E5, \h0061, \h030A>>,
  <<\h015A, \h0053, \h0301>>, <<\h015B, \h0073, \h0301>>,
  <<\h01FA, \h00C5, \h0301>>, <<\h01FB, \h00E5, \h0301>>,
  <<\h0226, \h0041, \h0307>>, <<\h0227, \h0061, \h0307>>,
  <<\h0344, \h0308, \h0301>>, <<\h038A, \h0399, \h0301>>,
  <<\h0390, \h03CA, \h0301>>, <<\h03AA, \h0399, \h0308>>,
  <<\h03AF, \h03B9, \h0301>>, <<\h03CA, \h03B9, \h0308>>,
  <<\h0958, \h0915, \h093C>>, <<\h09CB, \h09C7, \h09BE>>,
  <<\h1E60, \h0053, \h0307>>, <<\h1E61, \h0073, \h0307>>,
  <<\h1E62, \h0053, \h0323>>, <<\h1E63, \h0073, \h0323>>,
  <<\h1E64, \h015A, \h0307>>, <<\h1E65, \h015B, \h0307>>,
  <<\h1E68, \h1E62, \h0307>>, <<\h1E69, \h1E63, \h0307>>,
  <<\h1EA0, \h0041, \h0323>>, <<\h1EA1, \h0061, \h0323>>,
  <<\h212B, \h00C5, \h0000>>, <<\h1D15F, \h1D158, \h1D165>>,
  <<\h1D160, \h1D15F, \h1D16E>> >>

\* The primary composites: the two halves and what they make.
pas_u_compose_tbl == <<
  <<\h0041, \h0301, \h00C1>>, <<\h0041, \h0307, \h0226>>,
  <<\h0041, \h0308, \h00C4>>, <<\h0041, \h030A, \h00C5>>,
  <<\h0041, \h0323, \h1EA0>>, <<\h0053, \h0301, \h015A>>,
  <<\h0053, \h0307, \h1E60>>, <<\h0053, \h0323, \h1E62>>,
  <<\h0061, \h0301, \h00E1>>, <<\h0061, \h0307, \h0227>>,
  <<\h0061, \h0308, \h00E4>>, <<\h0061, \h030A, \h00E5>>,
  <<\h0061, \h0323, \h1EA1>>, <<\h0073, \h0301, \h015B>>,
  <<\h0073, \h0307, \h1E61>>, <<\h0073, \h0323, \h1E63>>,
  <<\h00C5, \h0301, \h01FA>>, <<\h00E5, \h0301, \h01FB>>,
  <<\h015A, \h0307, \h1E64>>, <<\h015B, \h0307, \h1E65>>,
  <<\h0399, \h0301, \h038A>>, <<\h0399, \h0308, \h03AA>>,
  <<\h03B9, \h0301, \h03AF>>, <<\h03B9, \h0308, \h03CA>>,
  <<\h03CA, \h0301, \h0390>>, <<\h09C7, \h09BE, \h09CB>>,
  <<\h1E62, \h0307, \h1E68>>, <<\h1E63, \h0307, \h1E69>> >>

-----------------------------------------------------------------------------
\* The rows of every table are in order and apart, as its bisection needs.
IsTable(tbl) == Len(tbl) \in Nat /\ DOMAIN tbl = 1 .. Len(tbl)
RangesInOrder(tbl) ==
  /\ IsTable(tbl)
  /\ \A i \in DOMAIN tbl : tbl[i][1] \in Nat /\ tbl[i][2] \in Nat /\ tbl[i][1] <= tbl[i][2]
  /\ \A i, j \in DOMAIN tbl : i < j => tbl[i][2] < tbl[j][1]
RowsInOrder(tbl) ==
  /\ IsTable(tbl)
  /\ \A i \in DOMAIN tbl : tbl[i][1] \in Nat
  /\ \A i, j \in DOMAIN tbl : i < j => tbl[i][1] < tbl[j][1]
PairsInOrder(tbl) ==
  /\ IsTable(tbl)
  /\ \A i \in DOMAIN tbl : tbl[i][1] \in Nat /\ tbl[i][2] \in Nat
  /\ \A i, j \in DOMAIN tbl :
       i < j => tbl[i][1] < tbl[j][1] \/ (tbl[i][1] = tbl[j][1] /\ tbl[i][2] < tbl[j][2])

ASSUME TablesAssumption ==
  /\ RangesInOrder(pas_u_ccc) /\ RangesInOrder(pas_u_gcb) /\ RangesInOrder(pas_u_incb)
  /\ RangesInOrder(pas_u_combines_back) /\ RangesInOrder(pas_u_width)
  /\ RangesInOrder(pas_u_extpict)
  /\ RowsInOrder(pas_u_fold) /\ RowsInOrder(pas_u_upper) /\ RowsInOrder(pas_u_lower)
  /\ RowsInOrder(pas_u_decomp_tbl) /\ PairsInOrder(pas_u_compose_tbl)
=============================================================================
