------------------------------ MODULE PasString ------------------------------
(***************************************************************************)
(* String and text values (runtime/pasrt.c).  A value is a sequence of     *)
(* bytes; an operation answers the error it stops the program with, or ""  *)
(* and a value, and what it took from the string arena.                    *)
(*                                                                         *)
(* The state is that of the text-variables of a program, which everything  *)
(* that enters one keeps in Normalization Form C.                          *)
(***************************************************************************)
EXTENDS PasUnicode

CONSTANTS
  TextVar,   \* text-variables
  Capacity,  \* the bytes each may hold
  Literals   \* the character-strings a program gives them

VARIABLES
  text,     \* the value of each
  failed    \* the runtime error that stopped the program, or ""
textVars == <<text, failed>>

Space == 32
Taken(value, takes) == [error |-> "", value |-> value, takes |-> takes]
Fault(why) == [error |-> why, value |-> <<>>, takes |-> 0]

-----------------------------------------------------------------------------
(* Strings.                                                                *)

pas_str_char(c) == Taken(<<c>>, 1)

\* For a foreign routine: a NUL after it, and none inside.
pas_str_cstr(s) ==
  IF 0 \in ToSet(s) THEN Fault("NUL") ELSE Taken(Append(s, 0), Len(s) + 1)

pas_str_concat(a, b) == Taken(a \o b, Len(a) + Len(b))

\* -1, 0 or 1 by the first of the positions of a at which the two differ.
FirstDifference(a, b) ==
  LET differs == {i \in DOMAIN a : a[i] # b[i]}
  IN IF differs = {} THEN 0
     ELSE IF a[Min(differs)] < b[Min(differs)] THEN -1 ELSE 1

Longer(a, b) == Max({Len(a), Len(b)})
Shorter(a, b) == Min({Len(a), Len(b)})

\* The shorter one compares as though it were extended with NULs.
Mutantpas_str_cmp_pad(a, b) ==
  FirstDifference([i \in 1 .. Longer(a, b) |-> IF i <= Len(a) THEN a[i] ELSE 0],
                  [i \in 1 .. Longer(a, b) |-> IF i <= Len(b) THEN b[i] ELSE 0])

\* The operators: the shorter is extended with spaces.
pas_str_cmp_pad(a, b) ==
  FirstDifference([i \in 1 .. Longer(a, b) |-> IF i <= Len(a) THEN a[i] ELSE Space],
                  [i \in 1 .. Longer(a, b) |-> IF i <= Len(b) THEN b[i] ELSE Space])

\* EQ, LT and the others: a proper prefix is less.
pas_str_cmp_exact(a, b) ==
  LET common == FirstDifference(SubSeq(a, 1, Shorter(a, b)), SubSeq(b, 1, Shorter(a, b)))
  IN CASE common # 0 -> common
       [] common = 0 /\ Len(a) = Len(b) -> 0
       [] OTHER -> IF Len(a) < Len(b) THEN -1 ELSE 1

pas_str_trimlen(a) == Max({0} \cup {i \in DOMAIN a : a[i] # Space})

pas_str_index(a, b) ==
  LET at == {i \in 1 .. Len(a) - Len(b) + 1 : SubSeq(a, i, i + Len(b) - 1) = b}
  IN CASE b = <<>> -> 1
       [] b # <<>> /\ at = {} -> 0
       [] OTHER -> Min(at)

pas_str_fits(len, cap) == len <= cap
Spaces(n) == [i \in 1 .. n |-> Space]

pas_str_store_fixed(cap, src) ==
  IF pas_str_fits(Len(src), cap) THEN Taken(src \o Spaces(cap - Len(src)), 0)
  ELSE Fault("capacity")
pas_str_pad(cap, src) == [pas_str_store_fixed(cap, src) EXCEPT !.takes = cap]
pas_str_store_var(cap, src) ==
  IF pas_str_fits(Len(src), cap) THEN Taken(src, 0) ELSE Fault("capacity")
pas_str_store_char(src) ==
  IF pas_str_fits(Len(src), 1) THEN Taken(IF Len(src) = 1 THEN src ELSE <<Space>>, 0)
  ELSE Fault("capacity")

\* What a foreign routine reads of a value that came through pas_str_cstr.
CString(s) == SubSeq(s, 1, Min({i \in DOMAIN s : s[i] = 0} \cup {Len(s) + 1}) - 1)
pas_cstr_take(cap, s) == pas_str_store_var(cap, CString(s))

\* s[lo..hi], a[lo..hi] and substr(s, at, count).
pas_str_substr_check(lo, hi, len, emptyok) ==
  ~(lo < 1 \/ hi > len \/ hi < (IF emptyok THEN lo - 1 ELSE lo))
pas_slice_check(lo, hi, len) == ~(lo < 1 \/ hi > len \/ hi < lo - 1)

pas_str_slice_check(at, count, len) == ~(at <= 0 \/ count < 0 \/ at + count - 1 > len)

-----------------------------------------------------------------------------
(* Texts.                                                                  *)

\* The value is written as it came.
Mutantpas_text_store(cap, src) ==
  IF pas_text_validate(src) >= 0 THEN Fault("ill-formed")
  ELSE IF Len(src) > cap THEN Fault("capacity") ELSE Taken(src, 0)

\* The one door into a text-variable: validate, normalize in the arena, fit.
pas_text_store(cap, src) ==
  LET room == Max({cap, Len(src)})
      Fit(r) == IF r.n = PAS_TEXT_SEGMENT THEN Fault("segment")
                ELSE IF r.n < 0 \/ r.n > cap THEN Fault("capacity")
                ELSE Taken(r.dst, room)
  IN IF pas_text_validate(src) >= 0 THEN Fault("ill-formed")
     ELSE Fit(pas_text_nfc(src, room))

\* The join is normalized as a whole, in the room its two parts had.
pas_text_concat(a, b, level) ==
  LET joined == a \o b
      pad == (4 - (level % 4)) % 4
      Whole(r) == IF r.n < 0 THEN Fault("join")
                  ELSE Taken(r.dst, pad + Len(joined) + (4 + Len(joined)))
  IN IF pas_text_validate(joined) >= 0 THEN Fault("ill-formed")
     ELSE Whole(pas_text_nfc(joined, Len(joined)))

\* Would these bytes make a text of that capacity?
pasx_text_check(src, cap) ==
  LET s == CString(src)
      Verdict(n) == IF n < 0 THEN 1 ELSE IF n > cap THEN 2 ELSE 0
  IN IF pas_text_validate(s) >= 0 THEN 1 ELSE Verdict(pas_text_nfc(s, Len(s) * 3 + 4).n)

\* A case mapping for a library: 1 is no room, 2 a fault of the data.
case_x(r, cap) ==
  [status |-> IF r.n = PAS_TEXT_OVERFLOW THEN 1 ELSE IF r.n < 0 THEN 2 ELSE 0,
   value |-> IF r.n < 0 THEN <<>> ELSE Append(r.dst, 0), takes |-> cap + 1]
pasx_text_fold(src, cap) == case_x(pas_text_fold(CString(src), cap), cap)
pasx_text_upper(src, cap) == case_x(pas_text_upper(CString(src), cap), cap)
pasx_text_lower(src, cap) == case_x(pas_text_lower(CString(src), cap), cap)

\* Offsets of a library count from 1; 0 is the end, or bytes that are no text.
pasx_text_scalar(src, at) ==
  LET s == CString(src)
      Found(d) == [next |-> IF d.k = 0 THEN 0 ELSE at + d.k, cp |-> d.cp]
  IN IF at < 1 \/ at > Len(s) THEN [next |-> 0, cp |-> 0]
     ELSE Found(pas_text_scalar_at(s, at - 1))
pasx_text_element(src, at) ==
  LET s == CString(src)
      Up(next) == IF pas_text_validate(SubSeq(s, at, next)) # -1 THEN 0 ELSE next + 1
  IN IF at < 1 \/ at > Len(s) THEN 0 ELSE Up(pas_text_next(s, at - 1))
pasx_text_columns(src) ==
  LET s == CString(src) IN IF pas_text_validate(s) # -1 THEN -1 ELSE pas_text_columns(s)

pas_text_boundary(s, at) == pas_text_next(s, Max({0, at}))
pas_text_take(cap, src) == IF Len(src) > cap THEN Fault("capacity") ELSE Taken(src, 0)
pas_text_length(s) == pas_text_count(s)

\* An unnormalized right operand is compared as it is.
Mutantpas_text_cmp(a, b, normb) ==
  Taken(IF a = b THEN <<0>> ELSE <<pas_str_cmp_exact(a, b)>>, 0)

\* By bytes, the right operand normalized first if it is a character-string.
pas_text_cmp(a, b, normb) ==
  LET With(r) == IF r.n < 0 THEN Fault("segment")
                 ELSE Taken(<<pas_str_cmp_exact(a, r.dst)>>, Len(b) * 3 + 4)
  IN IF ~normb THEN Taken(<<pas_str_cmp_exact(a, b)>>, 0)
     ELSE IF pas_text_validate(b) >= 0 THEN Fault("ill-formed")
     ELSE With(pas_text_nfc(b, Len(b) * 3 + 4))

\* Padded on the left to a width in elements.
pas_write_text(s, width) == Spaces(Max({0, width - pas_text_count(s)})) \o s

-----------------------------------------------------------------------------
(* A program's text-variables.                                             *)

TextInit == text = [x \in TextVar |-> <<>>] /\ failed = ""

\* An operation's result goes into x, or its error stops the program.
Gives(x, r) ==
  /\ failed = ""
  /\ failed' = r.error
  /\ text' = IF r.error = "" THEN [text EXCEPT ![x] = r.value] ELSE text

Assign(x, src) == Gives(x, pas_text_store(Capacity[x], src))

\* x := y + z
Join(x, y, z) ==
  LET Stored(r) == IF r.error # "" THEN r ELSE pas_text_store(Capacity[x], r.value)
  IN Gives(x, Stored(pas_text_concat(text[y], text[z], 0)))

\* x := ToUpper(y), and the other mappings, which the library answers as a
\* string; one that does not fit leaves x alone.
MapCase(x, r) ==
  /\ r.status = 0
  /\ Gives(x, pas_text_store(Capacity[x], CString(r.value)))

\* The next element that a for-in over y gives x.
TakeElement(x, y, at) ==
  /\ at \in Starts(text[y])
  /\ Gives(x, pas_text_take(Capacity[x],
                SubSeq(text[y], at + 1, pas_text_boundary(text[y], at))))

TextNext ==
  \/ \E x \in TextVar, s \in Literals : Assign(x, s)
  \/ \E x, y, z \in TextVar : Join(x, y, z)
  \/ \E x, y \in TextVar :
       \/ MapCase(x, pasx_text_upper(text[y], Capacity[x]))
       \/ MapCase(x, pasx_text_lower(text[y], Capacity[x]))
       \/ MapCase(x, pasx_text_fold(text[y], Capacity[x]))
  \/ \E x, y \in TextVar : \E at \in 0 .. Len(text[y]) : TakeElement(x, y, at)
=============================================================================
