----------------------------- MODULE ArenaState -----------------------------
(***************************************************************************)
(* The state of the string arena (pas_str_temp, runtime/pasrt.c): its      *)
(* level, and the statements of each activation with the storage they      *)
(* still use; and what giving storage back must keep true.  PasArena has   *)
(* the steps.                                                              *)
(***************************************************************************)
EXTENDS Integers, Sequences

CONSTANTS
  ArenaSize,  \* PAS_STR_ARENA
  Sizes,      \* the sizes of values asked for
  MaxDepth,   \* a bound of the model on the activations
  MaxNest     \* and on the statements open in one of them

ASSUME PasArenaAssumption == ArenaSize \in Nat /\ Sizes \subseteq Nat /\ MaxNest \in Nat

VARIABLES
  pas_str_at, \* the level
  frames,     \* the activations: the level at entry, and the open statements
  overfull    \* a runtime error
arenaVars == <<pas_str_at, frames, overfull>>

\* The open statements.
Open == UNION {{<<i, k>> : k \in DOMAIN frames[i].open} : i \in DOMAIN frames}
At(p) == frames[p[1]].open[p[2]]

-----------------------------------------------------------------------------
(* Properties.                                                             *)

\* No two values that are still used share a byte, whatever statements and
\* activations hold them: nothing the arena lends lies over what it has lent
\* (ReleaseStrTemps stores the level of the activation that releases).
ValuesIntact ==
  \A p, q \in Open : \A v \in At(p).held, w \in At(q).held :
    <<p, v>> # <<q, w>> => v \cap w = {}

\* A loop comes to its condition with the arena no fuller than when the loop
\* began, so no number of turns exhausts it (EmitWhile, EmitRepeat).
LoopsKeepTheLevel ==
  \A p \in Open :
    /\ p[2] = Len(frames[p[1]].open) /\ p[1] = Len(frames)
    /\ At(p).kind \in {"while", "repeat"} /\ At(p).phase = "expr" /\ At(p).held = {}
    => pas_str_at <= At(p).entry
=============================================================================
