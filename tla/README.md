# A verification project for Afterschool Pascal

Afterschool Pascal is a Pascal compiler (ISO 7185, much of ISO/IEC 10206, and a
dialect with tasks, channels, handles, deferred statements and Unicode texts) written
in its own language, which emits LLVM text, and a C runtime that every compiled program
is linked with. This directory models the part of the system that keeps state while a
program runs and is hardest to test: the runtime (`runtime/*.c`), with the places of
`selfhost/compiler.pas` that decide which runtime call is emitted where and the
libraries' loops around the operating system. `PROJECT.json` maps each definition to
its lines.

## Inventory

| Component | State | Operations | Interacts with | What makes it correct |
|---|---|---|---|---|
| Channels and select (`pasrt_task.c` 61-412) | ring, count, close flag, references, one mutex and two condition variables per channel; one process-wide activity mutex and condition; one turn counter per thread | send, receive, close, reference, drop, select with receive and send arms, a deadline or an otherwise-part | tasks share channels by lending them; the compiler picks the closer of each variable | first in first out, drained before a close is reported; no lost wakeup; a lock order; freed by the last holder only; a close releases everybody |
| Tasks (`pasrt_task.c` 433-626) | a counted record per activation (claimed, done), a growing set per block, task-variables | spawn, named spawn, wait, release, the join before the deferred statements and in the epilogue | the block's frame (static link), channels lent, `pthread_join` | a wait returns only after the end; no task outlives its block; no freed record is used; waits form no ring |
| Leaving a block (`pasrt.c` 531-710, 1009-1044, 2061-2144, 2393-2416) | three thread-local lists (files, handles, deferred statements) and a jump record per activation with a mark in each list | init and done of each slot, set, take and release of a handle, arm and run of a deferred statement, non-local goto, halt | heap variables register the same slots from `new` and `dispose` | everything a block owns is released once, after its armed statement has run, and nothing of a block that lives on |
| Files of components (`pasrt.c` 833-1428) | C stream and position, open mode, one component of lazy read-ahead | reset, rewrite, extend, seeks, `f^`, get, put, update, eof, position, lastposition, empty | the file system may refuse any opening and any write | implements the L/R/buffer file of the standard, within its index-type |
| Texts (`pasrt.c` 1238-2034, 3333-3419) | the same with one character of lookahead, two of give-back and a beginning-of-line flag | the derived reads (char, string, integers of two widths, real, readln), writes with a width, page, readstr | standard input and output are opened once | the longest number is read, nothing lost or doubled, lines end once |
| Unicode (`pasrt_unicode.c`, generated tables) | none; a fixed segment buffer while normalizing | decode, validate, normalize, case, element boundaries, columns | text values, the `pasunicode` library | the segment-wise scan gives what the definitions over the whole string say |
| String and text values (`pasrt.c` 2676-3331) | text-variables | store, join, compare, index, substr, trim, foreign strings, elements of a text | the arena; the case functions of the library | a text-variable is always well-formed, normal and within its capacity |
| String arena (`pasrt.c` 2650-2688; releases in `compiler.pas`) | one stack of bytes per thread, its level | take, and give back to the level of the function's entry | every statement and condition that may take | no two live values share a byte; a loop does not fill it |
| Numbers, writestr, dates (`pasrt.c` 362-416, 1689-2004, 3421-3625) | writestr's growing buffer | write of integers, reals, Booleans, chars, pow, time stamp | texts | rounding, widths, exact or refused powers, buffer bounds |
| Subprocesses (`pasrt_posix.c` 657-1024) | argument vector, process record, pipe ends, deadline | vector operations, start, read a character, close and wait, kill | the child, its descendants, children of other tasks | nothing is left behind; the end is the end; a deadline ends the run |
| Sockets (`pasrt_posix.c` 121-460) | descriptor, line buffer with head and tail | open, accept, read line, pending, poll, write, close | the far end | lines are those of the stream; a wait does not sleep over a line it holds |
| Process exit and terminal (`pasrt.c` 48-286; `pasrt_posix.c` 509-621) | an atomic "leaving" flag, plain flags of the measures, `atexit` handlers, saved terminal settings | runtime error, halt, return of the program, registering a measure, raw and restore | all tasks at once | one exit; every handler runs; the terminal is given back and a measure is written once, as far as plain flags allow |
| bind and program parameters; directories and file status | | | | not modelled, see below |
| Compiler front end, code generation, libraries, language server, editor, build and seed | the compiler is a sequential function of its input; the libraries are Pascal | | | the repository checks it by the fixed point of its self-compilation and its clause catalogue |

The hard behaviours are: interleavings of tasks around two kinds of mutex and
three kinds of condition variable; one signal per element with several waiters;
a spurious or late wakeup racing a deadline; a record joined from two places; a
deferred statement that halts in the middle of an unwinding; list marks noted as raw
addresses while heap variables come and go; a read-ahead that is stale after every
move; give-back of characters across reads of different types; a normal form computed
a segment at a time; storage given back by the level of a function's entry while a
statement around it still uses what is above; a child that ends, forks, goes on writing
or leaves its output to others around its deadline; bytes that arrive in any
pieces; two threads that leave at once; and calls refused by the system half way. Each is a
hazard of `PROJECT.json`, at its line.

## The modules

* `PasChan`: one channel statement is a few steps, one per critical section, because
  a selector holds the activity mutex across the locks of its arms. `asleep` is the set
  of threads inside `pthread_cond_wait`; a woken thread has still to take its mutex,
  so others may come first, and `SpuriousWakeup` may wake it any time. `Spawn`,
  `Release` and `Leave` are the compiler's part: which activation holds which channel
  and whether its variable closes (`Main`) or only drops (a task).
  `ChannelSpec` is the abstract channel; `PasChan!ImplementsChannel` is the refinement
  for every channel at once.
* `PasTask`: spawn, wait, release, the claim of `pas_task_join`, the loop of
  `pas_tasks_join`, the doubling of the set. A name may be moved into another task, so
  several activations may race for one record.
* `PasUnwind`: one thread's activations, with any of a file, a handle and a deferred
  statement in each, and heap variables with a file and a handle. The three walks of
  `pas_jump_go` and the two of `pas_halt` take one step per element because a deferred
  statement may do things in between (release a handle, halt again).
* `PasFile` and its abstract `FileSpec` (the file as what is before and what is from
  the position on, a mode, and `f^`); `kind` says whether the file is direct-access,
  external, and how many components its index-type admits.
* `PasText` and its abstract `TextSpec` (stored characters, and how many were read).
  The abstract side defines numbers by their grammar and reads the longest prefix that
  is one; `PasText` has the loops, the lookahead and `pushback[2]` of the C code. A loop
  is a recursive function of the number of its turns (`Repeat`), so that what it comes to
  can be proved.
* `PasUnicode` has the functions of `pasrt_unicode.c` on sequences of bytes (the table
  searches are the one bisection `Bisect`, told on which side of a row to go on),
  `PasUnicodeData` a sample of the rows of the generated tables, closed under
  decomposition, composition and case mapping (`TablesAssumption`: the rows are in order),
  and `UnicodeSpec` the definitions of the
  Unicode standard over a whole string: well-formed sequences by their table,
  the canonical ordering and composition, the boundary rules.
* `PasString`: each string and text operation as an operator that answers a value, an
  error and how much of the arena it takes, and a program's text-variables as state.
* `PasNumber`: written numbers on exact decimal expansions, with the buffers they are
  written from (`Found` is what lies there, `Stray` what is no digit), writestr's buffer,
  integer powers, dates.
* `PasArena`: a chain of activations, each with its open statements; a value is the
  interval it occupies. `Begin` says whether a statement's own expression, or one
  inside it, was counted as taking storage, which is all the compiler goes by.
* `PasProcess`: one argument vector and one child at a time; the pipe, the child, a
  descendant and another task's child are the operating system's part.
* `PasSocket`: one connection; the far end's stream is chosen at the start, arrives a
  byte at a time, and a `read` takes any part of what has arrived.
* `PasExit`: several threads that fail, halt or return, the handlers in their order, and
  raw mode of the terminal. Only `pas_leaving` is atomic in the code; the flags of the
  measures, the slot of the terminal's settings and its mark are plain variables, so each
  read and each write of one is a step here (`ReadFlag`, `SetFlag`, `Register`;
  `MarkSaved`, `RegisterRestore`; `EmptySlot`, `PutBack`), and another thread's exit may
  come between any two. `raced` is the history of two threads that found a measure's
  flag unset.
* `UnwindState`, `ProcessState`, `ExitState`, `SocketState`, `TextState` and `ArenaState`
  hold the constants, variables and state properties of the component each is named after; its
  module has the actions. An instance that composes several components extends these
  and takes the actions with `INSTANCE`, so that no two modules' `Init` and `Next` clash
  and the property a run checks is the one a theorem states. Components that are
  composed have variables of their own names: `blockPc` and `blockTarget` in
  `UnwindState`, `runPc` in `ProcessState`, `threadPc` in `ExitState`.
* `PasChanProofs`, `PasTaskProofs`, `PasUnwindProofs`, `PasFileProofs`, `PasTextProofs`,
  `PasArenaProofs`, `PasPosixProofs` (subprocesses, sockets, process exit) and
  `PasValuesProofs` (strings, encodings, writestr, numbers, dates, table searches): the
  theorems, see "The proofs".

The instances. `MCPasChan` is `PasChan` with small sets. `MCPasBlocks` puts together
what a block and a process answer for (`PasTask`, `PasUnwind`, `PasExit`), `MCPasEnds`
what has to end (`PasTask`, `PasUnwind`, `PasProcess`), `MCPasStreams` what a program reads
and writes (`PasFile`, `PasText`, `PasSocket`), and `MCPasValues` the values
(`PasUnicode`, `PasString`, `PasNumber`, `PasArena`). In these four a behaviour is about
one topic, chosen at the start (`which`, `about`), and the other modules' variables stay
as they began: the modules share no state, so their product would add nothing.
`MCPasTask`, `MCPasUnwind` and `MCPasFile` are for the runs under "Disagreements".

A `Mutant...` operator beside a definition is that definition with a plausible slip;
`PROJECT.json` "mutants" says which property each must break.

Two conventions. A runtime error ends the process, so `stopped` (`failed` in
`PasString`, `overfull` in `PasArena`) ends every behaviour of the model. And where the
runtime breaks a promise of its own documents, the plain `Next` is every program, and `CarefulNext` (`QuietNext`
in `PasProcess`) leaves out what reaches the disagreement, so that the promise can be
checked for all the others; what is left out is listed under "Disagreements".

## The runs

| Run | Instance | What it shows |
|---|---|---|
| `blocking` | 3 activations, 1 channel of capacity 2, 2 values, 2 statements each; tasks symmetric; 1.2 million states | types, reference count = holders, no use after free, no lost wakeup among senders and receivers, refinement of the FIFO channel |
| `select` | 2 activations, 2 channels of capacity 1, selects with a receive and a send arm, a deadline and a negative time, 2 statements each; 317 thousand states | lock order, no lost selector wakeup; under fairness: a close releases, a ready selector is served, a bounded select ends |
| `blocks` | a program and 3 symmetric tasks, a set of capacity 1, then 2, then refused (INT_MAX 3); and 3 nested activations, 1 heap variable, 2 symmetric foreign resources; and 4 threads, of which 3 are symmetric, with a terminal and a measure; 1.0 million states | no record used after it is freed, tasks end before their block, waits end after the task, no ring of waits; lists without dead slots, one close per resource, nothing of living blocks touched, nothing left open, deferred statements see their block; one exit, every handler run, the terminal given back and each measure written once but for the races named |
| `ends` | 2 tasks, INT_MAX 4; 3 activations and 1 resource; a child, a descendant, a stranger's child on a pipe of 3 bytes, a reader's buffer of 2; 69 thousand states | waits and joins return; an unwinding ends; a run with a deadline ends, nothing of it is left behind, and it answers the end only at the end |
| `streams` | five kinds of file of up to 3 components of 2 values; all inputs of up to 5 characters that form numbers, all texts of up to 3 characters with lines, all readstr strings of up to 4, two integer widths; all streams of up to 4 of x, CR and LF through a buffer of 3 into strings of 1 and 2; 301 thousand states | file and text refine the standard's; lines depend on the bytes sent only; no wait sleeps over a line it holds |
| `values` | bytes: a lead and 3 trailing bytes at every range's edge; 3 code points of 16 for normal forms; 4 of 16 for elements; 5 characters for strings; 4 digits for reals, asked for in up to 12 places, more than their buffers hold, and for writestr; instants of the years 0, 1970, 2000 and 10000; two text-variables of capacity 5 and 2; an arena of 3 units, 2 activations, 2 nested statements; 488 thousand states | the decoder is exact; segment-wise normal forms are those of the whole and canonical; elements are the clusters; text-variables stay normal; joins, comparisons, numbers and writestr are right; arena values are intact and loops keep the level |
| `jump`, `lostmark`, `position`, `textjoin`, `walk`, `deadline` | | violated: see "Disagreements" |

Why the bounds are enough. A lost wakeup needs a waiter of each kind and one thread
that passes between signal and wakeup: three activations. A ring wraps with more sends
than its capacity, and order shows with two values in a capacity of two. In `select`
the second activation is the sender, receiver, closer or another selector. A race for a
record needs two waiters and the thread itself. A goto past an abandoned block to one
that is not the program's needs three activations. Files of three components have a
first, a middle, a last and a place after it. Five characters are enough for a real
number cut short at every place there is (`1.1e+`, `1e+1.`). A stream of four through a
buffer of three overflows it with a CR at its edge. Three code points are a starter,
what composes with it and what comes between; four are a joined pair of pictographs, a
conjunct, or two pairs of flags; the segment of 6 overflows with three characters.
An arena of three holds a value of the caller, one of the callee and one more. The
pipe holds more than the buffer, so reads are refilled and writers blocked. Bounds of
the model that the code does not have are `MaxCalls` (statements and spurious wakeups
of an activation), `Depth`, `MaxDepth`, `MaxNest`, `MaxLength`, `MaxWrite`, and the
`Max...` of `MCPasValues`; the code's own limits at small values are `FirstCap`,
`MaxInt`, `TurnMod`, `SegmentMax`, `ArenaSize`, `SockBuf`, `BufSize`, `ArgvMax`,
`FirstSlots`, `FirstRoom`, `PasMaxInt`, `RealBuf`, `ExactFrac` and `ExactSig`, with the
code's name in a comment. Deadlock checking is off in every run because programs end and because a program may itself
block for ever (a receive nobody answers); what must not block is stated as a property
instead.

Symmetry is used in `blocking` and `blocks` only, which check no liveness, over values
that no definition tells apart.

Fairness. `PasChan!FairSpec`: a thread that can go on inside the runtime does
(the operating system schedules it, POSIX mutexes are released after finite work), and
a deadline comes; no statement need begin, and no wakeup is assumed but those the code
sends. `PasTask!FairSpec`: the same, and, as a hypothesis on the program, every body
reaches its end (strong fairness of `JoinTasks(a, TRUE)`); a body that loops for ever is
waited for for ever, as the language says. `PasUnwind!FairSpec`: the walk goes on.
`PasProcess!Fairness`: the loop that reads and waits goes on; a poll that finds an
empty pipe again and again finds the time up (strong, because writers may refill
the pipe between looks); time passes; a signal sent kills. Nobody outside has to end, to
close the pipe or to be quiet; `QuietSpec` adds only that writers stop once the time is
up, without which the run `deadline` shows the promise broken.

## The proofs

Eight modules of proofs, each for every value of the constants of its component, from the
component's named assumption (`PasChanAssumption` and so on) and nothing else unless said.
The assumptions are about the model's frame: special values are different from
ordinary ones, sizes are naturals and the ones the code divides by or indexes with are not
zero, and a program has finitely many activations (`IsFiniteSet(Thread)`, for the
reference count).

`PasChanProofs`

* `TypeCorrect`: `TypeOK`. The invariant is `TypeInv`, which adds that a thread inside a
  select holds one of the program's select statements; without it the arm it looks at has
  no type. Lemmas `PutType`, `TakeType` and `RoundType` carry the arithmetic of the ring
  and the round; then one step per action.
* `LocksAreOrdered`: `LockOrder`. Inductive together with `TypeInv`.
* `WakeupsAreNotLost`: `NoLostSelectWakeup`, under `TurnCovers`, that counting n steps from
  any turn meets each of n arms. The strengthening is `SelectInv`: during a round, an arm
  already looked at that has become ready since has somebody about to broadcast
  (`Pending`). The lemmas are one per shape of step: quiet ones, ones that leave a thread
  about to broadcast, the beginning of a round, an arm found not ready, and the broadcast
  itself. Lemma `DivisorsCover` derives `TurnCovers` when the number of arms of each select
  divides 2^32; it is false exactly where `turn + k` wraps inside a round (the first
  observation below), and is why the theorem carries it.
* `CountsAreRight` and `ChannelsAreSafe`: `RefsCountHolders` and `NoUseAfterFree`. The
  count alone is not inductive: `LifeInv` adds that an activation not begun holds nothing
  and that whatever a thread is using, it holds (`UsesAreHeld`); that is where the three
  critical sections of a close matter.
* `SignalsSuffice`: `NoLostWakeup`, which is inductive with `TypeInv` as it stands,
  because it counts the threads on their way (`Receivers`, `Senders`) against elements
  and free slots. The lemmas are what a put, a take, a thread that gives up and a close do to those counts.
* `ChannelIsImplemented`: `Spec => ImplementsChannel`. `TailFollows` says the tail is n
  elements from the head; from it a put appends to the abstract queue and a take
  removes its first, with the wrap of the indices, and every other step stutters or
  closes.

`PasTaskProofs`

* `RecordsAreSafe` (`NoRecordUseAfterFree`), `BlocksOutliveTasks`
  (`BlockOutlivesItsTasks`), `WaitsSeeTheEnd` (the action property `WaitsForTheEnd`) and
  `TaskTypes`, all from `TaskInv`: what an activation is joining is an entry of its
  set or a name it holds; a set has no entry twice and only tasks of its block; a name has
  one holder; a record's count is 1 for the set plus 1 for the name; a task is done, or
  dropped from its set, only once it has ended.
* `WaitsFormNoRing`: `NoWaitCycle`, stated as: in every set of activations one is not
  waiting, or waits for something outside the set. The invariant `RankInv` is that the
  activations can be ranked with every holder above what it holds. A spawn that
  moves names into the new task needs a rank between two others, which doubling all the
  ranks makes.

`PasUnwindProofs`, under `CarefulSpec`: `ResourcesCloseOnce`, `ListsAreSound`,
`LiveFilesStay`, `NothingStaysOpen` and `DefersFindTheirFile` (the properties `ClosedOnce`,
`ListsHoldLiveSlots`, `LiveFilesUsable`, `NothingLeftOpen`, `DefersSeeTheirBlock`). The
invariant `UnwindInv` is about the three lists: of the frames on a list, those at or behind
the mark of block f are the ones up to f, and marks of outer blocks stand behind those of
inner ones (`Nested`), for the marks that may still be walked to (`Bound`). A walk from
the head to a mark then takes what is abandoned and nothing else. It is this that
a disposed variable whose slot is a mark destroys (`lostmark`), and `CarefulSpec`
leaves out just that.

`PasFileProofs`, under `CarefulSpec`: `FileIsImplemented`, that the lazily filled stream
refines `FileSpec`, by the refinement mapping of `PasFile`. `FileInv` relates the
read-ahead, the C position, the mode and the bound (`ReadAhead`); lemmas about
slices give what each call does to the two halves of the abstract file; one lemma per call
maps it to the abstract call.

`PasArenaProofs`, under `CarefulSpec`: `ValuesStayIntact` (`ValuesIntact`) and
`LoopsHoldTheLevel` (`LoopsKeepTheLevel`). The properties speak of values and
statements of all activations at once; the invariant `ArenaInv` shares the arena out. Each
activation has the stretch from the level it found to the level its callee found
(`BasesRise`), what it holds lies there, and if it keeps nothing that stretch is empty
(`LevelIsKept`); `StretchesMeet` says this of several activations in a row, which
a return or a goto past them needs. `FrameInv` is the part about one activation, and the
lemmas `InnerGoesOn`, `StatementsGo` and `StatementBegins` are about it alone. The two
conditions of `CarefulNext` are used where the code needs them: `BodiesTakeNothing` when a
statement gives back to the function's level beneath a text that is walked, and
`AbandonsNone` when statements are left early.

`PasTextProofs`: `TextIsSound`, that `TextInv` holds of every program, and
`TextImplements`, that `CarefulSpec` refines `TextSpec` (`ImplementsText`), for every text,
limit of an integer and capacity of a string.

* The place of a file in its text (`Place`) is what the stream has delivered less what was
  given back and less the lookahead. `Sound` says that what is given back and what is shown
  are the characters at that place (`HoldsTheText`, `ShowsTheText`), and that no digit is
  among the characters given back (`GivesBackNoDigit`), which is why two places of
  `pushback` are enough: a third would be wanted only after an over-read over an over-read.
* One lemma for each step of the lookahead (`FillShows`, `ConsumedMoves`, `UnreadReturns`);
  then what each loop comes to (`SkipBlanksIs`, `SkipLineIs`, `TakeDigitsIs`,
  `TakeStringIs`), from `RunEnds`: a loop whose every turn moves the place on or ends, ends.
* The parts of a number (`TakeSignIs`, `TakeFractionIs`, `TakeScaleIs`) give the place
  where reading stops; `LongestReal` and `LongestInteger` show that it is the end of the
  longest prefix the grammar admits. `AccumulatedIs` compares the accumulation of a value,
  with its check against `maxint` at each digit, with the magnitude of the whole numeral.
* `TextInv` is `Sound`, the mode (`ModeOfKind`) and, as long as the text is written by the
  operations that follow it, that `atbol` says how the line stands (`BolFollows`). One lemma per
  operation then gives both the invariant and the step of `TextSpec`.

`PasPosixProofs`

* Subprocesses: `RunsLeaveNothing` (`NothingLeftBehind`) and `OutputReadToTheEnd`
  (`ReadToTheEnd`), for `Spec` and `QuietSpec`, from `ProcessInv`: which descriptors and
  which child there are at each place of the run.
* Sockets: `WaitsMissNothing` (`WaitMissesNothing`) and `LinesAreAnswered` (the action
  property `LinesAreOfTheStream`), from `SocketInv`: the buffer holds the bytes of the
  stream from what was answered to what was taken. The scan for a newline in the buffer and
  the definition of the next line over the whole stream are then shown to agree by the
  first newline there is.
* Process exit: `ProcessEndsInOrder` (`EndsInOrder`), from `ExitInv`: one thread at most
  is in `exit`; a measure's flag is set once a thread is about to register it, and its
  handler is then registered, has run, or is still to be registered by that thread; one
  that is there twice was raced for; and at each place of `pasx_term_raw` and
  `pasx_term_restore` the slot, its mark and the handler are what the steps so far made
  them, with the settings saved while the terminal is raw those it had before.

`PasValuesProofs`, about every string of bytes and every list of lengths, and so about the
ones that the specification of `MCPasValues` builds:

* `StringsAreCompared` (`StringsCompareTrimmed`). A string is looked at as extended with
  spaces (`Shown`); the comparison is decided by the first place where two strings look
  different, and two strings look the same exactly when they are equal once trimmed.
* `DecoderTakesScalars` (`DecoderIsExact`). The rows that `u8dec` tests (`WellFormed`) are
  shown to be the shortest encodings of the scalars (`IsEncoding`), length by length, and
  the bits that `u8dec` joins to be those `u8enc` takes apart. `pas_text_validate` never
  answers a place before the one it scans from, so it answers the first byte only when no
  scalar begins there.
* `WritesFit` (`WritestrFits`). The doubling of `pas_mem_room` ends and reaches what is
  wanted (`GrowsEnough`); each store is then inside the buffer, and after the last value the
  buffer holds the sum of the widths (`WrittenFits`).
* `RangesAreSearched`, `RowsAreSearched` and `PairsAreSearched`: the bisections of the
  tables. `SearchIsRight` is about any ordered table of any length: the row looked for, if
  there is one, is between the two ends, which come closer at every turn. The first two hold
  of the full generated tables as well as of the sample, if those are in order;
  that the sample is, `TablesAssumption` says and TLC evaluates.
* `NumbersAreWritten` (`NumbersAreRounded`), for every expansion, exponent, width, number of
  places, base and instant, and for every size of the buffers. The value of a string of
  digits splits at any place (`ValueSplits`); rounding it half up at a place is adding one
  there when the next digit is five or more, carry included (`RoundingValue`,
  `RoundedIs`), and digits behind leading zeros or before trailing ones round alike
  (`ShiftedRounds`); `RoundsAlike` and `HeldRounds` then say that the digits a buffer holds
  are enough for the places it has room for, because a double has no more, and `FoundIs`
  what is found past them. Powers: an accumulator is the power or has overflowed for good
  (`AccsAre`, `CappedSteps`), because the product only grows. Dates: the months add up to
  what the count of leap days says (`YearsAre`), and a stamp is the instant's day
  (`StampsAre`). What the C library's calendar answers is assumed to be an instant
  (`IsInstant`), of any year.

A function defined by recursion is a `CHOOSE` to the provers, so each proof about one first
shows that there is such a function (`RunExists`, `BitsExist`, `GrowExists`,
`WrittenExists`, `FoundExists`, `PowersExist`, `AccsExist`, `DaysExist`, `ValueExists`). What would be an induction is the least-number principle on
a set of counterexamples (`LeastNatural`, `TurnInduction`, `Climbs`).

Only model-checked:

* liveness (`CloseReleases`, `SelectorServed`, `BoundedSelectEnds`, `WaitEnds`,
  `UnwindingEnds`, `DeadlineEnds`): fairness and `ENABLED` are out of the prover's reach;
* `SegmentsGiveNormalForm`, `NormalFormIsCanonical`, `ElementsAreClusters`,
  `TextsInNormalForm` and `JoinsAreOfTheWhole`: normal form and grapheme clusters are folds
  over a string and depend on facts about the contents of the tables (a decomposition holds
  no character that decomposes, a composite decomposes to its pair), an induction over data
  for each.

## Disagreements

Six runs show the code doing something its documents deny; `PROJECT.json` "findings"
quotes the lines.

* `jump`: a goto out of a block that spawned tasks joins none of them.
* `lostmark`: a jump record's mark is a heap file that was disposed of; the walk goes on
  into blocks that live.
* `position`: `position(f)` after `eof(f)` has found the end is one too small.
* `textjoin`: the join of two texts can be longer, in bytes, than both, and is refused
  as a fault; the room is `la + lb`.
* `walk`: a for-in over a text of the arena whose body takes storage has the text
  overwritten, because the body's statements give back the level of the function's entry.
* `deadline`: a child or a descendant that keeps writing is never timed out, because the
  clock is looked at only when poll has found nothing.

Others met while modelling, which the model has and the runs exclude through
`CarefulNext`, or of which the properties state the weaker thing that holds:

* `pasrt_task.c:390`: in the round in which `turn + k` wraps, an arm is skipped when the
  number of arms does not divide 2^32, and the selector may sleep over it though it is
  ready; line 267 and `doc/afterschool-pascal-spec.md:4557` promise otherwise. The runs
  use a modulus the arms divide.
* `pasrt_task.c:259` says "no thread ever holds a channel's mutex and the activity mutex at
  the same time"; `pas_select_try` locks a channel while `pas_select` holds the activity
  mutex. `LockOrder` states the order that is kept.
* `pasrt_task.c:342` says "over n executions every arm is looked at first once"; the
  counter advances once per round of polling and is shared by all selects of a thread.
* The same mark as in `lostmark`, when its storage is given to a later `new`, stops the
  walk early and leaves abandoned files linked. `CarefulNext` of `PasUnwind` disposes of no
  variable that is a mark.
* `pasrt.c:1320` says "the buffer variable holds the component sought to"; a put or update
  straight after a seek or get, with `f^` untouched, writes what the buffer held before.
  `CarefulNext` of `PasFile` requires `Touched`.
* `pasrt.c:1408` says of the capacity check that "`update` overwrites in place and cannot
  reach it"; update at the append position of a full file adds a component.
* The same comment says the check is "made where the growth happens"; for a named file
  opened by extend and sought back it is made at the position sought to, while the write
  goes to the end, so that a full file grows. `CarefulNext` leaves it out (`Overfills`).
* `pasrt.c:919` says update will "write the buffer variable back over the component the
  file is positioned at"; a named file that was extended is open in append mode, and every
  write goes to its end wherever it was sought to.
* `pasrt.c:1288` says the line marker "is not a character the program can see"; after a
  real was read from `1.` at the end of a line, the marker given back is shown as `chr(10)`.
* `doc/implementation-defined.md:406` says "`page(f)` writes an implicit line terminator
  when the line is non-empty"; after put, or after extend of an unended line, it does not.
  `followed` in `PasText` is the history variable of that condition.
* `compiler.pas:10468`: exit, continue, break and goto out of a statement whose
  expression took arena storage give nothing back; a loop around it may fill the
  arena. `AbandonsNone` of `PasArena` leaves such programs out.
* `pasrt.c:69`: the loser of two exits calls `_Exit`, which may cut off the winner's
  handlers, among them the one that gives the terminal back; the comment there accepts
  it. `EndsInOrder` excuses exactly that (`Cut`), and a terminal whose restoring the
  system refused: `pasx_term_restore` forgets the settings either way.
* A task that leaves while the program is inside `pasx_term_raw`, after `tcsetattr` and
  before the handler is registered, or inside `pasx_term_restore`, between the two lines
  of `pasrt_posix.c:613-614`, leaves the terminal raw: the handler finds no settings to put
  back. `EndsInOrder` excuses it (`Midway`).
* `pas_cov_armed`, `pas_br_armed` and `pas_heap_armed` are tested and set without
  synchronisation (`pasrt.c:188`, `271`, `2203`): two tasks can register a dump twice, and it
  is then written twice. `EndsInOrder` allows it for a measure that was raced for
  (`raced`).
* `pas_write_real` has room for `PAS_REALBUF` characters in the fixed-point form and
  for `PAS_EXACT_SIG` digits after the point in the floating-point one, and writes as many
  bytes as were asked for (`pasrt.c:1917`, `1984`): beyond 1446 places, less the digits
  before the point after the first, or a width beyond 774, what follows the digits in
  memory is written as though it were more of them.
  `NumbersAreRounded` says where the digits end.
* The stamp of an instant outside the years 1 to 9999, which `SOURCE_DATE_EPOCH` can name,
  is marked valid (`pasrt.c:3548`) and refused by `date` (`pasrt.c:3589`).
  `NumbersAreRounded` says so.
* `pas_write_text` of a text that begins with a mark joins it to the padding space,
  and the field is one element narrower than asked; `JoinsAreOfTheWhole` says so.
* A line longer than a socket's buffer is cut into pieces, and the rest of an
  overlong line is discarded only as far as the buffer goes; a CR is not taken off a last line
  without LF.
* A child that had ended just before the deadline's kill is answered as killed.

And met beside the model, in code it abstracts: `pas_stamp` is one static array, with
"there is no second thread to race it" as the reason (`pasrt.c:3466`), and
`pas_temp_tick`, the buffer of directory names and the heap and coverage counters are
unsynchronised in the same way; between `pipe` and `FD_CLOEXEC` another task's child
inherits the pipe (modelled: `OtherSpawns`), and an ignored SIGPIPE is inherited by
children; `pasx_socket_new` without memory answers status 0 with nil;
`pas_str_slice_check` adds two ints before it compares, and `pas_gettimestamp` adds 1900
to a year that may be near the largest int; `pasx_text_check` answers an overlong segment
as ill-formed; `pas_bind` over an open internal file leaves its stream open.

## Not modelled

* bind, unbind, binding and program parameters: what bind keeps and closes, and what
  the file system may change between binding and reset.
* Directories and file status: one system call each.
* Arithmetic on doubles, complex numbers and the transcendental functions, which are
  C's; infinities and NaNs are written by C.
* The lexer, parser and semantic analysis, the libraries beyond the loops that call the
  runtime, the language server, the editor and the build: sequential, and checked by the
  repository against their own output.
* Within the modelled components: a channel moved between two variables of one
  activation; the order in which a send-statement lends its channel and evaluates its value
  (`compiler.pas:8820`); assignment to `f^` of a text being read; partial components of a
  file; `waitpid` finding no child, which needs SIGCHLD ignored; the rows of the
  Unicode tables outside the sample; the layout of coverage tables.

## What is left

The components above are modelled, their runs pass, and every invariant and refinement that
a run checks is proved except those listed under "Only model-checked". What could follow:

1. Normal form: that `canonical_order` sorts stably by class, then that a segment flushed
   on its own is what the whole string gives (`SegmentsGiveNormalForm`); from it
   `JoinsAreOfTheWhole` and `TextsInNormalForm`.
2. `TablesAssumption` for the full generated tables, by a check in the generator: with it
   the search theorems hold of the shipped data.
3. Binding and program parameters, the largest part of the runtime that has no module.
