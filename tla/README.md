# HLPtool in TLA+

HLPtool searches for *hex layer* programs: chains of redstone layers, each a pair of
comparators with fixed barrels, that turn one signal strength (0..15) into another. A
user gives the map wanted, the *goal*, and gets a short chain that computes it. This
directory models the program's tables, its two solvers, the cache they share and the
objects it offers to Lua scripts; TLC checks the models on small numbers of signal
strengths, and TLAPS proves the main safety results for every number of them.

Paths below are relative to `src/src/`, the directory of the C sources.

## 1. The system

| Component | State | Operations | Hard behaviour | What makes it correct |
|---|---|---|---|---|
| Hex layers (`redstone.c`, `redstone.h`, `vector_tools.h`) | none; a map is 16 nibbles in 64 bits | `hex_layer`, `apply_mapping_packed64`, `get_group64`, chain conversions | six modes numbered so that three bits control both comparators | composing never adds outputs; the two models of a layer agree |
| Layer tables (`redstone.c`, `precompute_hex_layers`) | `precomputed_hex_layers`: finished tables by group and direction | build or return a table | first layer to compute a map wins; pairs are dropped for pairs seen earlier; vectors of four read past short rows | the loops make the table the search needs; nothing computable is lost; padding stays in its row |
| Transposition cache (`cache.h`) | array of entries, 32-bit trial counter | `cache_init`, `cache_check`, `invalidate_cache` | entries overwrite each other; a wrap of the counter; it survives calls | a hit means this very iteration went on from the map |
| Hex solver (`solver/hlp_solve.c`) | call stack of `dfs`, `output_chain`, `main_cache`, staging buffer | `solve` (presearch, main search), `single_search_inner`, `dfs` | four prunings at once; main search continues on the presearch's chain; bounds of -1 and beyond 31 | an accepted length is that of a chain for the goal; perfect searches answer shortest chains; every call returns |
| Dual binary solver (`solver/dbin_solve.c`) | endings by group, one prune table, cache | `precompute_dbin_layers`, `get_prune_table`, `dbin_solve`, `dfs` | binary search in a partial order, one table kept over calls of different groups, and given back without being forgotten | the chain written computes the goal; lengths are optimal |
| AA tree (`aa_tree.c`) | the endings, ordered by map | add, find, copy in order (others are never called) | rotations on the way back | shallow, ordered, loses nothing |
| Function sets (`solver/hex_fn.c`, `lua/lua_hex_fn.c`, `lua/lua_fn_set.c`) | objects of a script | methods: set, compose, multiply, divide, invert | packed rows, shifts and saturation | division is exact, inverse is an involution that exchanges the sides |
| Sets of signal strengths (`solver/hex_fn.c`, `lua/lua_hex_set.c`) | a word of a script | from and to lists and keys, add, remove, union, ..., printing | indices are not clamped; runs of bits carried off a word | a set reads back from everything it is written as |
| Layer sets (`solver/hex_layer.c`, `lua/lua_hex_layer.c`) | table of layers by function, iterators | `init_hex_layer_data`, `hex_layer.iter`, `layer:alts`, `iter_call` | filters are script code that runs in the middle of `iter_call`, re-enters it or raises errors | each wanted layer handed out exactly once |
| Lua environment (`lua/lua_open.c`, `command/lua_command.c`, chains in `redstone.c`) | the interpreter | registration, `hlp.solve`, `eval`, `normalize_chain` | scripts write a layer as two halves, the program as one of six modes | translating a chain keeps what it computes |
| Goals as text (`command/hex.c`, `command/dbin_command.c`, `parse_hlp_request_str`) | a string, two numbers | append the arguments, read them character by character | omitted inputs are shifted in; options transpose or swap bits | a goal is asked for as typed, or refused |
| Random searches (`search/`) | C's random state | draw goals, call the solvers in a loop | drawing without repetition by depositing bits | a goal has the outputs asked for |
| Distance check and bitonic sort (`solver/hlp_solve.c`, `bitonic_sort.h`) | two registers | sort 16 bytes of four arrays by shuffles and blends, compare neighbours | interleaved arrays, wildcards at the end | the network sorts; the check is the one by distance |
| Command line (`main.c`, `command/`) | options | choose the subcommand, argp parsing, printing | | |

Everything runs in one thread. Components meet through calls and through state that
outlives them: both solvers call `precompute_hex_layers` and hold a static `main_cache`,
the dual binary solver keeps endings in its history and a prune table, scripts call
`solve` any number of times in one process, and filters are callbacks out of the program
into the script. The hazards are therefore not races but **stale state** (what an
earlier iteration, search or call left in a cache, a history, a chain), **pruning**
(several checks that each may drop the last good chain), **boundaries** (bounds, wrap,
empty rows, buffers) and **re-entrance** (filters). `PROJECT.json` lists them by line.

## 2. Modules

```
Redstone ─┬─ HexTables ─┬─ PrecomputeLayers ──────────────────────────┐
          │             └─ DbinLayers ─┬─ PrecomputeEndings (AaTree) ─┐│
          │                            ├─ PruneTable ── DbinTables ── Preparations   run preparations
          │                            └─ DbinSearch (INSTANCE Cache)                runs dbin_*
          ├─ LegalDist ─┬─ HlpSearch (with HexTables) ─┬─ HlpOptimality              run shortest
          │             │    INSTANCE Cache            └─ MCHlpSearch                runs search, lua_answers,
          │             │    INSTANCE HlpSolver                                           fourteen_outputs
          │             └─ HexGoals ─── Program                                      run program
          │                               INSTANCE BitGoals, RandomGoals, DistCheck ── BitonicSort
          └─ HexFn ─┬─ LuaSets ───────┐
                    ├─ LuaChains ─────┤
       HexLayers ── LuaLayers ─────── LuaScript                                      run lua
                       LuaHexSets ────┘
Cache ── TransCache                                                                  run cache
Proofs: RedstoneProofs, TransCacheProofs, PrecomputeProofs, HlpSearchProofs,
        HlpOptimalityProofs, DbinSearchProofs, LuaScriptProofs, ProgramProofs
```

A module `MC...` extends the one left of the run and gives the constants; `Preparations`
is run as it is.

`N`, the number of signal strengths, is a constant everywhere (16 in the program). Maps
are functions on `0 .. N-1`; packing into 64 bits and vectors of four are modelled where
they matter: `MAP_ARRAY_ALIGNMENT` lanes with padding.

**Redstone** - `hex_layer128` with its three independent mode bits, the map of a layer,
composition, the number of outputs.

**HexTables / PrecomputeLayers** - `HexTable(group, direction)` says what the table is;
`PrecomputeLayers` is `precompute_hex_layers` with both loops, the hash table of
compositions, the final layout and the history over calls.

**Preparations** - what a process prepares, call after call: the hex solver its layer
tables, the dual binary solver its endings and prune tables (`DbinTables`). It extends
both, so that their properties are checked over all calls of a process.

**Cache / TransCache** - the entries with trial and depth. `Slot` (the hash) is a
parameter, `TrialLimit` stands for 2^32. `TransCache` drives it as a search does and
remembers in `visited` what the trial was told to visit.

**HlpSearch** - `solve()`. One step is one turn of a loop, a call or a return of `dfs`.
`pc` says where it stands: *idle*, *iterate* (`single_search_inner`'s loop), *visit*
(entry of `dfs`), *expand* (its loop over staged branches), *returned*, *done*. `stack`
holds the frames of `dfs`, `chain` is `output_chain`, `accuracy` tells presearch from
main search. `trail` (the maps along the chain found) and `stale` (cache slots written
by earlier iterations) are history variables read by properties only. `HlpSolver` is the
abstract specification: a call is made, and returns a reply that, if `hlp_print_search`
accepts its length, is a chain for the goal. `Accepted` is its test and nothing else: a
length not beyond the bound asked for. `staged_branches` is one buffer, in which a call's
part begins behind the row of its caller; the model gives each frame a set of its own.
The two differ only where a frame still holds lanes past the end of its row while a call
below it stages some, and `PaddingIsNotTaken` says that this does not happen, except for
the goals it leaves out.

**HlpOptimality** - the chains of a goal without a search (`MapsOfChains`,
`LengthsFor`), and what the search's answer has to do with the shortest of them.

**DbinLayers, PrecomputeEndings, PruneTable, AaTree, DbinTables, DbinSearch** - the dual
binary solver: cells of a map are the 32 bits of the program's mask, goals name the
cells that must be 0 and 1. The endings and the prune table are built loop by loop over
an AA tree written as the program's node assignments; `DbinTables` makes both
preparations call after call; `DbinSearch` is `dbin_solve` with its look-up (`bsearch`
with the program's comparison, modelled as the library does it) and its cache. `chain`
has two entries in front of the array because the code writes there. A prune table that
was given back (`freed`) is read and given back again by later calls. Both are undefined:
either the program ends there (`Crash`), or the reading answers anything and the call
goes on.

**HexFn / LuaSets** - functions, function sets and the methods of a script on one of
each. Methods that change an object and those that push a new one are both an assignment
to the script's variable.

**LuaHexSets** - a script's set of signal strengths, the bits of a word of `SetBits`
bits. Its printed form is a list of runs (`Tokens`), found as the code does, by carries
and counts of trailing zeros; lists and keys are written out and read back.

**LuaChains** - `lua2c_chain`, `c2lua_chain`, `eval` and `normalize_chain`. A script's
layer is two halves; the tables by key are the program's. Chains come from a script,
layer by layer, or from a solver.

**HexLayers / LuaLayers** - the second model of a layer in the program (free
comparators), `init_hex_layer_data` layer by layer, and iterators. `calls` is the stack
of `iter_call`s; a call is *asking* while its filter runs. A filter accepts a fixed set
of layers, and for the layers in `Busy` it may first call any iterator or raise an error
that any of the enclosing filters, or the script, catches. `handed`, `repeated` and
`failed` of an iterator are history.

**LuaScript** - `main`'s load followed by a script that uses functions, sets, chains or
layers.

**HexGoals** - the subcommand `hex`: arguments are put behind each other, and the parser
goes over the string; or a script's table is read. `Spin` is a state in which the parser
stays for ever on a bracket. The request is two numbers with a digit per input, as in
the program, so that the shifts are modelled as shifts.

**BitGoals, RandomGoals** - the goals of `2bin`, with the options for order and
inversion, and how the solver shows them; the draws of `search-hlp-random`, digit by
digit.

**BitonicSort, DistCheck** - the network, one action per stage on the eight bytes an
array has in each of two registers; the distance check on sorted bytes. `LegalDist`
states it by distances, as `HlpSearch` uses it, and `FilterIsLegalDist` connects the
two.

**Program** - the subcommands side by side.

Every definition that stands for code is listed with its lines in `PROJECT.json`.
Definitions introduced by "Mutated form" are never used by a specification; they are
what a plausible bug would make of the definition below them, and show that the property
it is listed for can fail.

## 3. Runs

| Run | Instance | Question | Distinct states |
|---|---|---|---|
| `cache` | 3 keys, 2 slots, depths 0..2, trials wrap at 4 | `HitIsVisited`, `NewTrialIsEmpty`: does a hit always come from this trial, across the wrap? `IInv` is what the proof uses, types included | 9,592 |
| `preparations` | N=4, calls of either solver in any order; groups 2 and 4 in both directions, endings and prune tables of three groups | Do the loops return the table (`ReturnsTheTable`); is every composition still there (`RowsLoseNoMap`); do vectors stay in their row; is the identity's row the longest, on which the staging buffer relies; are endings shortest and the tree shallow; are entries with wildcards best and does pruning lose nothing; does every preparation end? | 49,598 |
| `search` | N=5, 21 requests, call after call; one is a goal of a script with wildcards and a single output, one a fast search with a bound beyond the program's | `ImplementsSolver`, the refinement with its liveness: is every length the caller accepts that of a chain for the goal, and does every call return; `SearchInv`, the inductive invariant; `NoStaleHit`, `PaddingIsNotTaken`, `StagingFits` | 54,666 |
| `shortest` | N=5, all 3,125 exact goals; all 7,776 goals in fast searches with a bound beyond the program's | `SoundAnswer`: does no fast search fail with a length its caller accepts; `OnlyDistanceLosesChains`: is the answer a shortest chain, unless the distance check drops one; `DistancesSuffice`: does the check pass all of them in perfect searches, and in normal ones for goals that use all outputs or all but one? Together: such answers are shortest | 1,014,820 |
| `fourteen_outputs` | N=16, one goal | violated: finding 1 | 290 |
| `lua_answers` | N=5, the scripts' requests | violated: finding 2 | 16 |
| `dbin_goals` | N=5, all 1,024 exact goals and 833 with wildcards; three exact ones again and again | `LongChainsCompute`, `ExactIsSolved`: what the solver does deliver; no stale hit over iterations and calls; `CallsReturn`: a call that finds a prune table nobody gave back returns, and after one that gave it back the next returns or ends the program | 30,461 |
| `dbin_short`, `dbin_random`, `dbin_wildcards` | N=4 | violated: findings 3 to 5 | about 770, 115, 28,000 |
| `lua` | N=3, 144 layers, one iterator, calls three deep; words of 6 bits; chains of two layers | Division exact, inverse swaps sides, buffers grow in time, the two layer models agree; each layer handed out once, none forgotten; sets read back; chains keep their meaning; calls end | 43,231 |
| `program` | N=3 and strings of up to 4 characters of 7 kinds; 7 of 5 kinds for bits; random goals of N=4; the network at its own size of 16 | Are goals read as meant or refused (`GoalsAreRead`, `BitsAreRead`); has a random goal its outputs; does the network sort; is the check the one by distance; does reading end? | 338,669 |

**Why the bounds are enough.** The order of modes, ties, empty rows, padded lanes and
duplicate pairs all occur from N=3 or 4. The search needs N=5 so that perfect, increased
and normal accuracy have different thresholds for some group and goals need chains of
four and more layers that meet maps again; seven cache slots for hundreds of maps make
entries overwrite each other all the time, and `TrialLimit` makes the counter wrap
inside a run. `MaxChain = 6` (31 in the program) is above the longest shortest chain of
N=5, and requests ask for bounds of -1, 0 and beyond it. Requests are those the command
line and `solve_lua` make, including the mix-up of `solve_lua` described below. A bound
beyond `MaxChain` matters for fast searches, whose failure the caller would not see
(section 5): `search` has one such request, `shortest` one for every goal there is, and
none of them fails. For the dual binary solver `MaxDepth` stands for
64: it is 6, and 4 for the goals asked for again, one of which reaches it. Only exact
goals are asked for again: that a goal with wildcards is solved late because the binary
search missed an ending is modelled, but no property is about it. For Lua, N=3 has a
function with 39 layers (its buffer grows three times), and three nested calls are one
more than re-entrance needs; one iterator is enough for it, since two iterators share
nothing but the table. A word of 6 bits stands for the 16 of a set and is tried with indices beyond both of its ends; runs
at either end of the word, inside it and all of it occur. A chain of two layers has
every half in front of and behind every other. Strings of four characters for three
inputs are the first that are too long, and leave room for an omitted input, a wildcard,
a bracket and a wrong character in one goal. Seven characters of bits are one more than
three inputs have. The network is checked with all arrays of zeros and ones: what
compares and exchanges sorts every array if it sorts those. The distance check takes
four pairs of a value and a goal, in turns over sixteen inputs: it compares two
neighbours at a time, so what matters is which pairs meet. Random goals need `RandomN =
4` for a digit between the first and the last.

`CHECK_DEADLOCK FALSE` stands where the system may stop: in runs that ask for a goal
once, for scripts, which end, and for the reading of a goal. All other runs check
deadlock; a program that has answered can be called again.

**Fairness.** The program is sequential: a function that was entered runs to its end.
`HlpSearch` and `DbinSearch` have `WF(SolveStep)`, `Preparations` weak fairness of its
steps while one is running, `Program` of the parser (`Parsing`), not of the user who
types; no fairness makes anybody call again. `LuaScript` has `WF(Load)` and
`WF(RunPart)` for what the program does by itself and `SF(AnswerPart)` for the filter's
answer: a filter may call iterators and come back to the point where it could answer,
but does not do so for ever. Whether the script ever calls is left open, so `CallsEnd`
says that calls made come to an end.

## 4. Proofs

All theorems hold for every number of signal strengths of two and more; no result is
assumed. Two of them, `AnswersAreSound` and `SolverIsImplemented`, have a hypothesis about
the requests, `BoundsAreSearched`, in their statement.

*`TransCacheProofs`.* For all keys, slots and counter sizes: `TypeCorrect`,
`HitsAreSound` and `NewTrialsAreEmpty`. `HitIsVisited` is not inductive, since it says
nothing of entries of other trials. `IInv` adds that no entry carries a trial beyond the
counter, and that an entry of the running trial was visited; the wrap keeps it because
it clears the array (`CacheIsJustified`).

*`RedstoneProofs`.* Types of layers and compositions, layer 0 is the identity, and
`CompositionAddsNoOutputs`: a composition has no more outputs than either of its parts.
That is why a layer with fewer outputs than the goal may be left out of a table. The
module also has the induction the other proofs need. The library's induction theorems
take a predicate, which the provers cannot instantiate, but its theorem on minima of a
well-founded relation takes a set: from it `LeastMember`, `InductionTo` (a set with 0
that has with each number the next has them all) and `StepsExist` (what begins somewhere
and goes on step by step is there, so a recursive function over an interval is what its
definition says).

*`PrecomputeProofs`.* The tables `precompute_hex_layers` returns, for every number of
signal strengths and any order of calls, saved tables included. The one hypothesis,
`Groups \subseteq 1 .. N`, says that callers ask for a number of outputs there is; all
of them count the outputs of a goal. `PrecomputeInv` (`TablesAreMade`) follows the two loops. In the first one the
kept configs have different maps, with enough outputs and none of them the identity
(`KeptApart`), and no config tried so far is missing (`AllKept`). In the second one no
two listed pairs compute the same map (`ListedApart`), and what a tried pair computes
with enough outputs, a listed pair computes that is the same or was tried before it
(`TriedIsMade`); the hash table has exactly the maps of the listed pairs. The saved
tables and the answer were laid out from such configs and rows. It was checked on N=3
before it was proved; the run checks what follows from it. What follows:

- `TablesAreSound`: the returned table satisfies `IsTable`, which is what
  `SearchAssumption` and `TablesAssumption` ask of the tables of both searches.
  `IdentityRowAlwaysLongest` and `VectorsAlwaysInRow` are parts of it in the words of the
  run. The layout (`Layout`) is arithmetic on running totals of rounded lengths
  (`StartsFacts`, `FlattenPlaces`, `RoundUpFacts`).
- `ChainsOfAnyLength`, and `RowsNeverLoseAMap` for the lengths the run checks. It is the
  theorem that the tables lose nothing, and not obvious: a pair is dropped for a pair seen
  earlier, whose second layer then has another row, and dropping could go on along the
  chain. The argument takes, of all chains of a length that compute a map, the
  lexicographically first by numbers of layers. Were one of its pairs not listed, two
  layers that come before them would compute the same (`PairIsListed`), and the chain
  with these is before it (`FirstChainMayFollow`). The order is a rank in base n + 1
  (`RankedChains`), so that a least one exists by `LeastMember`. Layers may be the
  identity, which fills chains up to the length.
- `ConstantsAreReached`: what `ConstantsAssumption` asks of tables for a single output,
  its bound on the alignment excepted, which is about sizes and evaluated by TLC.
- `TablesListFirstPairs`: what `ShortestAssumption` asks of the tables of a search. Rows
  ascend (`RowsAscend`), and what two layers compute, a listed pair computes that is not
  behind them.

The theorems are about `Spec` of `PrecomputeLayers`. `Preparations` makes the same calls
of the same actions; it cannot be reasoned about itself because it reaches the RECURSIVE
operators of `AaTree`.

*`HlpSearchProofs`.* `SearchIsJustified` (`Spec => []SearchInv`), and from it
`TypeCorrect`, `AnswersAreJustified` and `AnswersAreSound`. `SearchInv` is `TypeOK` with: the stack is never
deeper than the iteration (`StackIsBounded`); each frame's map is the one below run
through its layer (`StackIsChain`); while the main search runs with a bound below the
caller's, the chain written last has the length of that bound plus one
(`BoundIsJustified`), which is what makes the answer of a failed main search right; and
a length returned is backed by a chain or one beyond the bound searched
(`ReturnIsBounded`, `ReturnIsJustified`); and an answer `hlp_print_search` accepts is a
chain, or the failure it does not see (`AnswerIsJustified`, `FailsUnseen`).
`AnswersAreJustified` states this last part for all requests. `AnswersAreSound`
proves `SoundAnswer` under a hypothesis that is part of the theorem, `BoundsAreSearched`:
requests for fast searches keep to the bound the program searches. It cannot be proved
without: for a small `MaxChain` a fast search with a larger bound fails unseen (section 5). `SolverIsImplemented` has the same hypothesis. There is a lemma per action. The proofs rest on `SearchAssumption`
about the constants: layer 0 of a table is the identity, rows and maps of rows
correspond lane by lane, and lanes that pad a row hold the map 0. TLC evaluates the
assumption on the tables of the runs, and `TablesAreSound` proves it of every table the
loops make. The last point matters: the map 0 in a padding lane would be followed by a
search for a goal that 0 meets, and such goals are answered before (`ZeroGoal`,
`LastLayerSolves`). `HitsAreFresh` (`Spec => []NoStaleHit`) adds `EntriesAreOld`: no
entry is of a trial to come, between two iterations all entries are of earlier trials,
and from the second iteration on none of them counts as stale when it begins. The first
iteration, the only one that a search begins without invalidating the cache, stages no
layer that is looked up.

`SolverIsImplemented` is the refinement without its liveness: `Init` gives initial
states of `HlpSolver`; the step that returns is its reply, by `ReturnIsJustified`,
`BoundIsJustified` and the hypothesis; a new request is its call, and every other step changes nothing the
caller sees. `StagingAlwaysFits` counts: a call of `dfs` begins behind the rows of the calls
below it, none of which is longer than the identity's (`SearchAssumption`), and only a
call that is not the last two of the iteration writes at all (`StackIsBounded`); what it
writes is a row and one entry, or, for a goal of one output, a row and its padding, at
most two rows of the identity. A recursive sum over the stack is bounded by
`RunningTotals`. `PaddingIsNeverTaken` says of the goals of
which it is true that the search follows no lane behind the end of a row, and that no
call still holds such a lane when one above it stages its own. For a goal of
several outputs no such lane is staged, since the map 0 has too few separations. For a
goal of one output all of them are, and the argument is another one: the identity's row holds a lane that leads to the goal (`ReachesConstants`, from `ConstantsAssumption` on
the tables, which `ConstantsAreReached` proves of them), the loop meets it before the padding, and the invariant has to say that
until then the frame's position is in front of that lane (`StagedIsInRow`,
`ConstantIsNear`). Which goals are left out, and why, is the first item observed in
section 5.

*`HlpOptimalityProofs`.* `ShortestUnlessDropped` (`Spec => []OnlyDistanceLosesChains`):
four things may cost a chain, the pairs the table leaves out, the maps the cache skips,
a presearch whose answer ends the main search before its bound, and the distance check;
the first three together never lose the last shortest chain. It is proved for every
number of signal strengths, tables as `ShortestAssumption` says (`TablesListFirstPairs`
proves it of those the loops make), every hash, and calls in any order on one cache
whose trial counter wraps. Each of the three prunings is harmless by itself; what the
proof shows is that they go together. A cache may skip a map because another
chain met it before: a chain with the same map in the same place, whose last layer has
another row, along which the rest may not be listed.

The proof therefore follows one chain: of all shortest chains for the goal the first in
lexical order of layer numbers (`FirstExists`). Its pairs are listed, for else a chain
before it would compute the same (`FirstFollowsRows`). Since lanes are staged from the
last one down and taken from the end, the search meets the chains of an iteration in
this very order. `FirstIsAhead` says that in the iteration of its length the first chain
is still to be found: the calls go along it up to some height, there the next layer is
staged and only layers before it were taken, and the cache hits no map further on
(`IsAhead`). An entry that did was made by a chain of this iteration before it, which
leads to that map in as few layers, and with the rest of the first chain would come
before it (`NoneIsBefore`, `DescendKeeps`). `NotTooLate` then says that the main search
never goes on to an iteration longer than this chain, and `ReturnsInTime` that it
returns no greater length; `MainIsAccurate` and `IdentityIsFound` are about the accuracy
of the main search and goals without layers. That no answer is shorter than the
shortest chain is the solver's soundness. Searches of reduced accuracy are left out,
since they never run a main search, and so is the bound 0, for which no iteration is
run.

*`DbinSearchProofs`.* `HitsAreFresh` for the dual binary solver along the same argument:
only a call with more than three layers left looks a goal up, so never one in the first
iteration; `FailIteration` invalidates the cache before each other one. No assumption
about tables or hash is used.

`LongChainsAlwaysCompute` is the solver's soundness, for the answers that have any:
`LongChainsCompute` for every number of signal strengths, all tables, endings, prune
tables and caches. Its inductive invariant is `DbinInv`, which `dbin_goals` does not
check (all goals of N=4 and some of N=5 were): beside the types, that a second call is
never as deep as the iteration, so that the ending has its three places behind the
layers of the calls (`StackIsBounded`); that each call has what is left of the goal
behind its layer (`StackIsPath`); and that nobody writes the chain before the call that
answers does (`ChainIsNew`). The step that matters is `FindEndingStep`. The look-up is a
binary search by a comparison that, for a goal with wildcards, is no order; `SearchFinds`
shows that it ends and finds nothing but what compares equal, whatever the list.
An ending that compares equal meets what is left behind the last call; with the layers
of the calls in front of it, one after the other (`PrependMeets`), the chain meets the
request. That the chain was written throughout is what makes the ending one of three
layers. `TablesAssumption` says of the tables only that layers and endings have the maps
of their configs, and nothing of their order or completeness; TLC evaluates it on the
tables of every `dbin` run.

*`LuaScriptProofs`, chains.* `TranslationKeepsMeaning` goes through the keys of `lua2c_chain`
(`KeyedLayer`), reads the config back into its parts (`ConfigParts`) and compares what
the six modes do (`LayerOutput`) with the two halves; `PrintedLayersKeepMeaning` is the
way back for every mode but 5, and `NormalizingKeepsMeaning` combines the two layer by
layer. `ChainsMean` goes from layers to chains of any length, by `StepsExist` for what a
chain computes and `InductionTo` over its layers; `ChainsAlwaysMean` carries it over to
the chains of every script.

*`LuaScriptProofs`, layers.* The layer table and the iterators: `LayersInv` is kept by loading
the table layer by layer and by every step of an iterator. `HandedOnce` and
`IterationIsComplete` are about finished histories and far from inductive while filters
run. The invariant says for each iterator which layers are behind its position, which of
those were handed out and which are held by a call that is still asking its filter; a
filter that calls the iterator again moves the position on while the outer call keeps
its layer, and one that raises an error drops the layers of all the calls up to the one
that catches. The doubling of buffers is a bound on each function's count by its space.

*`LuaScriptProofs`, sets and scripts.* Membership in a divided set is membership of the product
(`PreDivIsExact`, `PostDivIsExact`); multiplying and dividing are adjoint
(`PreDivIsLargest`, `PostDivIsLargest`); inverting twice is the identity, and exchanges
the sides. `SetsAreTyped` is the invariant that carries these over to the states of
every script: `DivisionIsAlwaysExact`, `InverseAlwaysSwapsSides`. In the same way
`LayersAreKept` carries over `LayersInv`: `LayersAlwaysTyped`, `LayersAlwaysHaveSpace`,
`LayersAlwaysHandedOnce`, `IterationsAlwaysComplete`, and `ClassicAlwaysSearched`, that
the two models of a layer in the program agree.

*`ProgramProofs`.* How goals come about, for strings of any length and every number of
signal strengths; the parts share no variable and have an invariant each.
`HexInv`: while a string is parsed, the two numbers have the symbols so far as their
lowest digits, the last one first (`SymbolsAreRead`). The shift that fills the rest with
wildcards moves each symbol to the lane of its input (`FinishingKeepsHex`); a table is
shifted in digit by digit, which `NumbersFacts` shows by going along the recursion
(`StepsExist`, `InductionTo`). `BitInv`: each half has the cells of the symbols typed for
it so far (`BitsHold`); that the next bit goes where its symbol belongs is that `offset`
and the order of the symbols are inverse to each other, transposed or not
(`TransposedPlaces`), and that nothing `README.md` offers sets `reverse`. `RandomInv`:
the digits drawn are as many different ones (`Drawn`), the map has the same values as
the digits drawn for it (`MapHolds`). `MemberExists` is why `pdep` finds an unused digit
for every value below their number, and the shuffle reaches every place because sixteen
different places are all of them (`ShuffleKeeps`).

The sorting network and the check by distance are proved at the program's own size of
sixteen bytes, for whatever values and goals the inputs have (`LaneInputs`, a constant),
where the run has zeros and ones and four pairs in turns. `SortInv` has what each stage
is to leave behind: ascending runs, and where the two registers have their items
(`Runs`, `Runs8`). A stage turns every other run around, which makes two runs a block
that is bitonic, no four of its items going up and down in turn (`Alternate`,
`FlippingIsBitonic`), and halves the blocks until they are single items
(`HalvingOrders`); in between the items are in places of their own (`Halves8`,
`Quarters16`, ...). Nothing is lost because each vector operation only exchanges places
(`RearrangedCount`). `CheckInv` adds that the array sorted is the one of the inputs.
Then wildcards, packed as 255, end up last and are covered, even if another input packs
to 255, too (`OthersAreLeft`); equal neighbours agree exactly if inputs with the same
value do (`AgreementGoesOn`); and the neighbours too close are in bijection with the
values to be separated (`ApartAreSeparations`), so that the count compared with the
threshold is the one of `legal_dist`.

That a prune table which was given back may be read, or end the program (`Crash`), is
part of the steps the theorems of `DbinSearchProofs` are about.

**Only model-checked.** Liveness (`CallsReturn`, `CallsEnd`, `PreparationsEnd`, the
fairness part of `ImplementsSolver`), which TLAPS does not prove. `DistancesSuffice`:
that the thresholds of `get_dist_threshold` pass every map of a shortest chain is a fact
about which maps few layers can make, found by enumeration; for `N - 2` outputs it is
false (finding 1), and why the others should hold for every number of signal strengths
the code does not say. `ExactIsSolved`: it needs that the endings are complete and in
the order the look-up follows, and that neither prune table nor cache hides the last
good layer. `ReturnsTheTable`: that the loops make the very table of `HexTable`, whose folds
and selections from sequences compute by recursion over data; the proofs say what the
table is good for instead. The endings and prune tables (`Preparations`), whose modules
reach the RECURSIVE operators of `AaTree`, on which tlapm has no SMT. `HexSetsReadBack`,
which is about words of a fixed size that TLC goes through.

## 5. Findings

Each is a counterexample of a run, with the line it contradicts in `PROJECT.json`.

1. `fourteen_outputs`: at the program's own size a *perfect* search for
   `0204456789abcdef` answers with four layers although 0x143, 0x104, 0x042 computes it.
   The threshold of `n + 1` separations that `get_dist_threshold` calls always
   sufficient for 14 outputs is not. `DistancesSuffice` leaves out goals with `N - 2`
   outputs for this reason.
2. `lua_answers`: `solve_lua` takes the failure value, 43, for the length of a chain in an
   array of 42 (`solver/hlp_solve.c:137`). A perfect search from a script is enough: the
   accuracy is stored as the kind of goal, and the search refused.
3. `dbin_short`: iterations 0 to 2 accept endings that are longer than the iteration;
   the ending is written in front of the array and the length is too small.
4. `dbin_random`: the prune table of the first call serves all groups; a goal of another
   group gets a layer too much.
5. `dbin_wildcards`: an ending shorter than the place left for it leaves entries
   unwritten.

Observed while modelling, without a run of their own:

- A fast search (`-f`) that fails returns one more than the bound it searched, 31 at most
  (`solver/hlp_solve.c:399`, `:431`); other searches convert the value (`:440`). The caller
  compares with the bound asked for (`:493`). With `--max-layers` above 31 it takes the
  failure for a chain of 32 layers, which nobody wrote. The model does the same
  (`FailsUnseen`): with a `MaxChain` of 3, the fast search for 1, 3, 0, 2, 4 with a bound
  of 6 violates `SoundAnswer`. With the bound of the runs no goal of five values, of which
  none needs more than five layers, makes a fast search fail; whether one of sixteen
  values does at 31 is not known.
- A `dbin_solve` that reaches its bound of 64 gives the prune table back
  (`solver/dbin_solve.c:447`) but not the pointer to it: the next call of the process reads
  it, and gives it back again if it fails. The model lets the program end there (`Crash`),
  or go on with any answer. What the calls after it answer is therefore open:
  `ExactIsSolved` excludes them, and `CallsReturn` says of them no more than that they come
  to an end. Which goals reach the bound of 64 is not known.
- `2bin -s` changes nothing, though the README of the repository says that it swaps the
  bits: the option is declared with the key `s`, its handler waits for `r`
  (`command/dbin_command.c:34`, `:67`). `BitsAreRead` says that goals are asked for as typed
  whatever options are given.
- A goal of a script with wildcards whose other inputs all ask for one output is searched
  as an exact one (see below), with the tables of two outputs and more. No layer of one
  output is in them, so the search follows lanes past the end of a row
  (`solver/hlp_solve.c:192`): their maps are 0, and the numbers next to them are another
  row's or lie behind the array. The answers stay sound, since the map run is the one of
  the layer that was read. `PaddingIsNotTaken` leaves these goals out. The model follows
  such lanes with the entry of the row behind, or, behind the array, with any layer;
  what lies there may in fact be no layer at all. And a call may stage its lanes over those
  its caller still holds, which the model does not show. For the exact one-output
  goals with wildcards of five values, checked one by one, neither happens.
- `solve_lua` stores the accuracy where the kind of goal belongs
  (`solver/hlp_solve.c:134`): goals with wildcards are searched as exact ones, perfect
  searches are refused (finding 2). The model does the same (`FromLua` requests).
- A blank cache answers for the key 0 in trial 0 (`cache.h:61`).
- `redstone.c` mode 5 computes what mode 4 does with barrels exchanged; its printed form
  says otherwise. The tables never keep a mode 5 layer, and a Lua table with the keys 1,
  2 or 12 of `lua2c_chain`, which no layer of the program expresses, becomes a layer
  that computes something else (`ChainsKeepTheirMeaning` is about the others,
  `Expressible`).
- In `lua2c_chain` the test for growing the buffer binds as `i & ((i - 1) == 0)`, and
  the buffer stays at 16 (`redstone.c:322`).
- `--max-layers` of the dual binary solver is never read.
- Without `exclude_self` `alts` leaves out the layer whose number is the number of
  functions; with a filter the filter is stored with the wrong object
  (`lua/lua_hex_layer.c:139`, `:143`).
- A bracket in a goal is skipped without moving on (`solver/hlp_solve.c:86`): the parser
  does not return. A dash gives the error for a missing goal; the message that ranges
  are deprecated is never reached.

## 6. Not modelled, and what is left

Not modelled, and why:

- what only changes text: `chain_to_str` and the other printing of chains, verbosity,
  time statistics, the library argp (external), seeds and numbers of trials (`rand` may
  return anything in the models);
- registration with the Lua interpreter and its garbage collector, which are outside of
  the code;
- what is called from nowhere: deletion, traversals and cursor of `aa_tree.c`, and
  `free_precomputed_hex_layers` (`aa_free` is called, and only gives nodes back);
  `distTest.c` is commented out;
- `config.h`, 1,533 generated lines of feature macros, a fifth of the lines of the
  sources;
- filtered `alts`, whose filter is stored with the wrong object (section 5), and
  arguments of the setters of function sets beyond 0..15, where shifts reach into the
  neighbouring rows;
- the packing of maps into words and the vector code around it, of which the models keep
  what it computes: composing sixteen nibbles at once is composing functions. The
  exceptions are the padded vectors of a row, the shifts of goals, the words of sets and
  the sorting network, where the packing can go wrong.

The type invariants are proved, as parts of `IInv`, `PrecomputeInv`, `SearchInv`,
`LayersInv` and `DbinInv` and, of sets in scripts, by `SetsAreTyped`. The runs check those of the cache
and the search, which the proofs were tried out on, and leave the others out in favour
of properties that can fail in interesting ways.

What is left of the plan:

1. Proofs about the endings and the prune table, which need an AA tree without RECURSIVE
   operators.
2. Larger instances of `dbin_goals` (N=6) once the table of completions is kept between
   goals.
3. Filtered `alts` as a script that sets the user value of the list itself would see
   them.
