# A verification project for GNU Go

TLA+ modules for the parts of this GNU Go (a C engine with a classical
pattern-and-reading core and a Monte Carlo search added to it) in which state
lives long, is shared between threads, or is meant to survive arbitrary sequences
of commands. TLC checks small instances; TLAPS proves what matters most for every
value of the constants.

Contents: 1. the system; 2. what is modelled, module by module; 3. the runs;
4. disagreements found; 5. the proofs; 6. what is not modelled; 7. the plan.

## 1. The system

One process. Its interfaces (`interface/`: GTP, ASCII, GMP, solo) change a global
board (`engine/board.c`) and ask `genmove` (`engine/genmove.c`) for moves. `genmove`
either runs the classical engine (worms, dragons, owl, patterns, move valuation) or
the Monte Carlo search (`engine/montecarlo.c`), which may use several threads and may
go on thinking in the background while the opponent thinks.

| Component | State it keeps | Operations | Interacts with | Hard behaviour | Correct when |
|---|---|---|---|---|---|
| GTP loop, pondering (`gtp.c`, `genmove.c`) | four process-wide flags, the ponder thread | read line, hook, handlers, start/stop ponder | every engine component | a command arrives at any moment of the thread's life; thread creation fails | handlers never meet a live search; no stop is lost, none is left over; every line is handled |
| Shared search tree (`montecarlo.c`, tree-parallel) | node and arc pools, child lists, virtual loss | descend, expand, back up | workers with each other | lock-free readers, racy bit clears, pool end inside a descent | one pure tree, no lost visit or move, no endless scan |
| Budget and decision (`montecarlo.c`) | visits and wins of root children, budgets, early-stop flag | simulate, early stop, UNST, select | workers with each other | stop decided on racy counts by one worker | the stop does not change the move; the selection is the best child |
| Tree reuse (`montecarlo.c`) | a cached copy of a search tree | store, cut, match, graft | board history, GTP commands | any command sequence between two searches | statistics are those of the position; no move becomes unplayable; fresh budget fits |
| Permanent board (`board.c`, `hash.c`) | board, ko, prisoners, hash, history | play, undo by replay, setup, collapse | everything | history overflow, undo after suicide or setup, superko by saved hashes | undo leads back; hash is of the board; superko holds |
| Reading stack (`board.c`) | change stacks, `stackp`, komaster | trymove, tryko, popgo | reading, owl, ... | deep alternation of changes and undos | popgo restores everything |
| Incremental strings (`board.c`) | string records, liberty lists | add, merge, remove | all reading | table overflow, merge order | records agree with the board |
| MC board and playouts (`montecarlo.c`) | `mc_board`: stone rings, liberty-edge rings, local contexts, update queue | play random move | UCT | two kinds of linked rings spliced at every contact; values renewed only where a queue says so | the rings and every kept value are those of the board; a playout is a legal game and ends |
| Unconditional life (`unconditional.c`, `mc_benson_color`) | replacement tables of meaningless moves | analyze, replace a move | reading stack, genmove, aftermath, playouts | a verdict reached by playing moves in board order; chains of replacements | alive means never captured; both algorithms agree; replacements are playable |
| Serial UCT, root-parallel search | node hash tables; independent trees | traverse, merge at root | RNG, globals | transposition cycles, merge of roots | as the parallel tree, on a graph |
| Transposition table (`cache.c`) | two slots per bucket | get, update, clear | reading | replacement by cost and depth | a trusted answer was stored deep enough |
| Persistent caches (`persistent.c`) | result tables over active areas | search, store, purge | reading, owl | results outlive positions, games and board sizes | a match implies the same local board, size and ko |
| Clock, autolevel (`clock.c`) | official and estimated timers, level | push button, update, adjust | GTP time commands | main time and byoyomi change places | level in bounds, estimate follows |
| GMP (`gmp.c`, `play_gmp.c`) | sequence bits, send queue, negotiation, an early move | check, send, retry | a remote peer | lost, late, repeated, crossing packets; a peer that is ready first | both play one game on the same terms, each move once and in order, to its end |
| Move generation (`genmove.c`, `move_reasons.c`, `value_moves.c`) | move-reason tables | examine, add reason, value | classical engine | table limits | every reason counted once |
| Reading, owl, semeai, connections, worms, dragons, influence, patterns, endgame, aftermath, SGF, utilities | see PROJECT.json | | | | |

All state but that of the Monte Carlo search is touched by one thread. There are no
crashes to recover from: nothing is persisted but SGF files. So the hazards are
interleavings in the Monte Carlo search, stale state across command sequences, limits
of fixed tables and off-by-ones in the rules. `PROJECT.json` lists each at its line.

## 2. The modules

**EngineHandoff** is the abstract promise of the command loop: the engine has one user
at a time, the command handlers or the ponder thread, and is closed only when idle.

**Ponder** is the detailed hand-over. Three kinds of process: the GTP thread (`gtp`, one
value per place in `gtp_main_loop`, `monte_carlo_ponder_stop`, the handlers and
`monte_carlo_ponder_start`), the ponder thread (`thread`, places in `ponder_main`) and the
worker threads of a search either of them runs (`worker`, places in `uct_tree_worker`).
The flags have the names they have in the code. One action per step between two
reads or writes of a flag. A simulation is a counter; whether a search is decided or
unstable is a free choice. `board` is the parity of board changes and `seen` the value
it had when the ponder thread was created.

**GameTree** is the abstract tree: it grows by one edge at a time, under a move that
has none at its node, to a fresh node; counts only grow; nothing leaves it.

**UctTree** is the shared tree as the workers see it: `used_nodes`/`used_arcs` are the
fetch-and-add cursors, `arc` the pool whose records form linked lists headed by `child`,
`untested` the bit sets (read and written in separate steps, as the plain `&= ~bit` is),
`lock` the sharded mutexes. Each worker's recursion is `path`. The overflow node of
a worker's view is the worker's own name. A list is read in one step, which is
enough because published arcs never change (checked: `ArcsAreImmutable`): a scan sees the
list as it was when it read the head. Which child is best is a free choice.

**RootDecision** is the root alone: the child list, visits, wins, budgets and the early
stop, serial (one worker) or parallel; the outcome of each simulation is free. The
two scans of the child list (runner-up, stability) and the selections are folds over
the list in its own order, as the loops are.

**TreeReuse** puts the cache among the GTP commands. A tree is a function from move
paths to nodes. Instead of counters a node holds the set of situations (board, player,
stones) its simulations were played in, which is what makes a statement such as "these
statistics belong to this position" expressible. Stones are placed without captures, so
that the hash of a position is the set of its stones; as in `hash.c` it does not contain
the size of the board.

**Position** holds the pure operations of `board.c` on a position: strings, liberties,
suicide, ko, captures, prisoner counts, the xor hash (a set of contributions under
symmetric difference, so collisions are left out). **GameBoard** is the permanent board
over it: history, play, collapse of a full history, undo by replay, setup stones,
simple ko and superko, suicide rules. The game played is a record chosen from `Games`:
the board it starts from, the rules of ko and suicide, the size of the history, and
`resets`, whether an undo is followed by a recalculation of the hash (GTP) or not (ASCII
and GMP).

**StringBoard** holds the incremental records of `board.c`, as operators on a memory `M`
whose fields have the names of the code: for every point the string it belongs to
(`number`) and the next stone of its ring (`next`), for every string its color, size,
origin, liberty count, the first `MaxLiberties` liberties and its neighbor strings.
`change_stack` and `vertex_stack` are one `log` of address and old value; only
what the code pushes goes there, so a missing push is a missing undo. The order in which
a list is filled is the code's (`Around` is the order south, west, north, east); what
`new_position` collects by a walk is linked in ascending order. `Forget` erases what is
never read again (free slots, ends of lists), to keep equal states equal.

**TrialStack** is the abstract promise of reading: a stack of positions, in which a trial
move pushes the position the rules of play give and popgo takes it off. **TrialBoard**
is the implementation: trymove, tryko, komaster_trymove with the komaster scheme, popgo,
the permanent move and the replay, which uses the records between two rebuilds. Every
decision (suicide, ko, capture) is taken from the records, never from the board. The
history variable `saved` remembers the positions moves were tried from; no action
reads it but to pop it, and it gives the refinement mapping `positions <- Levels`. In the
source the replay starts from the initial board; here it starts from a board that is
permanent now, which is one of those.

**McBoard** is the board of the playouts, over Position. It counts no liberties: `next` and
`ref` are the ring of a string's stones and its reference, `first`, `nextE`, `prevE` the doubly
linked ring of its liberty edges (pairs of a liberty and a stone beside it). `context`
is what `mc_update_local_context` keeps for every point, `queue` the update queue,
`values` the pattern each move's value is looked up by. `McPlayMove` follows
`mc_play_move` part by part: the stone and its edges, the join with its own, the edges
taken from the opponent and the captures, the ko, the renewal of the contexts in the
queue. `PlayRandomMove` adds the update of the values and the passes. Which move with a
value is chosen is free.

**UnconditionalLife** analyzes a position once, with `UnconditionalVerdict`
(`unconditional_life`: capture what can be captured by one-sided play, besiege the rest,
extend, split eyes, read off) and `BensonVerdict` (`mc_benson_color`: chains and
regions), and computes the replacement table of the meaningless moves. Then the
opponent plays on alone. The loops over the board are folds over `order`; the `while` loops
of the source are `Repeated`, a recursive function of the position.

**RemoteGame** is the abstract promise of the Go Modem Protocol to its two players: same
terms, opposite colors, moves in turn, every move seen once and in order. **GoModem** is two
peers, each a `Gmp` record (`gmp`, with the field names of the code) under the game loop
of `play_gmp.c` (`app`), over a line that loses packets (`line`, `lost`). Operators on
a record take it from one state of `gmp_check` to the next: `out` is what they write,
`result` and `at` what is returned. One peer is GNU Go, which leaves the terms open;
the other is a client that uses the same `gmp.c` and knows them. A peer that thinks reads
nothing, as `gmp_check` is not called while `genmove` runs. A retry is a `Heartbeat` at any
time in a game that is not timely, and a `Second` for both peers in one that is: there a
second is longer than a packet or an answer takes.

**Proof modules.** Ponder_proofs, UctTree_proofs, TreeReuse_proofs, RootDecision_proofs and
TrialBoard_proofs hold the theorems about the module they are named after. Position_proofs has the
lemmas about strings, captures and moves, and about rings and the walks along them. Rules_proofs has
the theorems about GameBoard and, in a second and a third part, about UnconditionalLife and McBoard,
which rest on these lemmas; that three specifications are in scope of one module is why two of
them have names of their own (`LifeInit`, `LifeNext`, `LifeSpec`; `McInit`, `McNext`, `McSpec`). Recursion has the lemmas about what recursive functions and
folds step through; the last of them, `LoopKeeps`, says that a loop keeps what each turn keeps,
and TrialBoard_proofs instantiates it once for every loop of `board.c` it follows. Section 5
says what they show.

**MCGrid** has the boards of the instances (rows by columns, filters by symmetry).

Operators whose comment starts with MUTANT are not part of a model: each is a plausible
mistake in the operator after it, kept to show that a property would notice it.

## 3. The runs

| Run | Instance | Shows |
|---|---|---|
| ponder | 2 workers, 2 simulations each, a check after the second, UNST 1 | `Quiescent`, `AbortIsHeld`, `GenmoveUndisturbed`, `PonderRunsItsBudget`, `GenmoveRunsItsBudget`, refinement of EngineHandoff, and (fair) that every line that arrived is handled |
| ucttree | 2 workers, 2 playable points and a refused one, a pool of 4, depth 2 | lists stay lists and are not rewritten, virtual loss is in flight, visits are conserved, no move is lost, refinement of GameTree, and (fair) that the search ends |
| root | a serial search of 4 moves and 7 simulations with the robust policy; 2 workers with 3 simulations each and the winrate policy | a stop cannot change a robust move of a serial search; the selection is the best child; every simulation is counted once |
| reuse | 3 points, 2 simulations, cache of 5, depth 3, 2 moves | nothing stale, no move lost, the budget fits |
| game | five games on 3x3: a corner ko under NONE, SIMPLE, PSK and SSK (2 or 3 moves), a crowded board with all suicides and a history of 2 | undo leads back, the hash follows the play, liberty-count tests agree with the rules, no forbidden repetition |
| trialstrings | all 2x3 boards (up to color exchange), 2 moves of any kind, 2 listed liberties, 6 strings | the records are those of the board, a ko refused is a ko, refinement of TrialStack |
| trialkos | three kos on 2x10, lines of 10 alternate moves under komaster | no line comes back to where it was; the hash of every level |
| mcboard | all 3x3 boards with at most 3 empty points, up to symmetry and color, and the 36 positions among them in which a stone was just taken in a ko; playouts of any moves | both rings and every kept value are those of the board; a playout is a legal game with the hash and ko of the permanent board; it ends (fair) |
| life | 125 positions on 3x4 with room for two eyes or just after a capture in a ko, either color, the board visited from either end | alive strings are never captured, territory stays dead, the two algorithms agree, replacements do what they are for and can be played wherever the replaced move can |
| gmp | GNU Go and a client, 2 points, 3 moves: negotiation with either color and a handicap, a client without a color, the simplified protocol; up to 2 lost packets, timely or not | nobody gives up or asserts, refinement of RemoteGame, and (fair) that the game ends for both |
| reuseboard | two board sizes | a disagreement, section 4 |

Bounds. `SimCap`, `UnstCap`, `MaxMoves`, `MaxHist` bound counters that the program bounds
itself or that grow with a game. They are small because the situations are reached
early: two simulations per worker are enough for an abort before, between and after
them; a pool of four ends while two workers are inside it; a history of two
overflows at the third move; a ko is taken and taken back within three moves. With six
string slots a replay of two moves reaches the rebuild at `MAX_STRINGS`, and with two
listed liberties a string on 2x3 has more than are listed. Without the weak komaster a
line through three kos closes after eight moves, inside the ten of trialkos (a stack
of twelve, of which trymove leaves two free).

A playout of mcboard gives up at depth `GiveUp` = 1 (600 in the code) and then only
passes, so it is five moves long. That is short, but it starts from every board: whatever
a longer playout would meet on 3x3 with three empty points or fewer is where a run begins,
and moves with two captures, joins of two strings and strings met from two sides occur in
the first. 3x4 is the smallest board with two separate eyes and room for an opponent
beside them. The code retries 60 times a second apart (9 times 20 seconds in the simplified
protocol); gmp has `RetrySecs` 1, `Retries` 3 and at most two losses, so the losses stay
below the retries as they must in a game that is not to time out. `MaxFlight` bounds
the copies that early retries put on the line. Moves are few because a sequence bit has
two values: the third packet already has the bit of the first.

`CHECK_DEADLOCK FALSE` is used where a bound of the instance (a number of moves, the end
of the one search, playout or game that is modelled) stops the model.

Fairness. Ponder and UctTree assume weak fairness of each thread: the operating system
schedules every runnable thread. Nothing is assumed of the controller: reading a line
is not fair. A worker waits for a lock only while another worker is in a
section of a few steps that takes no second lock, so weak fairness of the workers
suffices in the instance. A simulation that follows an existing child is bounded by
the depth; no fairness inside a worker's choices is assumed. McBoard assumes that a playout
goes on (a loop of one thread). GoModem assumes that each peer that can start, think or read
does, and that time passes (`Second`); nothing is assumed of the line, which loses
what it likes within its bound, nor that a heartbeat comes early.

## 4. Disagreements found

One has a violation run; `PROJECT.json` "findings" quotes the line that says otherwise.

- `reuseboard`: the tree cache survives `boardsize` and its hash does not contain the size.

The others were met while modelling. The models follow the code; a property that would say
otherwise is stated for what does hold.

- Undo and the hash. `replay_move_history` copies the initial board and leaves `board_hash`
  (`board.c:911`), though `board.c:872-874` expects it to be recalculated. GTP's undo resets
  the engine, which does; the undo of `play_ascii.c:870` and `play_gmp.c:164`
  does not, and the collapse of a full history has the same effect. `HashFollowsThePlay` states
  what is true: the hash is that of the board in games whose undo resets and whose history
  is not collapsed. Superko compares those hashes: with `--positional-superko` in the ASCII
  interface, after a capture in a ko, a move that is undone and a pass, the recapture is let
  through although it repeats. `NoRepetition` therefore has the same condition (`Faithful`).
- Suicide under superko. `is_superko_violation` plays the move with `really_do_trymove`, which
  puts a stone and captures but does not commit a suicide (`board.c:3147` promises the
  position after the move). `NoRepetition` is about moves that are no suicide.
- Early stop. `montecarlo.c:2934-2936` and `README.md:98` call the stop loss-free under every
  selection policy; for the default selection by winrate it is not, since a child that is
  behind in visits can still get ahead in winrate; and of several workers one stops from its own
  count of what remains. `StopIsLossFree` is about the robust policy of a serial search.
- Crossing of a first move and a question. When the client enters the game on GNU Go's
  last response, its acknowledgement makes GNU Go ask once more while the client's move is on its
  way. Each takes the other's packet for a conflict and gives its own up (`gmp.c:399-405`),
  after which nobody waits for an answer and nobody retries: the game hangs though
  nothing was lost, against `gmp.c:510` and `gmp.c:744`. It happens with GNU Go as black
  in a handicap game of the full protocol; the games of the gmp run leave that case out.
- Also in GMP: a pass before the size is known ends the game for the other; two peers that
  both send RESET never get on; a handicap of one on both sides is an error; a RESET in the
  middle of a game would fail `assert(!gmp->colorVerified)`.
- Persistent caches. `find_persistent_cache_entry` (`persistent.c:361-387`) compares neither the
  board size nor the ko, and points that were off the board are not compared (nor set) at all.
  Only the purge compares sizes. It is called from `examine_position` alone, so a GTP `attack`
  after `boardsize` can be answered for the old size, while `persistent.c:292-293` and
  `:584-586` say that purging is not needed for correct operation. Read off the code, not
  modelled.

## 5. The proofs

Every theorem holds for every value of the constants that the `ASSUME` of its module
allows: any number of workers, points, nodes, arcs, any budget, any board. The
assumptions are types and what the program cannot run without (at least one worker, a
pool of at least one node, a neighbor relation that is symmetric, finite sets of
threads, moves and points). Induction over time is the provers'; induction over data is
not, so where a definition is recursive the proof takes the first index at which a claim
fails (`FirstGap` in Recursion), and where a set is defined as the least one with some
property the proof uses that it is least.

`Ponder_proofs`

- `Typing`: the type invariant.
- `Handoff`: the inductive invariant `Inv` = `TypeOK` and three parts. `ThreadInv`:
  `ponder_active` is true exactly while the thread exists, and then the GTP thread is
  outside the engine. `FlagInv`: the abort flag is up exactly between the request and the
  clearing, the ponder mode exactly during the ponder search. `SearchInv`: a search runs
  only while its owner waits for it. `Quiescent` alone is not inductive: the hook decides
  by `ponder_active` whether to join, so the proof must know that it tells the truth.
- `QuiescentAlways`, `AbortIsHeldAlways`, `GenmoveUndisturbedAlways` follow from `Inv`.
- `PonderRunsItsBudgetAlways` needs `BudgetInv`: during a ponder search no early stop is
  up, there is no second round, and a worker that left its loop was aborted or has run
  all its simulations.
- `GenmoveRunsItsBudgetAlways` needs `GenmoveBudgetInv`: in both rounds of a genmove's search a
  worker that left its loop has run all its simulations or found the early stop, and the early
  stop is up only if a worker of this round has come as far as a check (`CheckIsLate`: a count that is
  a multiple of `CheckEvery` is no smaller than it). That no abort comes in between is `Inv`.
- `Refinement`: every step of Ponder is a step or a stutter of EngineHandoff.

`UctTree_proofs`

- `Typing`; in particular no path empties.
- `Invariance`: the inductive invariant. The properties speak of the finished tree; a step
  depends on what is not finished. `ArcInv`: lists run downwards through the arc pool and paths
  upwards through the node pool, so nothing runs in a circle; no node has two parents.
  `ChainInv`: every set closed under a scan of `child[n]` holds all arcs of `n`. `PathInv`:
  a path follows published arcs up to its last node, the only one that may be outside the tree.
  `NodeInv`: a node that is being built is new, untouched and its builder's alone. `LockInv`:
  from the search of a list to the link the parent's lock is held, so no other arc
  of the move appears and the new arc still points at the head. That one lock serves
  many nodes (`NumLocks`) does not matter.
- `ListsAreSoundAlways`, `ArcsAreImmutableAlways` follow.
- `Refinement`: the shared tree implements GameTree. Only `LinkArc` and the counting of a
  visit in the tree are steps of it, all else stutters.

The counters of UctTree, over the same invariant

- `VirtualLossIsInFlightAlways`: a descent adds one place to a finite set of (worker,
  depth) pairs and the backup takes it away.
- `VisitsAreConservedAlways`: visits of the children are compared with those of the
  node by the set of workers that have counted below and not yet at the node.
- `NoMoveIsLostAlways` needs `BitsInv`: the byte that a worker is about to write back, read
  before other workers cleared or set theirs, still has every bit that is needed. This is why
  the plain `&= ~bit` loses nothing but time.

`TreeReuse_proofs`

- `Typing`, `BudgetFitsAlways`: for any sequence of commands, sizes of the board included. The
  budget needs that a graft counts what it copies, and that a search in progress has kept
  one arc for each simulation left.
- `SoundAlways`: the tree that is searched and the tree that is cached are the same thing
  at different times; the invariant `SoundInv` says of each that it is sound for the position
  it was searched in. From it `NoMoveIsLostAlways` and `StatisticsAreOfThePositionAlways`.
- These have the hypothesis `KeepsTheBoard`: no `boardsize` command changes the size. It is
  needed, as the run `reuseboard` shows, and it is all that is needed.

`RootDecision_proofs`

- `Invariance`: types, that a simulation goes through a child of the list, each
  worker's budget, that visits are what the workers have counted, and that nothing
  moves once the move is selected.
- `VisitsAreSimulationsAlways`.
- `SelectionIsBestAlways`: each scan is a fold over the list; the best of the first
  `k` children is carried along it, and comparing winrates by cross-multiplication is
  transitive only among visited children, which is what the scans rely on.
- `StopIsLossFreeAlways`: the scan for the two most visited children is carried along the list the same
  way, and a child whose lead is larger than what remains is selected whatever the outcome, unless
  it is the pass; that a serial search has no other child besides a pass (`SoloPass`) is
  an invariant of its own.

`Position_proofs` and the first part of `Rules_proofs`, about GameBoard, for any set of points with a
symmetric relation of neighbors (so for any size of board)

- Strings: the string at a point is the least connected set, strings partition the stones, a
  stone that is put joins exactly the strings beside it, and stones leave as whole strings. From
  these `MoveIs`, what a move does to board, ko, prisoners and hash; `StonesConserved`, `HashFollows`;
  `SuicideTest`, that `is_suicide`'s liberty counts decide suicide by the rules
  wherever no string is without liberties; and `NextShape`, that every move leaves such a board,
  with a ko point among stones of one color.
- `Invariance`: replaying is not an equation between variables, so the invariant says that a
  trajectory of positions exists, from the initial position through the moves of the history to
  the present one. A move makes it longer, an undo cuts its end, a collapse its beginning.
- `HistoryLeadsHereAlways`, `TypingAlways`; `ShapesAreSoundAlways`, by the shapes of the initial
  position kept along the trajectory.
- `HashFollowsThePlayAlways` and `NoRepetitionAlways`, whose condition `Faithful` (undo
  resets, no collapse) is part of the properties and is needed: section 4. Superko rests on each
  hash in the history being that of the board before its move.

The second part of `Rules_proofs`, for any such board and any position without a dead string: Benson's
theorem for `mc_benson_color`, under the rules of play of Position

- `BensonKeeps`: the rounds end, and what is left is chains with two vital regions each, and
  regions that only these chains border (`KeepEachOther`). The model makes as many rounds as
  there are chains; a round that loses none is the last that changes anything.
- `LifeInvariance`: `Reached` relates the board to the one analyzed. The opponent's stones are never taken, as
  suicide is refused and the color passes; so a vital region only fills up. It never fills
  altogether (`RegionHasRoom`): the opponent's last string in it would have no liberty, while
  every string has one (`PlayShape` of Position_proofs, the invariant GameBoard rests on).
  What is empty in it is a liberty of the chain, so one move cannot take the last liberty
  in two regions (`MoveReaches`).
- `BensonCannotBeCapturedAlways` follows, and `AliveCannotBeCapturedAlways`: where
  `unconditional_life` agrees with `mc_benson_color`, which the run checks (`AlgorithmsAgree`),
  what it calls alive cannot be captured.
- `BensonTerritoryStaysDeadAlways`: a chain of the opponent in a vital region has not one vital
  region (`NoLifeInside`); what it borders reaches, through a chain that stands, an empty
  point that is not beside it.

The third part of `Rules_proofs`, about McBoard, for any such board with any diagonals and any order of
the neighbors, from any position without a dead string

- `PlayoutInvariant`: the invariant `McIInv` is the bound on the depth and `McSound`. `Standing`: the
  stones with one reference are a ring of `next` and exactly a string of the board (`Strung`), and
  the edges of each reference are a ring that reads the same both ways (`Looped`), all of them
  together the pairs of an empty point and a stone beside it (`Wired(m, BoardEdges(b))`). The hash is that of
  board and ko. The contexts know exactly the suicides (`ContextsKnown`), and there is a value exactly
  where there is a stone to put and no suicide (`ValuesKnown`).
- None of this holds inside `mc_play_move`. Each of its loops is followed turn by turn with the edges
  there are by then: after the joins those of the new board and the ones from the new point to
  the opponent (`OwnJoined`), in the middle of the fight those for the neighbors not dealt with yet
  (`EdgesMid`), less the strings that fell (`BesiegeWires`, `RemoveStringWires`). `LastEdge` then means that
  a string has no liberty left but the new stone.
- The contexts are the hard part, as only the points of the queue are renewed. Whether a move is suicide
  depends on which strings beside it have no second liberty, so the proof shows that a string that
  changes between one liberty and more has that liberty in the queue: of the opponent's strings
  (`FoesWatched`), of the own (`FriendsWatched`, by `Watch`: what a step does to the liberties of a
  string it queues), of the new one. `SuicidesStay`: at a point not in the queue nothing has changed.
- `PlayoutKeepsItsRings` and `PlayoutKnowsItsMoves` follow: the first is `EdgesAreOfTheBoard`, the
  second the suicide half of `ValuesAreOfTheBoard`. `PlayoutsAreGames`: so a move that is generated is legal on
  the global board, and `mc_play_move` captures, sets the ko and changes the hash as `play_move` does;
  that its ko test (one stone captured, one stone in the ring, no empty neighbor before) is that of
  `do_play_move` uses the rings again. `PlayoutsAreShort`: the depth limit, three passes and the one
  move that may be left at the limit.
- The assumptions of McBoard: `Around` lists the neighbors of a point once each, `BoardOrder` the points
  once each, and a playout starts from a board and any ko point or none (`Starts`).

`TrialBoard_proofs`, for any such board, any limit on the length of the liberty lists, any depth
of reading and any number of string records: popgo gives back what the trial move found, and
the hash stack is that of the positions

- Only what was pushed comes back, so every operation of StringBoard has a lemma that says which
  places it writes and which it pushes first. `Restores`: a place comes back if the first value
  pushed for it since the mark is the one it had, or if it was neither pushed nor written. Some
  places are written without a push: the number and the link of a new stone, the record in a free
  slot, the prisoners, the ko and the komaster. They come back because the caller pushed them
  (`ko`, `komaster`, prisoners), because they mean nothing while the point is empty or the slot
  free (`Kept` are the places that do mean something), or, for a stone captured and its point
  played on again in the same line, because the capture pushed its number and link (`Vacated`).
- `UndoInvariant`: the invariant `UndoInv` says that a memory exists for every level, whose
  logs grow from level to level; between neighboring levels lies exactly one mark and the entries
  of one move (`Tight`), and from every higher level the entries lead back to every lower one
  (`Under`). An equation between the present memory and the one below would not be inductive: after
  a popgo the free slots hold what the move left there, so the memory is not the old one but
  the `Same` wherever it matters, and the levels further below must still come back from it.
- `PopgoIsPop` follows: popgo is `Pop` of TrialStack. `LevelsAreAStack`: reading starts as TrialStack
  does; a step of it puts one position on top and leaves all others, or takes one off, or is made
  where there is only one. A table of strings with no free slot is no exception: what goes past its
  end is not read back.
- `SoundInvariant`: at every level the stones with one number are a `Ring` (a set that `next` maps
  into itself and no smaller set is; the origin lies on it), and the hash is that of board, ko and
  komaster. The two go together: `do_remove_string` takes stones off, and their keys out of the hash,
  by walking from the origin until it is back (`ChainIs`: the walk lists the ring, each stone
  once), and a merge links two rings by exchanging two successors (`RingsLinked`). In the
  middle of a move one stone has no number yet (`Sound(N, x)`). What popgo leaves has the
  rings of the level below because it is the `Same` where it matters.
- `HashesAreOfTheLevelsAlways` follows. Both have the hypothesis `SlotsSuffice`: the string table
  is never overrun and `new_position` leaves a slot free, which the code asserts (`PARANOID1` at
  board.c:3336 and 3693) and does not ensure: board.h:75-84 says that a triple ko played for long
  enough runs out of slots. It holds in every state of the two runs of TrialBoard.
- `EnoughSlots`: with a slot for every point and every trial move `SlotsSuffice` is true, which is the
  remedy the same comment gives ("MAX_STRINGS should be set to MAX_STACK + ..."): `new_position`
  finds at most a string for every point, a trial move uses at most one slot, popgo gives it
  back, and a replay that reaches the last slot rebuilds (board.c:899).
- Of `TrialSpec` this leaves one thing to the runs: that the position a trial move leads to is
  the one the rules of play give, which needs `StringsAreOfTheBoard` to be inductive.

Only model-checked, and why:

- Out of the provers' reach: everything under fairness (`LinesAreHandled`, `SearchEnds`,
  `PlayoutEnds`, `GameEnds`).
- `AlgorithmsAgree`, the territory of `unconditional_life` in `TerritoryStaysDead`, and
  `ReplacementsAreSound`: they speak of what a long line of trial moves comes to, a
  recursion over positions, where induction over the data would be needed.
- GoModem and its refinement of RemoteGame: true of the games of the instance and not of
  every game (section 4 has two that come to nothing), so there is no theorem for every
  value of `Games`; one would need the terms for which it holds as a hypothesis.
- TrialBoard: that the records are those of the board (`StringsAreOfTheBoard`: that the rings
  are the connected sets, and what is listed of their liberties and neighbors) and hence that a trial
  move leads where the rules say (the other half of `TrialSpec`), and `ConditionalKoIsAKo`; section 7. `KosDoNotCycle` is about the three kos of the instance.
- McBoard: the rest of `ValuesAreOfTheBoard`, which is that the self-atari and the numbers of stones
  to capture kept for a point are those of the board, and what is seen around it. A self-atari depends
  on strings two steps away, so it needs more of the queue than what is proved about suicide.

## 6. What is not modelled

`PROJECT.json` names every component with the reason. In short: the classical engine's
search and evaluation (reading, owl, semeai, influence, patterns, valuation) are
functions of a board with heuristic content, far beyond TLC as wholes; generated
pattern tables, printing and SGF are data and I/O. Left out inside modelled components:
RAVE and the other statistics that only rank children; LCB; the formulas for choosing
a child (a free choice covers them); hash collisions; captures in TreeReuse; the
transpositions of the serial search, and its ends when arcs run out or a simulation adds none
(a search of TreeReuse may end at any time, which covers them); in Ponder the test that 64 nodes and arcs
are left, which a tree-parallel search never fails, its pools having room for all simulations of both
rounds, the grafted tree and 1024 more (`montecarlo.c:4181`; a serial search, which may end
at its limit of arcs, has no such room, so the two budget properties are about the tree-parallel one);
komi in TreeReuse; in McBoard the pattern weights, settled
points, the mercy rule and scoring; in UnconditionalLife two-stone strings that could be
in seki (on 3x4 such a string fills the middle and is the only one of its color, so that nothing is
settled for it in the code or in the model), and that `mc_benson_color` gives up on a board
with more than 256 chains or regions; in GoModem undo, komi, the
assembly of packets from bytes and the legality of moves; the capacities of `change_stack`
and `vertex_stack`, and a table of strings that is full in the middle of reading (the
code counts on `MAX_STRINGS` being large enough: the runs stay inside it).

## 7. Plan

Order of work, the most important first.

1. Done: Ponder (+ EngineHandoff) with its proofs, UctTree (+ GameTree), RootDecision,
   TreeReuse, Position and GameBoard, StringBoard and TrialBoard (+ TrialStack).
2. Done: GoModem (+ RemoteGame): two peers over a channel that loses and repeats packets.
   McBoard: the Monte Carlo board against Position. UnconditionalLife: Benson's notion
   by playing and by counting, and what the moves it calls meaningless are replaced by.
3. Done: the proofs of section 5, about UctTree, TreeReuse, RootDecision, Position, GameBoard,
   UnconditionalLife, McBoard, and the undo, the rings and the hashes of TrialBoard. Next: liberties and
   neighbors of the strings of TrialBoard, from which `StringsAreOfTheBoard` follows; self-atari in
   McBoard; the sequence bits of GoModem for the terms that do not conflict.
4. PersistentCache and TranspositionTable: entries across moves, undo and sizes, with and
   without a purge; what the two slots of a bucket keep.
5. Clock: timers and level adjustment; RootParallel: merge of independent trees;
   move-reason tables; df-pn.

The runs are kept few so that all of them are repeated after every change: a new component
takes the place of, or is merged with, a run whose question it answers better.
