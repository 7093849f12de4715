------------------------------- MODULE Ponder -------------------------------
(***************************************************************************)
(* Pondering: the GTP command loop (interface/gtp.c, gtp_main_loop), the   *)
(* handlers that generate moves (interface/play_gtp.c), the background     *)
(* search of the opponent's move (engine/genmove.c, ponder_main and the    *)
(* start and stop around it) and the control of one Monte Carlo search     *)
(* (engine/montecarlo.c, uct_genmove_tree_parallel and uct_tree_worker),   *)
(* which either thread may run.  The threads talk through four flags only: *)
(* ponder_active, mc_search_abort, mc_earlystop_hit and mc_in_ponder.      *)
(* What the tree holds is left to UctTree and TreeReuse: here a simulation *)
(* is a counter, and whether a search is decided or unstable a free choice.*)
(***************************************************************************)
EXTENDS Naturals, FiniteSets

CONSTANTS
    Workers,        \* the worker threads of one search (mc_num_tree_threads)
    SimCap,         \* simulations per worker (a->sim_cap)
    UnstCap,        \* simulations per worker in the UNST round
    CheckEvery,     \* simulations between early-stop checks (256)
    PonderEnabled,  \* GNUGO_MC_PONDER and use_monte_carlo_genmove
    EarlyStop       \* GNUGO_MC_EARLYSTOP > 0

ASSUME PonderAssumption ==
    /\ IsFiniteSet(Workers) /\ Workers # {}
    /\ SimCap \in Nat \ {0}
    /\ UnstCap \in Nat \ {0}
    /\ CheckEvery \in Nat \ {0}
    /\ PonderEnabled \in BOOLEAN
    /\ EarlyStop \in BOOLEAN

Searchers == {"gtp", "ponder"}    \* the threads that can be in uct_genmove
Commands == {"genmove", "reg_genmove", "play", "other", "quit", "eof"}

VARIABLES
    gtp,                \* where the GTP thread is
    cmd,                \* the line it is handling
    board,              \* parity of board changes: the position both threads read
    ponder_active,
    mc_search_abort,
    mc_earlystop_hit,
    mc_in_ponder,
    thread,             \* where the ponder thread is
    seen,               \* the board the ponder thread was created for
    search,             \* search[s]: where the search run by s is
    worker,             \* worker[s][w]: where worker w of that search is
    sims,               \* sims[s][w]: simulations it has finished this round
    cap                 \* cap[s]: a->sim_cap of the current round

flags == <<ponder_active, mc_search_abort, mc_earlystop_hit, mc_in_ponder>>
searching == <<search, worker, sims, cap>>
vars == <<gtp, cmd, board, flags, thread, seen, searching>>

GtpPCs == {"read", "stop", "join", "joined", "dispatch", "searching", "played",
           "start", "create", "respond", "exit"}
ThreadPCs == {"none", "created", "searching", "searched", "finished"}
SearchPCs == {"idle", "enter", "round1", "round2", "store", "done"}

Init ==
    /\ gtp = "read" /\ cmd = "other" /\ board = 0
    /\ ponder_active = FALSE /\ mc_search_abort = FALSE
    /\ mc_earlystop_hit = FALSE /\ mc_in_ponder = FALSE
    /\ thread = "none" /\ seen = 0
    /\ search = [s \in Searchers |-> "idle"]
    /\ worker = [s \in Searchers |-> [w \in Workers |-> "done"]]
    /\ sims = [s \in Searchers |-> [w \in Workers |-> 0]]
    /\ cap = [s \in Searchers |-> SimCap]

-----------------------------------------------------------------------------
(* One Monte Carlo search, run by thread s.                                *)

(* MUTANT: a starting search also resets the abort flag.                   *)
EnterSearch_ClearsAbort(s) ==
    /\ search[s] = "enter"
    /\ mc_earlystop_hit' = FALSE /\ mc_search_abort' = FALSE
    /\ search' = [search EXCEPT ![s] = "round1"]
    /\ worker' = [worker EXCEPT ![s] = [w \in Workers |-> "test"]]
    /\ sims' = [sims EXCEPT ![s] = [w \in Workers |-> 0]]
    /\ cap' = [cap EXCEPT ![s] = SimCap]
    /\ UNCHANGED <<gtp, cmd, board, ponder_active, mc_in_ponder, thread, seen>>

(* uct_genmove_tree_parallel: reset the early-stop flag, start the workers *)
EnterSearch(s) ==
    /\ search[s] = "enter"
    /\ mc_earlystop_hit' = FALSE
    /\ search' = [search EXCEPT ![s] = "round1"]
    /\ worker' = [worker EXCEPT ![s] = [w \in Workers |-> "test"]]
    /\ sims' = [sims EXCEPT ![s] = [w \in Workers |-> 0]]
    /\ cap' = [cap EXCEPT ![s] = SimCap]
    /\ UNCHANGED <<gtp, cmd, board, ponder_active, mc_search_abort, mc_in_ponder,
                   thread, seen>>

(* The loop condition of uct_tree_worker.  Its last two tests, that 64     *)
(* nodes and arcs are left, are not here: the pools are sized for every    *)
(* simulation of both rounds and 1024 more (UctTree has the full pool).    *)
MayContinue(s, w) ==
    ~mc_search_abort /\ ~mc_earlystop_hit /\ sims[s][w] < cap[s]

WorkerTest(s, w) ==
    /\ worker[s][w] = "test"
    /\ worker' = [worker EXCEPT ![s][w] = IF MayContinue(s, w) THEN "sim" ELSE "done"]
    /\ UNCHANGED <<gtp, cmd, board, flags, thread, seen, search, sims, cap>>

(* MUTANT: early stop applies to a ponder search too.                      *)
Decided_InPonder == IF EarlyStop THEN BOOLEAN ELSE {FALSE}

(* mc_earlystop_decided: disabled while pondering, else up to the tree.    *)
Decided == IF EarlyStop /\ ~mc_in_ponder THEN BOOLEAN ELSE {FALSE}

(* One simulation and, every CheckEvery of them, the early-stop check.     *)
WorkerSim(s, w) ==
    /\ worker[s][w] = "sim"
    /\ sims' = [sims EXCEPT ![s][w] = @ + 1]
    /\ worker' = [worker EXCEPT ![s][w] = "test"]
    /\ IF (sims[s][w] + 1) % CheckEvery = 0
       THEN \E decided \in Decided : mc_earlystop_hit' = (mc_earlystop_hit \/ decided)
       ELSE UNCHANGED mc_earlystop_hit
    /\ UNCHANGED <<gtp, cmd, board, ponder_active, mc_search_abort, mc_in_ponder,
                   thread, seen, search, cap>>

(* The join of the workers.                                                *)
Joined(s) == \A w \in Workers : worker[s][w] = "done"

(* UNST: an unstable decision buys one more round.  Not while pondering,   *)
(* not once aborted.                                                       *)
MayExtend == ~mc_in_ponder /\ ~mc_search_abort

(* MUTANT: an extended search that is still unstable is extended again.    *)
ExtendSearch_Again(s) ==
    /\ search[s] \in {"round1", "round2"} /\ Joined(s) /\ MayExtend
    /\ mc_earlystop_hit' = FALSE
    /\ search' = [search EXCEPT ![s] = "round2"]
    /\ worker' = [worker EXCEPT ![s] = [w \in Workers |-> "test"]]
    /\ sims' = [sims EXCEPT ![s] = [w \in Workers |-> 0]]
    /\ cap' = [cap EXCEPT ![s] = UnstCap]
    /\ UNCHANGED <<gtp, cmd, board, ponder_active, mc_search_abort, mc_in_ponder,
                   thread, seen>>

(* MUTANT: the extra round starts with the stop of the first one set.      *)
ExtendSearch_KeepsStop(s) ==
    /\ search[s] = "round1" /\ Joined(s) /\ MayExtend
    /\ search' = [search EXCEPT ![s] = "round2"]
    /\ worker' = [worker EXCEPT ![s] = [w \in Workers |-> "test"]]
    /\ sims' = [sims EXCEPT ![s] = [w \in Workers |-> 0]]
    /\ cap' = [cap EXCEPT ![s] = UnstCap]
    /\ UNCHANGED <<gtp, cmd, board, flags, thread, seen>>

ExtendSearch(s) ==
    /\ search[s] = "round1" /\ Joined(s) /\ MayExtend
    /\ mc_earlystop_hit' = FALSE
    /\ search' = [search EXCEPT ![s] = "round2"]
    /\ worker' = [worker EXCEPT ![s] = [w \in Workers |-> "test"]]
    /\ sims' = [sims EXCEPT ![s] = [w \in Workers |-> 0]]
    /\ cap' = [cap EXCEPT ![s] = UnstCap]
    /\ UNCHANGED <<gtp, cmd, board, ponder_active, mc_search_abort, mc_in_ponder,
                   thread, seen>>

EndRounds(s) ==
    /\ search[s] \in {"round1", "round2"} /\ Joined(s)
    /\ search' = [search EXCEPT ![s] = "store"]
    /\ UNCHANGED <<gtp, cmd, board, flags, thread, seen, worker, sims, cap>>

(* mc_reuse_store, and the pools are freed.                                *)
StoreTree(s) ==
    /\ search[s] = "store"
    /\ search' = [search EXCEPT ![s] = "done"]
    /\ UNCHANGED <<gtp, cmd, board, flags, thread, seen, worker, sims, cap>>

SearchStep(s) ==
    \/ EnterSearch(s)
    \/ \E w \in Workers : WorkerTest(s, w) \/ WorkerSim(s, w)
    \/ ExtendSearch(s) \/ EndRounds(s) \/ StoreTree(s)

-----------------------------------------------------------------------------
(* The ponder thread: ponder_main.                                         *)

PonderBegin ==
    /\ thread = "created"
    /\ mc_in_ponder' = TRUE
    /\ thread' = "searching"
    /\ search' = [search EXCEPT !["ponder"] = "enter"]
    /\ UNCHANGED <<gtp, cmd, board, ponder_active, mc_search_abort, mc_earlystop_hit,
                   seen, worker, sims, cap>>

PonderSearched ==
    /\ thread = "searching" /\ search["ponder"] = "done"
    /\ thread' = "searched"
    /\ search' = [search EXCEPT !["ponder"] = "idle"]
    /\ UNCHANGED <<gtp, cmd, board, flags, seen, worker, sims, cap>>

PonderEnd ==
    /\ thread = "searched"
    /\ mc_in_ponder' = FALSE
    /\ thread' = "finished"
    /\ UNCHANGED <<gtp, cmd, board, ponder_active, mc_search_abort, mc_earlystop_hit,
                   seen, searching>>

PonderStep == PonderBegin \/ PonderSearched \/ PonderEnd

-----------------------------------------------------------------------------
(* The GTP thread: gtp_main_loop, its hook monte_carlo_ponder_stop, and    *)
(* the handlers.                                                           *)

(* fgets returns a line, or end of file.                                   *)
ReadLine ==
    /\ gtp = "read"
    /\ cmd' \in Commands
    /\ gtp' = "stop"
    /\ UNCHANGED <<board, flags, thread, seen, searching>>

(* Where a line goes once the hook has returned.                           *)
AfterHook == IF cmd = "eof" THEN "exit" ELSE "dispatch"

(* MUTANT: the hook aborts the ponder search but does not wait for it.     *)
StopPonder_NoJoin ==
    /\ gtp = "stop"
    /\ gtp' = AfterHook
    /\ mc_search_abort' = (mc_search_abort \/ ponder_active)
    /\ UNCHANGED <<cmd, board, ponder_active, mc_earlystop_hit, mc_in_ponder,
                   thread, seen, searching>>

(* MUTANT: the hook is not called when the input ends.                     *)
StopPonder_NotAtEof ==
    /\ gtp = "stop"
    /\ IF ponder_active /\ cmd # "eof"
       THEN gtp' = "join" /\ mc_search_abort' = TRUE
       ELSE gtp' = AfterHook /\ UNCHANGED mc_search_abort
    /\ UNCHANGED <<cmd, board, ponder_active, mc_earlystop_hit, mc_in_ponder,
                   thread, seen, searching>>

(* monte_carlo_ponder_stop: nothing to stop, or request the abort.         *)
StopPonder ==
    /\ gtp = "stop"
    /\ IF ponder_active
       THEN gtp' = "join" /\ mc_search_abort' = TRUE
       ELSE gtp' = AfterHook /\ UNCHANGED mc_search_abort
    /\ UNCHANGED <<cmd, board, ponder_active, mc_earlystop_hit, mc_in_ponder,
                   thread, seen, searching>>

(* pthread_join returns: the ponder thread is gone.                        *)
JoinPonder ==
    /\ gtp = "join" /\ thread = "finished"
    /\ thread' = "none"
    /\ ponder_active' = FALSE
    /\ gtp' = "joined"
    /\ UNCHANGED <<cmd, board, mc_search_abort, mc_earlystop_hit, mc_in_ponder,
                   seen, searching>>

(* MUTANT: the abort flag is left set after the join.                      *)
ClearAbort_Forgotten ==
    /\ gtp = "joined"
    /\ gtp' = AfterHook
    /\ UNCHANGED <<cmd, board, flags, thread, seen, searching>>

ClearAbort ==
    /\ gtp = "joined"
    /\ mc_search_abort' = FALSE
    /\ gtp' = AfterHook
    /\ UNCHANGED <<cmd, board, ponder_active, mc_earlystop_hit, mc_in_ponder,
                   thread, seen, searching>>

(* A handler that generates a move runs the search, unless the classical   *)
(* engine answers by itself (a fuseki move, a pass, one legal move).       *)
HandleGenmove ==
    /\ gtp = "dispatch" /\ cmd \in {"genmove", "reg_genmove"}
    /\ \/ gtp' = "searching" /\ search' = [search EXCEPT !["gtp"] = "enter"]
       \/ gtp' = "played" /\ UNCHANGED search
    /\ UNCHANGED <<cmd, board, flags, thread, seen, worker, sims, cap>>

HandlePlay ==
    /\ gtp = "dispatch" /\ cmd = "play"
    /\ board' = 1 - board
    /\ gtp' = "respond"
    /\ UNCHANGED <<cmd, flags, thread, seen, searching>>

(* Queries, comments, blank lines, unknown commands, failures.             *)
HandleOther ==
    /\ gtp = "dispatch" /\ cmd # "quit"
    /\ gtp' = "respond"
    /\ UNCHANGED <<cmd, board, flags, thread, seen, searching>>

HandleQuit ==
    /\ gtp = "dispatch" /\ cmd = "quit"
    /\ gtp' = "exit"
    /\ UNCHANGED <<cmd, board, flags, thread, seen, searching>>

GenmoveSearched ==
    /\ gtp = "searching" /\ search["gtp"] = "done"
    /\ search' = [search EXCEPT !["gtp"] = "idle"]
    /\ gtp' = "played"
    /\ UNCHANGED <<cmd, board, flags, thread, seen, worker, sims, cap>>

(* gtp_genmove plays the move and goes on to ponder, or resigns;           *)
(* gtp_reg_genmove only answers.                                           *)
FinishGenmove ==
    /\ gtp = "played"
    /\ \/ /\ cmd = "genmove"
          /\ board' = 1 - board
          /\ gtp' = "start"
       \/ gtp' = "respond" /\ UNCHANGED board
    /\ UNCHANGED <<cmd, flags, thread, seen, searching>>

(* monte_carlo_ponder_start up to pthread_create.                          *)
StartPonder ==
    /\ gtp = "start"
    /\ IF ~PonderEnabled \/ ponder_active
       THEN gtp' = "respond" /\ UNCHANGED mc_search_abort
       ELSE gtp' = "create" /\ mc_search_abort' = FALSE
    /\ UNCHANGED <<cmd, board, ponder_active, mc_earlystop_hit, mc_in_ponder,
                   thread, seen, searching>>

(* pthread_create, which may fail: then there is nothing to stop later.    *)
CreatePonder ==
    /\ gtp = "create"
    /\ gtp' = "respond"
    /\ \/ /\ thread' = "created"
          /\ seen' = board
          /\ ponder_active' = TRUE
       \/ UNCHANGED <<thread, seen, ponder_active>>
    /\ UNCHANGED <<cmd, board, mc_search_abort, mc_earlystop_hit, mc_in_ponder,
                   searching>>

(* The response is written, while the ponder thread already runs.          *)
Respond ==
    /\ gtp = "respond"
    /\ gtp' = "read"
    /\ UNCHANGED <<cmd, board, flags, thread, seen, searching>>

Hook == StopPonder \/ JoinPonder \/ ClearAbort

Handler ==
    \/ HandleGenmove \/ HandlePlay \/ HandleOther \/ HandleQuit
    \/ GenmoveSearched \/ FinishGenmove \/ StartPonder \/ CreatePonder \/ Respond

Exited == gtp = "exit" /\ UNCHANGED vars

Next ==
    \/ ReadLine \/ Hook \/ Handler
    \/ PonderStep
    \/ \E s \in Searchers : SearchStep(s)
    \/ Exited

(* Every thread that can run does.  Nothing makes the controller send      *)
(* another line.                                                           *)
Fairness ==
    /\ WF_vars(Hook) /\ WF_vars(Handler) /\ WF_vars(PonderStep)
    /\ \A s \in Searchers :
          /\ WF_vars(EnterSearch(s) \/ ExtendSearch(s) \/ EndRounds(s) \/ StoreTree(s))
          /\ \A w \in Workers : WF_vars(WorkerTest(s, w) \/ WorkerSim(s, w))

Spec == Init /\ [][Next]_vars
FairSpec == Spec /\ Fairness

-----------------------------------------------------------------------------
TypeOK ==
    /\ gtp \in GtpPCs /\ cmd \in Commands /\ board \in {0, 1}
    /\ ponder_active \in BOOLEAN /\ mc_search_abort \in BOOLEAN
    /\ mc_earlystop_hit \in BOOLEAN /\ mc_in_ponder \in BOOLEAN
    /\ thread \in ThreadPCs /\ seen \in {0, 1}
    /\ search \in [Searchers -> SearchPCs]
    /\ worker \in [Searchers -> [Workers -> {"test", "sim", "done"}]]
    /\ sims \in [Searchers -> [Workers -> Nat]]
    /\ cap \in [Searchers -> Nat]

(* The GTP thread is inside a handler, up to the point where it may give   *)
(* the engine away: whatever it reads there must not be in motion.         *)
GtpInEngine == gtp \in {"dispatch", "searching", "played", "start", "create"}

(* The ponder thread exists and has not been joined.                       *)
PonderAlive == thread # "none"

(* A search of either thread is under way.                                 *)
Searching(s) == search[s] # "idle"

(* genmove.c: "no handler ever sees engine state in motion": no command is *)
(* interpreted, and the process does not end, while a ponder thread lives; *)
(* and the position the ponder thread searches is the one it was created   *)
(* for, until it is joined.                                                *)
Quiescent ==
    PonderAlive => /\ ~GtpInEngine /\ gtp # "exit"
                   /\ ~Searching("gtp")
                   /\ board = seen

(* montecarlo.c, above mc_earlystop_hit: "pondering's stop must never be   *)
(* un-set by a search that is just starting".                              *)
AbortIsHeld == gtp = "join" => mc_search_abort

(* The search of a genmove is never cut short by a stop that was meant for *)
(* an earlier ponder search, nor treated as pondering.                     *)
GenmoveUndisturbed == Searching("gtp") => ~mc_search_abort /\ ~mc_in_ponder

(* ponder_main, "early-stop must not curtail free time": a ponder search   *)
(* that nobody aborted stores its tree only after its whole budget, and    *)
(* never buys an UNST round.                                               *)
PonderRunsItsBudget ==
    search["ponder"] \in {"store", "done"} =>
        \/ mc_search_abort
        \/ \A w \in Workers : sims["ponder"][w] = SimCap

(* mc_earlystop_hit is one flag for every search and both rounds: the      *)
(* search of a genmove ends its last round short of the budget only by a   *)
(* check that one of its own workers made in that very round, never by a   *)
(* hit left over from the first round or from another search.              *)
GenmoveRunsItsBudget ==
    search["gtp"] \in {"store", "done"} =>
        \/ \A w \in Workers : sims["gtp"][w] = cap["gtp"]
        \/ mc_earlystop_hit /\ \E w \in Workers : sims["gtp"][w] >= CheckEvery

(* A line that has arrived is handled: the join returns, whatever the      *)
(* ponder thread was doing when the line came, and the handler answers.    *)
LinesAreHandled == gtp = "stop" ~> gtp \in {"read", "exit"}

(* The engine has one user at a time (EngineHandoff).                      *)
Engine == INSTANCE EngineHandoff WITH
    owner <- IF PonderAlive THEN "ponder" ELSE IF GtpInEngine THEN "gtp" ELSE "nobody",
    closed <- gtp = "exit"
HandoffSpec == Engine!Spec
=============================================================================
