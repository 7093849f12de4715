--------------------------- MODULE Ponder_proofs ---------------------------
(***************************************************************************)
(* Proofs about Ponder, for any number of workers and any budget.  The     *)
(* inductive invariant says which phases of the two threads may coincide:  *)
(* Quiescent alone is not inductive, since it says nothing of the flags    *)
(* that the hook consults to decide whether there is a thread to join.     *)
(***************************************************************************)
EXTENDS Ponder, TLAPS

(* ponder_active tells the truth about the thread; a living ponder thread  *)
(* leaves the GTP thread only the four phases outside the engine.          *)
ThreadInv ==
    /\ ponder_active <=> PonderAlive
    /\ PonderAlive => gtp \in {"respond", "read", "stop", "join"} /\ board = seen
    /\ gtp = "join" => PonderAlive

(* The flags are up only in the phases they belong to.                     *)
FlagInv ==
    /\ mc_search_abort <=> gtp \in {"join", "joined"}
    /\ mc_in_ponder <=> thread \in {"searching", "searched"}

(* A search runs only while its owner waits for it, and workers only while *)
(* a search has a round under way.                                         *)
SearchInv ==
    /\ Searching("gtp") => gtp = "searching"
    /\ Searching("ponder") => thread = "searching"
    /\ \A s \in Searchers, w \in Workers :
          worker[s][w] # "done" => search[s] \in {"round1", "round2"}

Inv == TypeOK /\ ThreadInv /\ FlagInv /\ SearchInv

(* The budget of a ponder search: no second round, no early stop, and a    *)
(* worker that has left its loop was aborted or has run all simulations.   *)
BudgetInv ==
    /\ search["ponder"] # "round2"
    /\ search["ponder"] \in {"round1", "store", "done"} =>
          /\ ~mc_earlystop_hit
          /\ cap["ponder"] = SimCap
          /\ \A w \in Workers :
                /\ worker["ponder"][w] = "sim" => sims["ponder"][w] < SimCap
                /\ sims["ponder"][w] <= SimCap
                /\ worker["ponder"][w] = "done" =>
                      mc_search_abort \/ sims["ponder"][w] = SimCap
    /\ search["ponder"] \in {"store", "done"} =>
          \A w \in Workers : worker["ponder"][w] = "done"

(* The budget of a genmove's search: while a round runs, a worker that has *)
(* left its loop has run all simulations or found the early stop, and the  *)
(* early stop was decided by a worker that had reached a check.            *)
StoppedByCheck ==
    mc_earlystop_hit => \E w \in Workers : sims["gtp"][w] >= CheckEvery

WorkerInv(w) ==
    /\ worker["gtp"][w] = "sim" => sims["gtp"][w] < cap["gtp"]
    /\ sims["gtp"][w] <= cap["gtp"]
    /\ worker["gtp"][w] = "done" => mc_earlystop_hit \/ sims["gtp"][w] = cap["gtp"]

GenmoveBudgetInv ==
    /\ search["gtp"] \in {"round1", "round2"} =>
          StoppedByCheck /\ \A w \in Workers : WorkerInv(w)
    /\ GenmoveRunsItsBudget

-----------------------------------------------------------------------------
(* Every variable keeps its type: no action leaves the phases, flags and   *)
(* counters the code knows.                                                *)
THEOREM Typing == Spec => []TypeOK
<1>1. Init => TypeOK
  <2> SUFFICES ASSUME Init PROVE TypeOK
    OBVIOUS
  <2>1. SimCap \in Nat
    BY PonderAssumption
  <2>2. /\ search \in [Searchers -> SearchPCs]
        /\ worker \in [Searchers -> [Workers -> {"test", "sim", "done"}]]
        /\ sims \in [Searchers -> [Workers -> Nat]]
        /\ cap \in [Searchers -> Nat]
    BY <2>1 DEF Init, SearchPCs
  <2> QED BY <2>2 DEF Init, TypeOK, GtpPCs, Commands, ThreadPCs
<1>2. TypeOK /\ [Next]_vars => TypeOK'
  <2> SUFFICES ASSUME TypeOK, [Next]_vars PROVE TypeOK'
    OBVIOUS
  <2> USE PonderAssumption DEF TypeOK
  <2>1. CASE ReadLine
    BY <2>1 DEF ReadLine, flags, searching, GtpPCs, Commands
  <2>2. CASE Hook
    BY <2>2 DEF Hook, StopPonder, JoinPonder, ClearAbort, AfterHook, flags, searching,
       GtpPCs, ThreadPCs
  <2>3. CASE HandleGenmove \/ GenmoveSearched
    BY <2>3 DEF HandleGenmove, GenmoveSearched, flags, searching, GtpPCs, SearchPCs, Searchers
  <2>4. CASE HandlePlay \/ FinishGenmove
    BY <2>4 DEF HandlePlay, FinishGenmove, flags, searching, GtpPCs
  <2>8. CASE HandleOther \/ HandleQuit \/ Respond
    BY <2>8 DEF HandleOther, HandleQuit, Respond, flags, searching, GtpPCs
  <2>9. CASE StartPonder \/ CreatePonder
    BY <2>9 DEF StartPonder, CreatePonder, flags, searching, GtpPCs, ThreadPCs
  <2>5. CASE PonderStep
    BY <2>5 DEF PonderStep, PonderBegin, PonderSearched, PonderEnd, flags, searching,
       ThreadPCs, SearchPCs, Searchers
  <2>6. ASSUME NEW s \in Searchers, SearchStep(s) PROVE TypeOK'
    <3>1. CASE EnterSearch(s)
      BY <3>1 DEF EnterSearch, SearchPCs
    <3>2. ASSUME NEW w \in Workers, WorkerTest(s, w) PROVE TypeOK'
      BY <3>2 DEF WorkerTest, flags
    <3>3. ASSUME NEW w \in Workers, WorkerSim(s, w) PROVE TypeOK'
      <4>1. sims' \in [Searchers -> [Workers -> Nat]]
        BY <3>3 DEF WorkerSim
      <4>2. mc_earlystop_hit' \in BOOLEAN
        BY <3>3 DEF WorkerSim, Decided
      <4>3. worker' \in [Searchers -> [Workers -> {"test", "sim", "done"}]]
        BY <3>3 DEF WorkerSim
      <4> QED BY <4>1, <4>2, <4>3, <3>3 DEF WorkerSim
    <3>4. CASE ExtendSearch(s)
      BY <3>4 DEF ExtendSearch, SearchPCs
    <3>5. CASE EndRounds(s)
      BY <3>5 DEF EndRounds, SearchPCs, flags
    <3>6. CASE StoreTree(s)
      BY <3>6 DEF StoreTree, SearchPCs, flags
    <3> QED BY <2>6, <3>1, <3>2, <3>3, <3>4, <3>5, <3>6 DEF SearchStep
  <2>7. CASE UNCHANGED vars
    BY <2>7 DEF vars, flags, searching
  <2> QED BY <2>1, <2>2, <2>3, <2>4, <2>5, <2>6, <2>7, <2>8, <2>9 DEF Next, Handler, Exited
<1> QED BY <1>1, <1>2, PTL DEF Spec

-----------------------------------------------------------------------------
(* The invariant of the handoff.                                           *)
LEMMA InvInit == Init => ThreadInv /\ FlagInv /\ SearchInv
  BY DEF Init, ThreadInv, FlagInv, SearchInv, PonderAlive, Searching, Searchers

(* The steps of the GTP thread.                                            *)
LEMMA InvGtp ==
  ASSUME Inv, ReadLine \/ Hook \/ Handler
  PROVE  ThreadInv' /\ FlagInv' /\ SearchInv'
<1> USE DEF Inv, PonderAlive, Searching, flags, searching
<1>1. CASE ReadLine
  BY <1>1 DEF ReadLine, ThreadInv, FlagInv, SearchInv
<1>2. CASE StopPonder
  BY <1>2 DEF StopPonder, AfterHook, ThreadInv, FlagInv, SearchInv
<1>3. CASE JoinPonder
  <2>1. ThreadInv' /\ SearchInv'
    BY <1>3 DEF JoinPonder, ThreadInv, SearchInv
  <2>2. FlagInv'
    BY <1>3 DEF JoinPonder, FlagInv
  <2> QED BY <2>1, <2>2
<1>4. CASE ClearAbort
  BY <1>4 DEF ClearAbort, AfterHook, ThreadInv, FlagInv, SearchInv
<1>5. CASE HandleGenmove
  <2>1. ThreadInv' /\ FlagInv'
    BY <1>5 DEF HandleGenmove, ThreadInv, FlagInv
  <2>2. CASE UNCHANGED search
    BY <1>5, <2>1, <2>2 DEF HandleGenmove, SearchInv
  <2>3. CASE gtp' = "searching" /\ search' = [search EXCEPT !["gtp"] = "enter"]
    <3>1. \A w \in Workers : worker["gtp"][w] = "done"
      BY <1>5 DEF HandleGenmove, SearchInv, Searchers
    <3>2. search'["ponder"] = search["ponder"]
      BY <2>3 DEF TypeOK, Searchers
    <3> QED BY <1>5, <2>1, <2>3, <3>1, <3>2 DEF HandleGenmove, SearchInv, Searchers
  <2> QED BY <1>5, <2>1, <2>2, <2>3 DEF HandleGenmove
<1>6. CASE GenmoveSearched
  <2>1. ThreadInv' /\ FlagInv'
    BY <1>6 DEF GenmoveSearched, ThreadInv, FlagInv
  <2>2. SearchInv'
    <3>1. search'["gtp"] = "idle" /\ search'["ponder"] = search["ponder"]
      BY <1>6 DEF GenmoveSearched, TypeOK, Searchers
    <3>2. \A w \in Workers : worker["gtp"][w] = "done"
      BY <1>6 DEF GenmoveSearched, SearchInv, Searchers
    <3> QED BY <1>6, <3>1, <3>2 DEF GenmoveSearched, SearchInv, Searchers
  <2> QED BY <2>1, <2>2
<1>7. CASE HandlePlay \/ HandleOther \/ HandleQuit \/ FinishGenmove \/ Respond
  BY <1>7 DEF HandlePlay, HandleOther, HandleQuit, FinishGenmove, Respond,
     ThreadInv, FlagInv, SearchInv
<1>8. CASE StartPonder
  BY <1>8 DEF StartPonder, ThreadInv, FlagInv, SearchInv
<1>9. CASE CreatePonder
  BY <1>9 DEF CreatePonder, ThreadInv, FlagInv, SearchInv
<1> QED BY <1>1, <1>2, <1>3, <1>4, <1>5, <1>6, <1>7, <1>8, <1>9 DEF Hook, Handler

(* The steps of the ponder thread.                                         *)
LEMMA InvPonder ==
  ASSUME Inv, PonderStep
  PROVE  ThreadInv' /\ FlagInv' /\ SearchInv'
<1> USE DEF Inv, PonderAlive, Searching, flags, searching
<1>1. CASE PonderBegin
  <2>1. ThreadInv' /\ FlagInv'
    BY <1>1 DEF PonderBegin, ThreadInv, FlagInv
  <2>2. SearchInv'
    BY <1>1 DEF PonderBegin, SearchInv, TypeOK, Searchers
  <2> QED BY <2>1, <2>2
<1>2. CASE PonderSearched
  <2>1. ThreadInv' /\ FlagInv'
    BY <1>2 DEF PonderSearched, ThreadInv, FlagInv
  <2>2. SearchInv'
    BY <1>2 DEF PonderSearched, SearchInv, TypeOK, Searchers
  <2> QED BY <2>1, <2>2
<1>3. CASE PonderEnd
  BY <1>3 DEF PonderEnd, ThreadInv, FlagInv, SearchInv
<1> QED BY <1>1, <1>2, <1>3 DEF PonderStep

(* The steps of a search and its workers.                                  *)
LEMMA InvSearch ==
  ASSUME Inv, NEW s \in Searchers, SearchStep(s)
  PROVE  ThreadInv' /\ FlagInv' /\ SearchInv'
<1> USE DEF Inv, flags
<1>1. ThreadInv' /\ FlagInv'
  BY DEF SearchStep, EnterSearch, WorkerTest, WorkerSim, ExtendSearch, EndRounds, StoreTree,
     ThreadInv, FlagInv, PonderAlive
<1> SUFFICES SearchInv'
  BY <1>1
<1>0. \A q \in Searchers : q # s => search'[q] = search[q] /\ worker'[q] = worker[q]
  BY DEF SearchStep, EnterSearch, WorkerTest, WorkerSim, ExtendSearch, EndRounds, StoreTree, TypeOK
<1>10. gtp' = gtp /\ thread' = thread
  BY DEF SearchStep, EnterSearch, WorkerTest, WorkerSim, ExtendSearch, EndRounds, StoreTree
<1>11. ASSUME search'[s] # "idle" => search[s] # "idle",
             \A w \in Workers : worker'[s][w] # "done" => search'[s] \in {"round1", "round2"}
      PROVE  SearchInv'
  BY <1>0, <1>10, <1>11 DEF SearchInv, Searching, Searchers
<1>2. CASE EnterSearch(s)
  <2>1. search'[s] = "round1" /\ search[s] = "enter"
    BY <1>2 DEF EnterSearch, TypeOK
  <2> QED BY <2>1, <1>11
<1>3. ASSUME NEW w \in Workers, WorkerTest(s, w) PROVE SearchInv'
  BY <1>3 DEF WorkerTest, SearchInv, Searching, TypeOK
<1>4. ASSUME NEW w \in Workers, WorkerSim(s, w) PROVE SearchInv'
  BY <1>4 DEF WorkerSim, SearchInv, Searching, TypeOK
<1>5. CASE ExtendSearch(s)
  <2>1. search'[s] = "round2" /\ search[s] = "round1"
    BY <1>5 DEF ExtendSearch, TypeOK
  <2> QED BY <2>1, <1>11
<1>6. CASE EndRounds(s)
  <2>1. search[s] # "idle" /\ \A w \in Workers : worker'[s][w] = "done"
    BY <1>6 DEF EndRounds, Joined
  <2> QED BY <2>1, <1>11
<1>7. CASE StoreTree(s)
  <2>1. search[s] = "store" /\ worker' = worker
    BY <1>7 DEF StoreTree
  <2>2. \A w \in Workers : worker[s][w] = "done"
    BY <2>1 DEF SearchInv
  <2> QED BY <2>1, <2>2, <1>11
<1> QED BY <1>2, <1>3, <1>4, <1>5, <1>6, <1>7 DEF SearchStep

LEMMA InvStep == Inv /\ [Next]_vars => ThreadInv' /\ FlagInv' /\ SearchInv'
<1> SUFFICES ASSUME Inv, [Next]_vars PROVE ThreadInv' /\ FlagInv' /\ SearchInv'
  OBVIOUS
<1>1. CASE UNCHANGED vars
  BY <1>1 DEF vars, flags, searching, Inv, ThreadInv, FlagInv, SearchInv, PonderAlive, Searching
<1> QED BY <1>1, InvGtp, InvPonder, InvSearch DEF Next, Exited

(* The handoff invariant holds in every reachable state.                   *)
THEOREM Handoff == Spec => []Inv
<1>1. Inv /\ [Next]_vars /\ TypeOK' => Inv'
  BY InvStep DEF Inv
<1>2. Init /\ TypeOK => Inv
  BY InvInit DEF Inv
<1> QED BY <1>1, <1>2, Typing, PTL DEF Spec

(* No handler is interpreted, no search of the GTP thread runs and the     *)
(* process does not end while a ponder thread lives, and the position it   *)
(* searches stays the one it was created for.                              *)
THEOREM QuiescentAlways == Spec => []Quiescent
<1>1. Inv => Quiescent
  BY DEF Inv, ThreadInv, SearchInv, Quiescent, GtpInEngine
<1> QED BY <1>1, Handoff, PTL

(* The stop that a command requests is in force until the thread is gone.  *)
THEOREM AbortIsHeldAlways == Spec => []AbortIsHeld
<1>1. Inv => AbortIsHeld
  BY DEF Inv, FlagInv, AbortIsHeld
<1> QED BY <1>1, Handoff, PTL

(* A genmove's own search meets neither a stale stop nor the ponder flag.  *)
THEOREM GenmoveUndisturbedAlways == Spec => []GenmoveUndisturbed
<1>1. Inv => GenmoveUndisturbed
  BY DEF Inv, ThreadInv, FlagInv, SearchInv, GenmoveUndisturbed, PonderAlive
<1> QED BY <1>1, Handoff, PTL

-----------------------------------------------------------------------------
(* The budget of a ponder search.                                          *)

LEMMA BudgetInit == Init => BudgetInv
  BY DEF Init, BudgetInv, Searchers

LEMMA BudgetOther ==
  ASSUME Inv, BudgetInv, ReadLine \/ Hook \/ Handler \/ PonderStep
  PROVE  BudgetInv'
<1> USE DEF Inv, flags, searching
<1>1. search'["ponder"] \in {"round1", "round2", "store", "done"} =>
         /\ search'["ponder"] = search["ponder"]
         /\ UNCHANGED <<worker, sims, cap, mc_earlystop_hit>>
         /\ mc_search_abort => mc_search_abort'
  <2>1. CASE ReadLine
    BY <2>1 DEF ReadLine
  <2>2. CASE StopPonder
    BY <2>2 DEF StopPonder
  <2>3. CASE JoinPonder
    BY <2>3 DEF JoinPonder
  <2>4. CASE ClearAbort \/ StartPonder
    <3>1. thread = "none"
      BY <2>4 DEF ClearAbort, StartPonder, ThreadInv, PonderAlive
    <3>2. search["ponder"] = "idle"
      BY <3>1 DEF SearchInv, Searching
    <3>3. search' = search
      BY <2>4 DEF ClearAbort, StartPonder
    <3> QED BY <3>2, <3>3
  <2>5. CASE HandlePlay \/ HandleOther \/ HandleQuit \/ FinishGenmove \/ CreatePonder \/ Respond
    BY <2>5 DEF HandlePlay, HandleOther, HandleQuit, FinishGenmove, CreatePonder, Respond
  <2>6. CASE HandleGenmove
    BY <2>6 DEF HandleGenmove, TypeOK, Searchers
  <2>7. CASE GenmoveSearched
    BY <2>7 DEF GenmoveSearched, TypeOK, Searchers
  <2>8. CASE PonderStep
    BY <2>8 DEF PonderStep, PonderBegin, PonderSearched, PonderEnd, TypeOK, Searchers
  <2> QED BY <2>1, <2>2, <2>3, <2>4, <2>5, <2>6, <2>7, <2>8 DEF Hook, Handler
<1> QED BY <1>1 DEF BudgetInv, TypeOK

(* A search of the GTP thread excludes one of the ponder thread.           *)
LEMMA OneSearch ==
  ASSUME Inv, Searching("gtp") PROVE search["ponder"] = "idle"
  BY DEF Inv, ThreadInv, SearchInv, Searching, PonderAlive

LEMMA BudgetGtpSearch ==
  ASSUME Inv, BudgetInv, SearchStep("gtp") PROVE BudgetInv'
<1>1. Searching("gtp")
  <2>1. ASSUME NEW w \in Workers, worker["gtp"][w] # "done" PROVE search["gtp"] # "idle"
    BY <2>1 DEF Inv, SearchInv, Searchers
  <2> QED BY <2>1 DEF SearchStep, EnterSearch, WorkerTest, WorkerSim, ExtendSearch, EndRounds,
       StoreTree, Searching
<1>2. search["ponder"] = "idle"
  BY <1>1, OneSearch
<1>3. search'["ponder"] = search["ponder"]
  BY DEF SearchStep, EnterSearch, WorkerTest, WorkerSim, ExtendSearch, EndRounds, StoreTree,
     Inv, TypeOK, Searchers
<1> QED BY <1>2, <1>3 DEF BudgetInv

LEMMA BudgetPonderSearch ==
  ASSUME Inv, BudgetInv, SearchStep("ponder") PROVE BudgetInv'
<1> USE PonderAssumption DEF Inv, flags
<1>1. mc_in_ponder
  <2>1. ASSUME NEW w \in Workers, worker["ponder"][w] # "done" PROVE search["ponder"] # "idle"
    BY <2>1 DEF SearchInv, Searchers
  <2>2. Searching("ponder")
    BY <2>1 DEF SearchStep, EnterSearch, WorkerTest, WorkerSim, ExtendSearch, EndRounds,
       StoreTree, Searching
  <2> QED BY <2>2 DEF SearchInv, FlagInv
<1>2. CASE EnterSearch("ponder")
  <2>1. /\ search'["ponder"] = "round1" /\ cap'["ponder"] = SimCap /\ ~mc_earlystop_hit'
        /\ \A w \in Workers : worker'["ponder"][w] = "test" /\ sims'["ponder"][w] = 0
    BY <1>2 DEF EnterSearch, TypeOK, Searchers
  <2> QED BY <2>1 DEF BudgetInv
<1>3. ASSUME NEW w \in Workers, WorkerTest("ponder", w) PROVE BudgetInv'
  <2>1. search["ponder"] = "round1"
    BY <1>3 DEF WorkerTest, SearchInv, Searchers, BudgetInv
  <2>2. /\ UNCHANGED <<search, sims, cap, mc_earlystop_hit, mc_search_abort>>
        /\ \A v \in Workers : v # w => worker'["ponder"][v] = worker["ponder"][v]
        /\ worker'["ponder"][w] = IF MayContinue("ponder", w) THEN "sim" ELSE "done"
    BY <1>3 DEF WorkerTest, TypeOK, Searchers
  <2>3. /\ sims["ponder"][w] \in Nat /\ sims["ponder"][w] <= SimCap
        /\ worker'["ponder"][w] = "sim" => sims["ponder"][w] < SimCap
        /\ worker'["ponder"][w] = "done" => mc_search_abort \/ sims["ponder"][w] = SimCap
    BY <2>1, <2>2 DEF MayContinue, BudgetInv, TypeOK, Searchers
  <2> QED BY <2>1, <2>2, <2>3 DEF BudgetInv
<1>4. ASSUME NEW w \in Workers, WorkerSim("ponder", w) PROVE BudgetInv'
  <2>1. search["ponder"] = "round1"
    BY <1>4 DEF WorkerSim, SearchInv, Searchers, BudgetInv
  <2>2. mc_earlystop_hit' = mc_earlystop_hit
    BY <1>1, <1>4 DEF WorkerSim, Decided, TypeOK
  <2>3. /\ UNCHANGED <<search, cap, mc_search_abort>>
        /\ \A v \in Workers : v # w => /\ worker'["ponder"][v] = worker["ponder"][v]
                                       /\ sims'["ponder"][v] = sims["ponder"][v]
        /\ worker'["ponder"][w] = "test"
        /\ sims'["ponder"][w] = sims["ponder"][w] + 1
    BY <1>4 DEF WorkerSim, TypeOK, Searchers
  <2>4. sims["ponder"][w] \in Nat /\ sims["ponder"][w] < SimCap
    BY <1>4, <2>1 DEF WorkerSim, BudgetInv, TypeOK, Searchers
  <2>5. sims'["ponder"][w] <= SimCap
    BY <2>3, <2>4
  <2> QED BY <2>1, <2>2, <2>3, <2>5 DEF BudgetInv
<1>5. CASE ExtendSearch("ponder")
  BY <1>1, <1>5 DEF ExtendSearch, MayExtend
<1>6. CASE EndRounds("ponder")
  <2>1. /\ search["ponder"] = "round1" /\ search'["ponder"] = "store"
        /\ \A w \in Workers : worker["ponder"][w] = "done"
        /\ UNCHANGED <<worker, sims, cap, mc_earlystop_hit, mc_search_abort>>
    BY <1>6 DEF EndRounds, Joined, BudgetInv, TypeOK, Searchers
  <2> QED BY <2>1 DEF BudgetInv
<1>7. CASE StoreTree("ponder")
  <2>1. /\ search["ponder"] = "store" /\ search'["ponder"] = "done"
        /\ UNCHANGED <<worker, sims, cap, mc_earlystop_hit, mc_search_abort>>
    BY <1>7 DEF StoreTree, TypeOK, Searchers
  <2> QED BY <2>1 DEF BudgetInv
<1> QED BY <1>2, <1>3, <1>4, <1>5, <1>6, <1>7 DEF SearchStep

(* A ponder search that nobody aborted has run its whole budget when it    *)
(* stores its tree, with one round and no early stop.                      *)
THEOREM PonderRunsItsBudgetAlways == Spec => []PonderRunsItsBudget
<1>1. Inv /\ BudgetInv /\ [Next]_vars => BudgetInv'
  <2> SUFFICES ASSUME Inv, BudgetInv, [Next]_vars PROVE BudgetInv'
    OBVIOUS
  <2>1. CASE UNCHANGED vars
    BY <2>1 DEF vars, flags, searching, BudgetInv
  <2>2. ASSUME NEW s \in Searchers, SearchStep(s) PROVE BudgetInv'
    BY <2>2, BudgetGtpSearch, BudgetPonderSearch DEF Searchers
  <2> QED BY <2>1, <2>2, BudgetOther DEF Next, Exited
<1>2. Inv /\ BudgetInv => PonderRunsItsBudget
  BY DEF BudgetInv, PonderRunsItsBudget
<1> QED BY <1>1, <1>2, BudgetInit, Handoff, PTL DEF Spec

-----------------------------------------------------------------------------
(* The budget of a genmove's search.                                       *)

(* A check is due no earlier than after CheckEvery simulations.            *)
LEMMA CheckIsLate ==
  ASSUME NEW n \in Nat, NEW c \in Nat \ {0}, n > 0, n % c = 0 PROVE n >= c
  BY SMT

LEMMA GenmoveBudgetOther ==
  ASSUME Inv, GenmoveBudgetInv, ReadLine \/ Hook \/ Handler \/ PonderStep
  PROVE  GenmoveBudgetInv'
<1> USE DEF flags, searching
<1>1. search'["gtp"] \in {"round1", "round2", "store", "done"} =>
         /\ search'["gtp"] = search["gtp"]
         /\ UNCHANGED <<worker, sims, cap, mc_earlystop_hit>>
  <2>1. CASE ReadLine \/ StopPonder \/ JoinPonder \/ ClearAbort \/ StartPonder
    BY <2>1 DEF ReadLine, StopPonder, JoinPonder, ClearAbort, StartPonder
  <2>2. CASE HandlePlay \/ HandleOther \/ HandleQuit \/ FinishGenmove \/ CreatePonder \/ Respond
    BY <2>2 DEF HandlePlay, HandleOther, HandleQuit, FinishGenmove, CreatePonder, Respond
  <2>3. CASE HandleGenmove \/ GenmoveSearched
    BY <2>3 DEF HandleGenmove, GenmoveSearched, Inv, TypeOK, Searchers
  <2>4. CASE PonderStep
    BY <2>4 DEF PonderStep, PonderBegin, PonderSearched, PonderEnd, Inv, TypeOK, Searchers
  <2> QED BY <2>1, <2>2, <2>3, <2>4 DEF Hook, Handler
<1> QED BY <1>1 DEF GenmoveBudgetInv, GenmoveRunsItsBudget, StoppedByCheck, WorkerInv, Inv, TypeOK

LEMMA GenmoveBudgetPonderSearch ==
  ASSUME Inv, GenmoveBudgetInv, SearchStep("ponder") PROVE GenmoveBudgetInv'
<1>1. Searching("ponder")
  <2>1. ASSUME NEW w \in Workers, worker["ponder"][w] # "done" PROVE search["ponder"] # "idle"
    BY <2>1 DEF Inv, SearchInv, Searchers
  <2> QED BY <2>1 DEF SearchStep, EnterSearch, WorkerTest, WorkerSim, ExtendSearch, EndRounds,
       StoreTree, Searching
<1>2. search["gtp"] = "idle"
  BY <1>1, OneSearch DEF Searching
<1>3. search'["gtp"] = search["gtp"]
  BY DEF SearchStep, EnterSearch, WorkerTest, WorkerSim, ExtendSearch, EndRounds, StoreTree,
     Inv, TypeOK, Searchers
<1> QED BY <1>2, <1>3 DEF GenmoveBudgetInv, GenmoveRunsItsBudget

LEMMA GenmoveBudgetSearch ==
  ASSUME Inv, GenmoveBudgetInv, SearchStep("gtp") PROVE GenmoveBudgetInv'
<1> USE PonderAssumption DEF flags
<1>0. "gtp" \in Searchers
  BY DEF Searchers
<1>1. ~mc_search_abort
  <2>1. ASSUME NEW w \in Workers, worker["gtp"][w] # "done" PROVE search["gtp"] # "idle"
    BY <2>1 DEF Inv, SearchInv, Searchers
  <2>2. Searching("gtp")
    BY <2>1 DEF SearchStep, EnterSearch, WorkerTest, WorkerSim, ExtendSearch, EndRounds,
       StoreTree, Searching
  <2> QED BY <2>2 DEF Inv, SearchInv, FlagInv
<1>2. ASSUME NEW c \in Nat, cap'["gtp"] = c, ~mc_earlystop_hit',
             search'["gtp"] \in {"round1", "round2"},
             \A w \in Workers : worker'["gtp"][w] = "test" /\ sims'["gtp"][w] = 0
      PROVE  GenmoveBudgetInv'
  BY <1>2 DEF GenmoveBudgetInv, GenmoveRunsItsBudget, StoppedByCheck, WorkerInv
<1>3. CASE EnterSearch("gtp")
  <2>1. /\ search'["gtp"] = "round1" /\ cap'["gtp"] = SimCap /\ ~mc_earlystop_hit'
        /\ \A w \in Workers : worker'["gtp"][w] = "test" /\ sims'["gtp"][w] = 0
    BY <1>0, <1>3 DEF EnterSearch, Inv, TypeOK
  <2> QED BY <2>1, <1>2
<1>4. CASE ExtendSearch("gtp")
  <2>1. /\ search'["gtp"] = "round2" /\ cap'["gtp"] = UnstCap /\ ~mc_earlystop_hit'
        /\ \A w \in Workers : worker'["gtp"][w] = "test" /\ sims'["gtp"][w] = 0
    BY <1>0, <1>4 DEF ExtendSearch, Inv, TypeOK
  <2> QED BY <2>1, <1>2
<1>5. ASSUME NEW w \in Workers, WorkerTest("gtp", w) PROVE GenmoveBudgetInv'
  <2>1. search["gtp"] \in {"round1", "round2"}
    BY <1>0, <1>5 DEF WorkerTest, Inv, SearchInv
  <2>2. /\ UNCHANGED <<search, sims, cap, mc_earlystop_hit>>
        /\ \A v \in Workers : v # w => worker'["gtp"][v] = worker["gtp"][v]
        /\ worker'["gtp"][w] = IF MayContinue("gtp", w) THEN "sim" ELSE "done"
    BY <1>0, <1>5 DEF WorkerTest, Inv, TypeOK
  <2>3. sims["gtp"][w] \in Nat /\ cap["gtp"] \in Nat
    BY <1>0 DEF Inv, TypeOK
  <2>4. StoppedByCheck /\ \A v \in Workers : WorkerInv(v)
    BY <2>1 DEF GenmoveBudgetInv
  <2>5. WorkerInv(w)'
    BY <1>1, <2>2, <2>3, <2>4 DEF WorkerInv, MayContinue
  <2>6. \A v \in Workers : WorkerInv(v)'
    BY <2>2, <2>4, <2>5 DEF WorkerInv
  <2>7. StoppedByCheck'
    BY <2>2, <2>4 DEF StoppedByCheck
  <2> QED BY <2>1, <2>2, <2>6, <2>7 DEF GenmoveBudgetInv, GenmoveRunsItsBudget
<1>6. ASSUME NEW w \in Workers, WorkerSim("gtp", w) PROVE GenmoveBudgetInv'
  <2>1. search["gtp"] \in {"round1", "round2"}
    BY <1>0, <1>6 DEF WorkerSim, Inv, SearchInv
  <2>2. /\ UNCHANGED <<search, cap>>
        /\ \A v \in Workers : v # w => /\ worker'["gtp"][v] = worker["gtp"][v]
                                       /\ sims'["gtp"][v] = sims["gtp"][v]
        /\ worker["gtp"][w] = "sim" /\ worker'["gtp"][w] = "test"
        /\ sims'["gtp"][w] = sims["gtp"][w] + 1
    BY <1>0, <1>6 DEF WorkerSim, Inv, TypeOK
  <2>3. sims["gtp"][w] \in Nat /\ cap["gtp"] \in Nat /\ mc_earlystop_hit \in BOOLEAN
    BY <1>0 DEF Inv, TypeOK
  <2>4. /\ mc_earlystop_hit => mc_earlystop_hit'
        /\ mc_earlystop_hit' => mc_earlystop_hit \/ (sims["gtp"][w] + 1) % CheckEvery = 0
    BY <1>6, <2>3 DEF WorkerSim, Decided
  <2>5. StoppedByCheck /\ \A v \in Workers : WorkerInv(v)
    BY <2>1 DEF GenmoveBudgetInv
  <2>6. WorkerInv(w)'
    BY <2>2, <2>3, <2>5 DEF WorkerInv
  <2>7. \A v \in Workers : WorkerInv(v)'
    BY <2>2, <2>4, <2>5, <2>6 DEF WorkerInv
  <2>8. StoppedByCheck'
    <3>1. CASE mc_earlystop_hit
      <4>1. PICK v \in Workers : sims["gtp"][v] >= CheckEvery
        BY <3>1, <2>5 DEF StoppedByCheck
      <4>2. sims'["gtp"][v] >= CheckEvery
        BY <4>1, <2>2, <2>3
      <4> QED BY <4>2 DEF StoppedByCheck
    <3>2. CASE (sims["gtp"][w] + 1) % CheckEvery = 0
      <4>1. sims["gtp"][w] + 1 >= CheckEvery
        BY <3>2, <2>3, CheckIsLate
      <4> QED BY <4>1, <2>2 DEF StoppedByCheck
    <3> QED BY <3>1, <3>2, <2>4 DEF StoppedByCheck
  <2> QED BY <2>1, <2>2, <2>7, <2>8 DEF GenmoveBudgetInv, GenmoveRunsItsBudget
<1>7. CASE EndRounds("gtp")
  <2>1. /\ search["gtp"] \in {"round1", "round2"} /\ search'["gtp"] = "store"
        /\ \A w \in Workers : worker["gtp"][w] = "done"
        /\ UNCHANGED <<worker, sims, cap, mc_earlystop_hit>>
    BY <1>0, <1>7 DEF EndRounds, Joined, Inv, TypeOK
  <2>2. StoppedByCheck /\ \A w \in Workers : WorkerInv(w)
    BY <2>1 DEF GenmoveBudgetInv
  <2>3. GenmoveRunsItsBudget'
    BY <2>1, <2>2 DEF GenmoveRunsItsBudget, StoppedByCheck, WorkerInv
  <2> QED BY <2>1, <2>3 DEF GenmoveBudgetInv
<1>8. CASE StoreTree("gtp")
  <2>1. /\ search["gtp"] = "store" /\ search'["gtp"] = "done"
        /\ UNCHANGED <<worker, sims, cap, mc_earlystop_hit>>
    BY <1>0, <1>8 DEF StoreTree, Inv, TypeOK
  <2> QED BY <2>1 DEF GenmoveBudgetInv, GenmoveRunsItsBudget
<1> QED BY <1>3, <1>4, <1>5, <1>6, <1>7, <1>8 DEF SearchStep

(* The search of a genmove is cut short only by an early stop that one of  *)
(* its own workers decided in its own last round: no hit of an earlier     *)
(* search or of the first round reaches it.                                *)
THEOREM GenmoveRunsItsBudgetAlways == Spec => []GenmoveRunsItsBudget
<1>1. Init => GenmoveBudgetInv
  BY DEF Init, GenmoveBudgetInv, GenmoveRunsItsBudget, Searchers
<1>2. Inv /\ GenmoveBudgetInv /\ [Next]_vars => GenmoveBudgetInv'
  <2> SUFFICES ASSUME Inv, GenmoveBudgetInv, [Next]_vars PROVE GenmoveBudgetInv'
    OBVIOUS
  <2>1. CASE UNCHANGED vars
    BY <2>1 DEF vars, flags, searching, GenmoveBudgetInv, GenmoveRunsItsBudget, StoppedByCheck,
       WorkerInv
  <2>2. ASSUME NEW s \in Searchers, SearchStep(s) PROVE GenmoveBudgetInv'
    BY <2>2, GenmoveBudgetSearch, GenmoveBudgetPonderSearch DEF Searchers
  <2> QED BY <2>1, <2>2, GenmoveBudgetOther DEF Next, Exited
<1>3. GenmoveBudgetInv => GenmoveRunsItsBudget
  BY DEF GenmoveBudgetInv
<1> QED BY <1>1, <1>2, <1>3, Handoff, PTL DEF Spec

-----------------------------------------------------------------------------
(* The command loop with pondering implements EngineHandoff: the engine    *)
(* has one user at a time and passes from one to the next only in the ways *)
(* that specification allows.                                              *)
THEOREM Refinement == Spec => HandoffSpec
<1> USE DEF PonderAlive, GtpInEngine, flags, searching
<1>1. Init => Engine!Init
  BY DEF Init, Engine!Init
<1>2. Inv /\ [Next]_vars => [Engine!Next]_(Engine!vars)
  <2> SUFFICES ASSUME Inv, [Next]_vars PROVE [Engine!Next]_(Engine!vars)
    OBVIOUS
  <2> USE DEF Inv, ThreadInv, Engine!Next, Engine!vars
  <2>1. CASE ReadLine
    BY <2>1 DEF ReadLine
  <2>2. CASE StopPonder
    BY <2>2 DEF StopPonder, AfterHook, Engine!TakeForCommand, Engine!Close
  <2>3. CASE JoinPonder
    BY <2>3 DEF JoinPonder, Engine!ReclaimFromPonder
  <2>4. CASE ClearAbort
    BY <2>4 DEF ClearAbort, AfterHook, Engine!TakeForCommand, Engine!Close
  <2>5. CASE HandleGenmove \/ GenmoveSearched \/ StartPonder \/ Respond
    BY <2>5 DEF HandleGenmove, GenmoveSearched, StartPonder, Respond, Engine!ReleaseAfterCommand
  <2>6. CASE HandlePlay \/ HandleOther \/ FinishGenmove
    BY <2>6 DEF HandlePlay, HandleOther, FinishGenmove, Engine!ReleaseAfterCommand
  <2>7. CASE HandleQuit
    BY <2>7 DEF HandleQuit, Engine!Close
  <2>8. CASE CreatePonder
    BY <2>8 DEF CreatePonder, Engine!ReleaseAfterCommand
  <2>9. CASE PonderStep
    BY <2>9 DEF PonderStep, PonderBegin, PonderSearched, PonderEnd
  <2>10. ASSUME NEW s \in Searchers, SearchStep(s) PROVE UNCHANGED <<gtp, thread>>
    BY <2>10 DEF SearchStep, EnterSearch, WorkerTest, WorkerSim, ExtendSearch, EndRounds, StoreTree
  <2>11. CASE UNCHANGED vars
    BY <2>11 DEF vars
  <2> QED BY <2>1, <2>2, <2>3, <2>4, <2>5, <2>6, <2>7, <2>8, <2>9, <2>10, <2>11
          DEF Next, Hook, Handler, Exited
<1> QED BY <1>1, <1>2, Handoff, PTL DEF Spec, HandoffSpec, Engine!Spec
=============================================================================
