--------------------------- MODULE EngineHandoff ---------------------------
(***************************************************************************)
(* What the pondering design promises of the engine's global state (board, *)
(* move history, move reasons, reuse cache): it has one user at a time.    *)
(* The GTP thread uses it while it interprets a command, the ponder thread *)
(* from its creation until it is joined; the engine changes hands only     *)
(* when the GTP thread has let go of it.  engine/genmove.c, the comment    *)
(* above ponder_thread: "no handler ever sees engine state in motion".     *)
(***************************************************************************)

VARIABLES
    owner,      \* who uses the engine: "gtp", "ponder" or "nobody"
    closed      \* the GTP loop has been left for good

vars == <<owner, closed>>

Owners == {"gtp", "ponder", "nobody"}

Init == owner = "nobody" /\ closed = FALSE

(* A line has arrived and nobody uses the engine: the handler takes it.    *)
TakeForCommand ==
    /\ owner = "nobody"
    /\ ~closed
    /\ owner' = "gtp"
    /\ UNCHANGED closed

(* The handler is done; it gives the engine up, or hands it to a ponder    *)
(* thread that it creates as its last act.                                 *)
ReleaseAfterCommand ==
    /\ owner = "gtp"
    /\ owner' \in {"nobody", "ponder"}
    /\ UNCHANGED closed

(* The ponder thread has been joined.                                      *)
ReclaimFromPonder ==
    /\ owner = "ponder"
    /\ owner' = "nobody"
    /\ UNCHANGED closed

(* The loop ends: at end of input nobody uses the engine, after a quit the *)
(* handler did.                                                            *)
Close ==
    /\ owner \in {"nobody", "gtp"}
    /\ ~closed
    /\ owner' = "nobody"
    /\ closed' = TRUE

Next == TakeForCommand \/ ReleaseAfterCommand \/ ReclaimFromPonder \/ Close

Spec == Init /\ [][Next]_vars
=============================================================================
