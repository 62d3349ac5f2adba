----------------------------- MODULE MCApiLink -----------------------------
(***************************************************************************)
(* Runs of the API server.  ApiCount.cfg: two clients that come and go, no *)
(* values; ApiViews.cfg: one client and two values; ApiGone.cfg: a client  *)
(* that dies while it is being written to.                                 *)
(***************************************************************************)
EXTENDS ApiLink

\* MANUAL.md:131: if Home Assistant becomes unreachable the board notices.  The
\* state of OfflineNoticed without its proviso: also when a write to the dead
\* client was what failed.
UnreachableNoticed == Deserted ~> (~connected \/ ~Deserted)
=============================================================================
