------------------------------- MODULE MCReplay -------------------------------
(* r is a call of `search`, allowed today; w and x are calls of two tools  *)
(* that ask the gate today.  The reference's decisions are free, so each   *)
(* of the three may have been denied or let through then.                  *)
EXTENDS Replay

CONSTANTS r, w, x
MCToolOf == (r :> "search") @@ (w :> "write_file") @@ (x :> "shell")
MCActions == {<<r>>, <<w, x>>}
===============================================================================
