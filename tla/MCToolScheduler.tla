--------------------------- MODULE MCToolScheduler ---------------------------
(* Two calls of one read-only tool, one of another and one of a writer, so *)
(* that a parallel batch and every reason for a serial one occur.          *)
EXTENDS ToolScheduler

CONSTANTS r1, r2, s, w
MCToolOf == (r1 :> "search") @@ (r2 :> "search") @@ (s :> "clock") @@ (w :> "write_file")
MCReadOnly == {"search", "clock"}
MCBatches == {<<>>, <<w>>, <<r1, s>>, <<r1, r2>>, <<r1, w>>, <<w, s>>, <<r1, w, s>>}
==============================================================================
