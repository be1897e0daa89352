---------------------------- MODULE MCCoreRuntime ----------------------------
(* Four tools, one for each way a call can be judged: `search` is allowed, *)
(* `write_file` needs approval, `shell` is registered but not allowed and  *)
(* `ghost` is unknown; bad is a call of `search` with invalid arguments.   *)
EXTENDS Transcript

CONSTANTS r, w, x, g, bad
MCToolOf == (r :> "search") @@ (w :> "write_file") @@ (x :> "shell") @@ (g :> "ghost")
              @@ (bad :> "search")
MCActions == {<<r>>, <<r, w>>, <<x, r>>, <<bad, g>>}
ControlActions == {<<r>>, <<x>>}
==============================================================================
