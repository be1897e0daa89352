-------------------------- MODULE MCDurableMemory ---------------------------
(* Two processes and two projects; of three notes the long one hits twice,  *)
(* the short one once.  The budgets hold one trimmed row of the tool with   *)
(* the short name, a row and a bit, and everything.                         *)
EXTENDS DurableMemory, TLC

MCLength == ("blank" :> 0) @@ ("short" :> 1) @@ ("long" :> 3)
MCOverhead == ("t" :> 1) @@ ("wide_tool" :> 3) @@ ("answer" :> 1)
MCHits == ("words" :> (("blank" :> 0) @@ ("short" :> 1) @@ ("long" :> 2))) @@
          ("none" :> (("blank" :> 0) @@ ("short" :> 0) @@ ("long" :> 0)))
MCObservations == {<<"t", "short", TRUE>>, <<"t", "long", TRUE>>,
                   <<"wide_tool", "long", TRUE>>,
                   <<"t", "blank", TRUE>>, <<"t", "short", FALSE>>}
MCSymmetry == Permutations(Port)
=============================================================================
