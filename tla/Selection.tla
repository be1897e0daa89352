------------------------------ MODULE Selection ------------------------------
(* The part of a sequence that is in a set, in its order: SelectSeq with a   *)
(* set for its test, as a recursive function, so that module SelectionProofs *)
(* can say what it selects from sequences of any length.                     *)
EXTENDS Integers, Sequences

Selected(s, T) ==
  LET kept[n \in 0..Len(s)] ==
        IF n = 0 THEN <<>>
        ELSE IF s[n] \in T THEN Append(kept[n - 1], s[n]) ELSE kept[n - 1]
  IN  kept[Len(s)]
==============================================================================
