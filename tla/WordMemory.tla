----------------------------- MODULE WordMemory -----------------------------
(***************************************************************************)
(* What the paging layer promises its user: a flat memory of words.  A     *)
(* read or a peek returns the last value written, and no paging step (a    *)
(* page-in, a commit, a clear) is visible.                                 *)
(***************************************************************************)
CONSTANTS Word, Value

VARIABLES mem,   \* the contents of the words that can be accessed
          out    \* the value the last read returned

Init == /\ mem \in [Word -> Value]
        /\ out \in Value

Read(w) == /\ out' = mem[w]
           /\ UNCHANGED mem

Write(w, v) == /\ mem' = [mem EXCEPT ![w] = v]
               /\ UNCHANGED out

Next == \E w \in Word : Read(w) \/ \E v \in Value : Write(w, v)

Spec == Init /\ [][Next]_<<mem, out>>
=============================================================================
