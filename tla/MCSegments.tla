----------------------------- MODULE MCSegments -----------------------------
(***************************************************************************)
(* Instances of Segments for TLC: four pages of four words.  Page 0 holds  *)
(* the code, pages 1 and 2 data, page 3 the system words and registers.    *)
(***************************************************************************)
EXTENDS Segments

Plain(op)     == [op |-> op, arg |-> 0]
To(op, where) == [op |-> op, arg |-> where]

Alu == {Plain("add")}
Data == {To("load", 4), To("store", 4), To("store", 8)}
Io == {To("read", 8), To("write", 4)}
Ends == {Plain("halt"), To("jump", 0)}

\* Every guest of three instructions and a halt or a loop.
AllPrograms ==
  {<<a, b, c, e>> : a \in {Plain("add"), To("store", 4)},
                    b \in Data \cup Io, c \in {To("store", 8)} \cup Io, e \in Ends}
=============================================================================
