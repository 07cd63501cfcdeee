------------------------------ MODULE UndoEditor ------------------------------
(***************************************************************************)
(* What the draft history promises an editor (docs/native/                 *)
(* DW3_2_WORKSTATION.md): one document that starts once, is edited, undone *)
(* and redone step by step, and put back to something it was before.       *)
(***************************************************************************)
EXTENDS Naturals, SequencesExt

CONSTANTS Docs, NoDoc

VARIABLES
    doc,        \* the document, or NoDoc before its history starts
    past,       \* documents that undo goes back through, the nearest last
    future,     \* documents that redo goes forward through, the nearest last
    seen        \* every document there has been

vars == <<doc, past, future, seen>>

Init == doc = NoDoc /\ past = << >> /\ future = << >> /\ seen = {}

Become(d) == doc' = d /\ seen' = seen \cup {d}

Start(d) == doc = NoDoc /\ Become(d) /\ UNCHANGED <<past, future>>

Edit(d) ==
    /\ doc # NoDoc /\ d # doc
    /\ Become(d)
    /\ past' = Append(past, doc) /\ future' = << >>

Undo ==
    /\ past # << >>
    /\ Become(Last(past))
    /\ past' = Front(past) /\ future' = Append(future, doc)

Redo ==
    /\ future # << >>
    /\ Become(Last(future))
    /\ future' = Front(future) /\ past' = Append(past, doc)

Restore(d) == d \in seen /\ Become(d) /\ past' = << >> /\ future' = << >>

Next ==
    \/ \E d \in Docs : Start(d) \/ Edit(d) \/ Restore(d)
    \/ Undo \/ Redo

Spec == Init /\ [][Next]_vars
===============================================================================
