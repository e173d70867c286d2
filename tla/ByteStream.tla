------------------------------ MODULE ByteStream ------------------------------
(***************************************************************************)
(* What a writer on the stack promises to the one above: the units that    *)
(* come out are those that went in, in their order, perhaps later, and all *)
(* of them once it is closed.  Units are counted, not named: the order is  *)
(* kept by counting from the front.                                        *)
(***************************************************************************)
EXTENDS Naturals

VARIABLES accepted, \* units taken from above
          visible,  \* units that have come out
          closed,
          broken    \* a write below has failed, and nothing is promised any more

Init == accepted \in Nat /\ visible = 0 /\ closed = FALSE /\ broken = FALSE

Write ==
  /\ ~closed /\ {accepted', visible'} \subseteq Nat
  /\ accepted <= accepted' /\ visible <= visible' /\ visible' <= accepted'
  /\ UNCHANGED closed

Close ==
  /\ ~closed /\ closed' = TRUE /\ visible' = accepted
  /\ UNCHANGED accepted

Next == \/ ~broken /\ ~broken' /\ (Write \/ Close)
        \/ broken'

Spec == Init /\ [][Next]_<<accepted, visible, closed, broken>>
=============================================================================
