---------------------------- MODULE OrderService ----------------------------
(***************************************************************************)
(* What the order queue of skills/git-commits-push promises its users      *)
(* (specs/order.md, "Purpose"; README.md, "Queueing"): one order is worked *)
(* on at a time, each one once, and an order that was accepted is          *)
(* eventually carried out by some run, whichever terminal started it.      *)
(***************************************************************************)
CONSTANT Orders

VARIABLE status   \* [Orders -> {"new", "waiting", "running", "served"}]

Move(o, from, to) ==
  /\ status[o] = from
  /\ status' = [status EXCEPT ![o] = to]

Init == status = [o \in Orders |-> "new"]

\* The order is accepted: its run starts, or it is filed for a later one.
Accept(o) == Move(o, "new", "waiting")

Begin(o) ==
  /\ \A p \in Orders : status[p] # "running"
  /\ Move(o, "waiting", "running")

Finish(o) == Move(o, "running", "served")

Next == \E o \in Orders : Accept(o) \/ Begin(o) \/ Finish(o)

Spec == Init /\ [][Next]_status

FairSpec ==
  Spec /\ \A o \in Orders : SF_status(Begin(o)) /\ WF_status(Finish(o))
=============================================================================
