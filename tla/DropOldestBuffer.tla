-------------------------- MODULE DropOldestBuffer --------------------------
(***************************************************************************)
(* What AlertDispatcher.submit promises its caller, with no threads in it:  *)
(* items are numbered in the order they are offered, the offer that is in   *)
(* progress always goes in, and when there is no room it is the oldest item *)
(* that makes way, never a newer one.  What is taken comes out in order.    *)
(* AlertDispatcher gives Capacity and MaxOffers their values.                *)
(***************************************************************************)
EXTENDS Naturals, Sequences

CONSTANTS Capacity,    \* how many items the buffer holds
          MaxOffers    \* bound on the number of offers

VARIABLES buf,        \* the items in the buffer, oldest first
          offered,    \* number of the latest item offered
          accepted,   \* number of the latest item that went in
          taken       \* number of the latest item taken out by the consumer

vars == <<buf, offered, accepted, taken>>

TypeOK == /\ buf \in Seq(1..MaxOffers)
          /\ Len(buf) <= Capacity
          /\ offered \in 0..MaxOffers
          /\ accepted \in 0..MaxOffers
          /\ taken \in 0..MaxOffers

Init == /\ buf = <<>>
        /\ offered = 0
        /\ accepted = 0
        /\ taken = 0

InProgress == accepted < offered

Offer == /\ ~InProgress
         /\ offered < MaxOffers
         /\ offered' = offered + 1
         /\ UNCHANGED <<buf, accepted, taken>>

Accept == /\ InProgress
          /\ Len(buf) < Capacity
          /\ buf' = Append(buf, offered)
          /\ accepted' = offered
          /\ UNCHANGED <<offered, taken>>

\* Only an offer in progress may push an item out, and only the oldest one.
DropOldest == /\ InProgress
              /\ buf # <<>>
              /\ buf' = Tail(buf)
              /\ UNCHANGED <<offered, accepted, taken>>

Take == /\ buf # <<>>
        /\ taken' = Head(buf)
        /\ buf' = Tail(buf)
        /\ UNCHANGED <<offered, accepted>>

\* Everything offered and taken: the bound.
Idle == offered = MaxOffers /\ ~InProgress /\ buf = <<>> /\ UNCHANGED vars

Next == Offer \/ Accept \/ DropOldest \/ Take \/ Idle

\* The offer in progress is never starved by the consumer, and what is in the
\* buffer is taken as long as it is not dropped.
Fairness == WF_vars(Accept \/ DropOldest) /\ WF_vars(Take)

Spec == Init /\ [][Next]_vars /\ Fairness

=============================================================================
