-------------------------------- MODULE Fifo --------------------------------
(***************************************************************************)
(* What a ring buffer promises: a bounded queue of the items 0, 1, 2, ...  *)
(* between one producer and one consumer.  The consumer looks at the       *)
(* oldest item and then takes it away; every item it gets is whole.  Only  *)
(* a producer that adds to a full queue breaks the promise, and from then  *)
(* on nothing is promised.                                                 *)
(***************************************************************************)
EXTENDS Naturals, Sequences

CONSTANTS
  Room,    (* how many items may wait                                      *)
  Fields,  (* an item has its number in each of its fields                 *)
  Lost,    (* the queue after it was overrun                               *)
  None     (* the consumer has no item                                     *)

VARIABLES
  queue,   (* the items that wait, or Lost                                 *)
  hand,    (* the item the consumer looks at, or None                      *)
  sent     (* how many items were put                                      *)

Item(n) == [f \in Fields |-> n]

Init ==
  /\ queue = << >>
  /\ hand = None
  /\ sent = 0

Put ==
  /\ queue # Lost /\ Len(queue) < Room
  /\ queue' = Append(queue, Item(sent))
  /\ sent' = sent + 1
  /\ UNCHANGED hand

Look ==
  /\ queue # Lost /\ queue # << >> /\ hand = None
  /\ hand' = Head(queue)
  /\ UNCHANGED <<queue, sent>>

Take ==
  /\ hand # None
  /\ queue' = Tail(queue)
  /\ hand' = None
  /\ UNCHANGED sent

Overrun ==
  /\ queue = Lost \/ Len(queue) = Room
  /\ queue' = Lost
  /\ hand' = None

Next == Put \/ Look \/ Take \/ Overrun

Spec == Init /\ [][Next]_<<queue, hand, sent>>

=============================================================================
