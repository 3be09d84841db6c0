-------------------------- MODULE ReliableHandoff --------------------------
(***************************************************************************)
(* What the outbox pipeline promises, with nothing of how it does it: a    *)
(* post goes from unseen to queued and from there, once and for ever, to   *)
(* delivered or, when the server refuses such a post, to rejected.         *)
(***************************************************************************)
CONSTANTS Items, Malformed

VARIABLE state

Init == state = [i \in Items |-> "unseen"]

Move(I, from, to) ==
  /\ \A i \in I : state[i] = from
  /\ state' = [i \in Items |-> IF i \in I THEN to ELSE state[i]]

\* The collector finds posts and puts them in its outbox.
Queue(I) == Move(I, "unseen", "queued")

\* The server stores queued posts.
Deliver(I) == I \cap Malformed = {} /\ Move(I, "queued", "delivered")

\* The collector files what the server refused.
Reject(I) == I \subseteq Malformed /\ Move(I, "queued", "rejected")

Next == \E I \in SUBSET Items : Queue(I) \/ Deliver(I) \/ Reject(I)

Spec == Init /\ [][Next]_state

=============================================================================
