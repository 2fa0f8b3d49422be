--------------------------- MODULE MessageChannel ---------------------------
(***************************************************************************)
(* What IMessagePassingProtocol promises to the applications at the two    *)
(* ends of a connection: whatever one end sends is handed over at the      *)
(* other end once, in the order in which it was sent.                      *)
(***************************************************************************)
EXTENDS Naturals, Sequences

CONSTANTS Ends, Payload, Peer(_)

VARIABLES sent,      \* sent[e]: everything end e sent
          received   \* received[e]: everything end e was handed

Init ==
  /\ sent = [e \in Ends |-> <<>>]
  /\ received = [e \in Ends |-> <<>>]

Send(e, d) ==
  /\ sent' = [sent EXCEPT ![e] = Append(@, d)]
  /\ UNCHANGED received

Deliver(e) ==
  /\ Len(received[e]) < Len(sent[Peer(e)])
  /\ received' = [received EXCEPT ![e] = Append(@, sent[Peer(e)][Len(@) + 1])]
  /\ UNCHANGED sent

Next == \E e \in Ends : Deliver(e) \/ \E d \in Payload : Send(e, d)

Spec == Init /\ [][Next]_<<sent, received>>
=============================================================================
