---------------------------- MODULE TimeService -----------------------------
(***************************************************************************)
(* What one worker promises, seen from outside: requests are accepted, and *)
(* each is answered once, in order of acceptance, by a response that the   *)
(* requester can validate.  There are no batches, keys, loops or counters. *)
(***************************************************************************)
EXTENDS Naturals, Sequences

CONSTANTS Requests,          \* what may be accepted
          ValidFor(_, _)     \* ValidFor(request, response): the client accepts it

VARIABLES accepted, sent

svars == <<accepted, sent>>

Init == accepted = <<>> /\ sent = <<>>

Accept ==
  /\ \E d \in Requests : accepted' = Append(accepted, d)
  /\ UNCHANGED sent

\* The oldest unanswered request is answered with a valid response.
Answer ==
  /\ Len(sent) < Len(accepted)
  /\ Len(sent') = Len(sent) + 1
  /\ \A i \in 1..Len(sent) : sent'[i] = sent[i]
  /\ ValidFor(accepted[Len(sent) + 1], sent'[Len(sent) + 1])
  /\ UNCHANGED accepted

Next == Accept \/ Answer

Spec == Init /\ [][Next]_svars
=============================================================================
