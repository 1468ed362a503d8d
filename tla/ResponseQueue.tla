---------------------------- MODULE ResponseQueue ----------------------------
(***************************************************************************)
(* What a secure channel promises for the service responses handed to it:  *)
(* they leave in the order in which they came, each of them once, until    *)
(* the channel closes and drops the rest, or one cannot be sent, after     *)
(* which none is.                                                          *)
(***************************************************************************)
EXTENDS Sequences

CONSTANT Response

VARIABLES
    queued,  \* responses handed over and not sent
    sent,    \* responses sent completely
    stuck    \* whether one could not be sent

vars == <<queued, sent, stuck>>

Init == queued = <<>> /\ sent = <<>> /\ stuck = FALSE

Accept(r) == queued' = Append(queued, r) /\ UNCHANGED <<sent, stuck>>

SendFrom(q) ==
    /\ ~stuck /\ q # <<>>
    /\ queued' = Tail(q)
    /\ \/ sent' = Append(sent, Head(q)) /\ UNCHANGED stuck
       \/ stuck' = TRUE /\ UNCHANGED sent

\* The first parts of a response may have been sent already, which does not show.
Stick(q) == ~stuck /\ stuck' = TRUE /\ queued' = q /\ UNCHANGED sent

\* A channel that is not writing sends its next response in the step that
\* hands over another.
Send == SendFrom(queued) \/ Stick(queued)
AcceptAndSend(r) == SendFrom(Append(queued, r)) \/ Stick(Append(queued, r))

Drop == ~stuck /\ queued' = <<>> /\ UNCHANGED <<sent, stuck>>

Next ==
    \/ \E r \in Response : Accept(r) \/ AcceptAndSend(r)
    \/ Send \/ Drop

Spec == Init /\ [][Next]_vars
=============================================================================
