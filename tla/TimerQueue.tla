----------------------------- MODULE TimerQueue -----------------------------
(***************************************************************************)
(* What a timer promises: an element that is started has a tick at which   *)
(* it is due, the timer counts the ticks, and it passes no tick before     *)
(* every element that is due at it has been called or stopped.  An element *)
(* with an interval is due again when it is called.  The promise ends with *)
(* a stop that the timer does not allow.                                   *)
(***************************************************************************)
EXTENDS Integers

CONSTANTS Element, MaxInterval

VARIABLES
    due,       \* per element: the tick it is due at, or NotDue
    position,  \* the tick the timer is at
    broken     \* whether there was a stop that is not allowed

NotDue == -1

Init ==
    /\ due = [e \in Element |-> NotDue]
    /\ position = 0
    /\ broken = FALSE

Start(e) ==
    /\ due[e] = NotDue
    /\ due'[e] \in Nat /\ due'[e] >= position
    /\ due' = [due EXCEPT ![e] = due'[e]]
    /\ UNCHANGED position

Stop(e) ==
    /\ due[e] # NotDue
    /\ due' = [due EXCEPT ![e] = NotDue]
    /\ UNCHANGED position

Call(e) ==
    /\ due[e] = position
    /\ \/ due' = [due EXCEPT ![e] = NotDue]
       \/ \E t \in position .. position + MaxInterval : due' = [due EXCEPT ![e] = t]
    /\ UNCHANGED position

Advance ==
    /\ \A e \in Element : due[e] # position
    /\ position' = position + 1
    /\ UNCHANGED due

Kept == Advance \/ \E e \in Element : Start(e) \/ Stop(e) \/ Call(e)

Next ==
    \/ ~broken /\ ~broken' /\ Kept
    \/ broken'

Spec == Init /\ [][Next]_<<due, position, broken>>

=============================================================================
