---------------------------- MODULE SlotTimerStops ----------------------------
(***************************************************************************)
(* SlotTimer with the intents of those who stop: a history variable holds  *)
(* the elements whose stop has returned.                                   *)
(*                                                                         *)
(* run and moveSlot unlink an element and insert it again under the mutex, *)
(* but stop looks at the element without it.  A stop by the other thread   *)
(* that looks in between returns, and the element stays.                   *)
(***************************************************************************)
EXTENDS SlotTimer

VARIABLE stopped  \* history: stop has returned, and start was not called since

stopVars == <<vars, stopped>>

StopsInit == Init /\ stopped = {}

\* The stop of e may look at it while the loop has it unlinked.
MayBeStopped(e) ==
    \/ stopped' = stopped
    \/ /\ "other" \in Stopper /\ stopping = {}
       /\ stopped' = stopped \cup {e}

\* The element that the step of the loop unlinks and inserts again.
Reinserted ==
    {e \in Element :
        \/ RunCall /\ e = Head(ActList) /\ elem[e].interval # 0
        \/ Drain /\ loop' = loop
                 /\ e = Head(slotList[loop.array + 1][actSlot[loop.array + 1]])}

LoopStops ==
    /\ LoopStep
    /\ \/ Reinserted = {} /\ UNCHANGED stopped
       \/ \E e \in Reinserted : MayBeStopped(e)

StopsNext ==
    \/ LoopStops
    \/ (StopSlotTimerLoopSync \/ Tick \/ \E e \in Element : StopChecks(e)) /\ UNCHANGED stopped
    \/ \E e \in Element : (Stop(e) \/ StopRemoves(e)) /\ stopped' = stopped \cup {e}
    \/ \E e \in Element, i \in {0, MaxInterval} :
         \E t \in now + MinAhead .. Position + MaxAhead :
            Start(e, t, i) /\ stopped' = stopped \ {e}

StopsSpec == StopsInit /\ [][StopsNext]_stopVars

\* An element that was stopped is not called again until it is started: stop
\* has unlinked it from whichever array it was in.  With a second thread that
\* stops elements the code does not keep this.
StopIsFinal ==
    [][\A e \in stopped : e \in loop'.calling => e \in loop.calling]_stopVars
=============================================================================
