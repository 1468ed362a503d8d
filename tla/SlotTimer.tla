------------------------------ MODULE SlotTimer ------------------------------
(***************************************************************************)
(* The SlotTimer: a wheel of slot arrays, each of which is refilled from   *)
(* the next, coarser one.  The arrays but the last are 1 .. Levels; the    *)
(* last has no width and keeps what is too far away for the others.        *)
(*                                                                         *)
(* The wheel is turned by the I/O thread, which holds the mutex but for    *)
(* the callbacks.  Elements are started and stopped by handlers on that    *)
(* thread and, where Stopper has "other", by another one.  Times are       *)
(* counted in ticks of 10 ms since startTime_; the 255 slots of the first  *)
(* array and the 64 of the others become Slots1 and Slots2.                *)
(***************************************************************************)
EXTENDS Integers, Sequences, FiniteSets, SequencesExt

CONSTANTS
    Element,         \* the timer elements
    Slots1, Slots2,  \* slots of the first array, and of each other one
    Levels,          \* number of arrays before the last
    MaxCallPerLoop,  \* MAX_CALL_PER_LOOP
    MaxInterval,     \* bound: longest interval of a periodic element
    MinAhead,        \* how far ahead of the clock an element is started at least
    MaxAhead,        \* bound: how far ahead of the wheel an element is started
    MaxTick,         \* bound: the time at which the clock stops
    Stopper          \* the threads that stop elements: "io", "other"

ASSUME SlotTimerAssumption ==
    /\ Slots1 \in Nat \ {0} /\ Slots2 \in Nat \ {0} /\ Levels \in Nat \ {0}
    /\ MaxCallPerLoop \in Nat \ {0} /\ MaxInterval \in Nat
    /\ MinAhead \in Nat /\ MaxAhead \in Nat /\ MaxTick \in Nat
    /\ Stopper \subseteq {"io", "other"}

VARIABLES
    now,       \* the clock
    expiry,    \* when timer_ expires
    actSlot,   \* per array: actSlot_
    offset,    \* per array: tickOffset_
    slotList,  \* per array and slot: the elements in their order
    elem,      \* per element: whether it is linked, its tick, interval, handle
    count,     \* the sum of the arrays' count_
    loop,      \* the I/O thread
    running,   \* running_
    stopEvent, \* whether stopCondition_ has been signalled
    stopping,  \* elements the other thread has found running, and will remove
    late       \* history: how many ticks found the I/O thread at work

wheel == <<actSlot, offset, slotList>>
vars == <<now, expiry, wheel, elem, count, loop, running, stopEvent, stopping, late>>

LastArray == Levels + 1
Array == 1 .. LastArray
NumberSlots(j) == IF j = 1 THEN Slots1 ELSE Slots2
Slot(j) == 0 .. NumberSlots(j) - 1

\* A slot of an array is as wide as the whole array before it.
TicksPerSlot[j \in 1 .. Levels] ==
    IF j = 1 THEN 1 ELSE NumberSlots(j - 1) * TicksPerSlot[j - 1]

TicksPerArray(j) == NumberSlots(j) * TicksPerSlot[j]

\* The tick offset init gives each array.
InitOffset[j \in Array] == IF j = 1 THEN 0 ELSE InitOffset[j - 1] + TicksPerArray(j - 1)

Idle == [at |-> "waiting", actTick |-> 0, calls |-> 0, array |-> 1,
         calling |-> {}, due |-> 0]

\* Nobody uses the timer once its loop has ended.
MutexFree == loop.at \in {"waiting", "callback"}

\* The tick that run returns: the slot of the first array that is run next.
Position == offset[1] + actSlot[1]

\* Once late, the wheel turns up to twice as fast as the clock.
MaxTime == 2 * (MaxTick + 1) + MaxAhead + MaxInterval

TypeOK ==
    /\ now \in 0 .. MaxTick
    /\ expiry \in 0 .. MaxTick + 1
    /\ \A j \in Array : actSlot[j] \in Slot(j) /\ offset[j] \in 0 .. MaxTime + InitOffset[j]
    /\ \A j \in Array : \A k \in Slot(j) :
         Range(slotList[j][k]) \subseteq Element /\ IsInjective(slotList[j][k])
    /\ elem \in [Element -> [running: BOOLEAN, tick: 0 .. MaxTime,
                             interval: 0 .. MaxInterval, array: Array,
                             slot: 0 .. Slots1 + Slots2]]
    /\ count \in Int
    /\ loop.at \in {"waiting", "run", "callback", "move", "drain", "stopped", "broken"}
    /\ running \in BOOLEAN /\ stopEvent \in BOOLEAN /\ stopping \subseteq Element
    /\ late \in 0 .. MaxTick

Init ==
    /\ now = 0
    /\ expiry = 0
    /\ actSlot = [j \in Array |-> 0]
    /\ offset = InitOffset
    /\ slotList = [j \in Array |-> [k \in Slot(j) |-> <<>>]]
    /\ elem = [e \in Element |-> [running |-> FALSE, tick |-> 0, interval |-> 0,
                                  array |-> 1, slot |-> 0]]
    /\ count = 0
    /\ loop = Idle
    /\ running = TRUE
    /\ stopEvent = FALSE
    /\ stopping = {}
    /\ late = 0

-----------------------------------------------------------------------------
(***************************************************************************)
(* insert and remove.  Insert(i, ...) is called on array i: the element    *)
(* goes into the first array from there on whose window its tick is in.    *)
(***************************************************************************)
TickBegin(j) == offset[j] + actSlot[j] * TicksPerSlot[j]
TickEnd(j) == TickBegin(j) + TicksPerArray(j)

InsertArray(i, tick) ==
    CHOOSE j \in i .. LastArray :
        /\ j = LastArray \/ tick < TickEnd(j)
        /\ \A k \in i .. j - 1 : tick >= TickEnd(k)

SlotFromZero(j, tick) ==
    CASE j = LastArray            -> 0
      [] j # LastArray /\ tick <= TickBegin(j) -> actSlot[j]
      [] OTHER               -> (tick \div TicksPerSlot[j]) % NumberSlots(j)

InsertSlot(j, tick) ==
    CASE j = LastArray            -> 0
      [] j # LastArray /\ tick <= TickBegin(j) -> actSlot[j]
      [] OTHER               -> ((tick - offset[j]) \div TicksPerSlot[j]) % NumberSlots(j)

\* Of an element that is not linked only the handle is read, by a stop that
\* found the element running.
Unlinked(e) ==
    LET handled == e \in stopping
    IN  [running |-> FALSE, tick |-> 0, interval |-> 0,
         array |-> IF handled THEN elem[e].array ELSE 1,
         slot |-> IF handled THEN elem[e].slot ELSE 0]

\* lists are the lists without the element.
Insert(i, e, lists, tick, interval) ==
    LET j == InsertArray(i, tick)
        k == InsertSlot(j, tick)
    IN  /\ slotList' = [lists EXCEPT ![j][k] = Append(@, e)]
        /\ elem' = [elem EXCEPT ![e] = [running |-> TRUE, tick |-> tick,
                        interval |-> interval, array |-> j, slot |-> k]]

Unlink(e, lists) ==
    /\ slotList' = lists
    /\ elem' = [elem EXCEPT ![e] = Unlinked(e)]
    /\ count' = count - 1

DelActSlot(e) ==
    /\ Unlink(e, [slotList EXCEPT ![1][actSlot[1]] =
                      IF Len(@) = 1 THEN <<>> ELSE RemoveFirst(@, e)])
    /\ UNCHANGED loop

Linked(e) == e \in Range(slotList[elem[e].array][elem[e].slot])

\* del unlinks an element that is in the list.
Del(e) ==
    /\ Linked(e) /\ elem[e].array # LastArray
    /\ Unlink(e, [slotList EXCEPT ![elem[e].array][elem[e].slot] = RemoveFirst(@, e)])
    /\ UNCHANGED loop

\* Of an element that is not in the list, del drops the only other element or
\* reads a null pointer.  In the last array remove deletes twice: there is no
\* return after the first.  Either breaks the lists, and the model ends.
DelBreaks(e) ==
    /\ ~Linked(e) \/ elem[e].array = LastArray
    /\ loop' = [loop EXCEPT !.at = "broken"]
    /\ UNCHANGED <<slotList, elem, count>>

RemoveElement(e) == Del(e) \/ DelBreaks(e)

-----------------------------------------------------------------------------
(***************************************************************************)
(* start and stop.  stop looks at the element before it takes the mutex;   *)
(* on the I/O thread nothing comes in between.                             *)
(***************************************************************************)
Start(e, tick, interval) ==
    /\ MutexFree
    /\ ~elem[e].running
    /\ Insert(1, e, slotList, tick, interval)
    /\ count' = count + 1
    /\ UNCHANGED <<now, expiry, actSlot, offset, loop, running, stopEvent, stopping, late>>

Stop(e) ==
    /\ "io" \in Stopper
    /\ MutexFree
    /\ elem[e].running
    /\ RemoveElement(e)
    /\ UNCHANGED <<now, expiry, actSlot, offset, running, stopEvent, stopping, late>>

StopChecks(e) ==
    /\ "other" \in Stopper
    /\ elem[e].running
    /\ stopping = {}
    /\ loop.at # "broken"
    /\ stopping' = {e}
    /\ UNCHANGED <<now, expiry, wheel, elem, count, loop, running, stopEvent, late>>

StopRemoves(e) ==
    /\ MutexFree
    /\ e \in stopping
    /\ RemoveElement(e)
    /\ stopping' = {}
    /\ UNCHANGED <<now, expiry, actSlot, offset, running, stopEvent, late>>

-----------------------------------------------------------------------------
(***************************************************************************)
(* The loop on the I/O thread.  It runs whenever timer_ expires (nextTick_ *)
(* stays zero, so it never waits for a tick it is ahead of), calls what is *)
(* in the slot, at most MaxCallPerLoop - 1 elements, and turns the wheel.  *)
(***************************************************************************)
LoopBegin ==
    /\ loop.at = "waiting" /\ running
    /\ expiry <= now
    /\ loop' = [Idle EXCEPT !.at = "run", !.actTick = now]
    /\ UNCHANGED <<now, expiry, wheel, elem, count, running, stopEvent, stopping, late>>

\* The cancelled wait, or a loop that finds the timer stopped.
LoopEnds ==
    /\ loop.at = "waiting" /\ ~running
    /\ loop' = [loop EXCEPT !.at = "stopped"]
    /\ stopEvent' = TRUE
    /\ UNCHANGED <<now, expiry, wheel, elem, count, running, stopping, late>>

AfterRunAtOnce(position) ==
    /\ loop' = IF running THEN Idle ELSE [Idle EXCEPT !.at = "stopped"]
    /\ stopEvent' = (stopEvent \/ ~running)
    /\ UNCHANGED expiry

NoEvent(position) ==
    /\ expiry' = IF position > loop.actTick /\ running THEN expiry + 1 ELSE expiry
    /\ loop' = IF running THEN Idle ELSE [Idle EXCEPT !.at = "stopped"]
    /\ UNCHANGED stopEvent

\* What loop does when run has returned: wait for the next tick, or end.
AfterRun(position) ==
    /\ expiry' = IF position > loop.actTick /\ running THEN expiry + 1 ELSE expiry
    /\ loop' = IF running THEN Idle ELSE [Idle EXCEPT !.at = "stopped"]
    /\ stopEvent' = (stopEvent \/ ~running)

ActList == slotList[1][actSlot[1]]

\* An element with an interval is inserted again before it is called.  A stop
\* by the other thread that looks at it in between returns and changes nothing;
\* SlotTimerStops records that it has returned.
RunCall ==
    /\ loop.at = "run"
    /\ ActList # <<>> /\ loop.calls + 1 < MaxCallPerLoop
    /\ LET e == Head(ActList)
           rest == [slotList EXCEPT ![1][actSlot[1]] = Tail(@)]
       IN  /\ IF elem[e].interval = 0
              THEN /\ slotList' = rest
                   /\ elem' = [elem EXCEPT ![e] = Unlinked(e)]
                   /\ count' = count - 1
              ELSE /\ Insert(1, e, rest, elem[e].tick + elem[e].interval, elem[e].interval)
                   /\ UNCHANGED count
           /\ loop' = [loop EXCEPT !.at = "callback", !.calls = @ + 1,
                                   !.calling = {e}, !.due = elem[e].tick]
    /\ UNCHANGED <<now, expiry, actSlot, offset, running, stopEvent, stopping, late>>

CallbackReturns ==
    /\ loop.at = "callback"
    /\ loop' = [loop EXCEPT !.at = "run", !.calling = {}, !.due = 0]
    /\ UNCHANGED <<now, expiry, wheel, elem, count, running, stopEvent, stopping, late>>

RunLimit ==
    /\ loop.at = "run"
    /\ ActList # <<>> /\ loop.calls + 1 = MaxCallPerLoop
    /\ AfterRun(Position)
    /\ UNCHANGED <<now, wheel, elem, count, running, stopping, late>>

RunEmpty ==
    /\ loop.at = "run"
    /\ ActList = <<>>
    /\ loop' = [loop EXCEPT !.at = "move", !.array = 1]
    /\ UNCHANGED <<now, expiry, wheel, elem, count, running, stopEvent, stopping, late>>

MoveUndrained ==
    LET j == loop.array
    IN  /\ loop.at = "move" /\ j # LastArray
        /\ actSlot' = [actSlot EXCEPT ![j] = (@ + 1) % NumberSlots(j)]
        /\ offset' = IF actSlot'[j] = 0 THEN [offset EXCEPT ![j] = @ + TicksPerArray(j)] ELSE offset
        /\ AfterRun(Position')
        /\ UNCHANGED <<now, slotList, elem, count, running, stopping, late>>

MoveTooFar ==
    LET j == loop.array
    IN  /\ loop.at = "move" /\ j # LastArray
        /\ actSlot' = [actSlot EXCEPT ![j] = IF @ < NumberSlots(j) THEN @ + 1 ELSE 0]
        /\ AfterRun(offset[1] + actSlot'[1])
        /\ UNCHANGED <<now, offset, slotList, elem, count, running, stopping, late>>

\* moveSlot: the next slot of the array; at its end the array starts again, is
\* refilled from the next array, and moves that one.
MoveSlot ==
    LET j == loop.array
    IN  /\ loop.at = "move" /\ j # LastArray
        /\ actSlot' = [actSlot EXCEPT ![j] = (@ + 1) % NumberSlots(j)]
        /\ \/ /\ actSlot[j] + 1 < NumberSlots(j)
              /\ AfterRun(offset[1] + actSlot'[1])
              /\ UNCHANGED offset
           \/ /\ actSlot[j] + 1 = NumberSlots(j)
              /\ offset' = [offset EXCEPT ![j] = @ + TicksPerArray(j)]
              /\ loop' = [loop EXCEPT !.at = "drain"]
              /\ UNCHANGED <<expiry, stopEvent>>
        /\ UNCHANGED <<now, slotList, elem, count, running, stopping, late>>

\* The last array does not move.
MoveLast ==
    /\ loop.at = "move" /\ loop.array = LastArray
    /\ AfterRun(Position)
    /\ UNCHANGED <<now, wheel, elem, count, running, stopping, late>>

\* moveSlot, an element at a time: each is out of the lists, to a stop that looks,
\* until it is inserted again.
Drain ==
    LET j == loop.array
        list == slotList[j + 1][actSlot[j + 1]]
    IN  /\ loop.at = "drain"
        /\ \/ /\ list # <<>>
              /\ Insert(j, Head(list), [slotList EXCEPT ![j + 1][actSlot[j + 1]] = Tail(@)],
                        elem[Head(list)].tick, elem[Head(list)].interval)
              /\ UNCHANGED loop
           \/ /\ list = <<>>
              /\ loop' = [loop EXCEPT !.at = "move", !.array = j + 1]
              /\ UNCHANGED <<slotList, elem>>
        /\ UNCHANGED <<now, expiry, actSlot, offset, count, running, stopEvent, stopping, late>>

StopSlotTimerLoopSync ==
    /\ MutexFree
    /\ running
    /\ running' = FALSE
    /\ stopEvent' = FALSE
    /\ UNCHANGED <<now, expiry, wheel, elem, count, loop, stopping, late>>

Tick ==
    /\ now < MaxTick
    /\ now' = now + 1
    /\ late' = IF loop.at # "waiting" \/ expiry <= now THEN late + 1 ELSE late
    /\ UNCHANGED <<expiry, wheel, elem, count, loop, running, stopEvent, stopping>>

-----------------------------------------------------------------------------
LoopStep ==
    \/ LoopBegin \/ LoopEnds \/ RunCall \/ CallbackReturns \/ RunLimit \/ RunEmpty
    \/ MoveSlot \/ MoveLast \/ Drain

Next ==
    \/ LoopStep \/ StopSlotTimerLoopSync \/ Tick
    \/ \E e \in Element : \/ Stop(e) \/ StopChecks(e) \/ StopRemoves(e)
                          \/ \E t \in now + MinAhead .. Position + MaxAhead, i \in {0, MaxInterval} :
                                Start(e, t, i)

Spec == Init /\ [][Next]_vars

\* The clock runs, and so does the I/O thread.
FairSpec == Spec /\ WF_vars(LoopStep) /\ WF_vars(Tick)

-----------------------------------------------------------------------------
(***************************************************************************)
(* Properties                                                              *)
(***************************************************************************)
\* The wheel is a timer: whichever array and slot insert puts an element into
\* and however often it is moved on, the element is called at its tick, or at
\* once if the wheel has passed it, and the wheel never turns past an element.
\* A stop on the I/O thread of an element within the reach of the arrays is
\* always safe; any other may break the lists.
DueTick ==
    [e \in Element |-> IF ~elem[e].running THEN -1
                       ELSE IF elem[e].tick < Position THEN Position ELSE elem[e].tick]

Broken == loop.at = "broken"

Queue == INSTANCE TimerQueue WITH due <- DueTick, position <- Position, broken <- Broken

TimerQueueRefined == Queue!Spec

\* The lists hold the elements that are started and neither called nor stopped,
\* and count is their number: a stop that comes while the wheel turns unlinks
\* its own element and no other, unless it looked at the element before a call
\* and removes it after, or finds it in the last array.
InLists == UNION {UNION {Range(slotList[j][k]) : k \in Slot(j)} : j \in Array}

CountAgrees ==
    \/ Broken
    \/ /\ InLists = {e \in Element : elem[e].running}
       /\ count = Cardinality(InLists)

\* No callback runs before the tick of its element by more ticks than the I/O
\* thread has been late with: each tick that it is late with may put the wheel
\* one tick further ahead of the clock, for good, and nothing else does, not the
\* wrap of an array, a carry, the call limit or a stop.
NeverEarly == loop.at = "callback" => loop.due <= now + late

\* The loop puts an element of the last array back into the slot it drains, for
\* ever and with the mutex held, when the element is still out of reach.
DrainsForEver ==
    /\ loop.at = "drain" /\ loop.array = Levels
    /\ \E e \in Range(slotList[LastArray][0]) : elem[e].tick >= TickEnd(Levels)

\* A started element is called, or stopped, however often the loop gives up the
\* thread after MaxCallPerLoop and whatever else is started; only the endless
\* drain and a stop that broke the lists prevent it.
TimerFires ==
    \A e \in Element :
        elem[e].running /\ elem[e].tick <= MaxTick - Slots1
            ~> \/ ~elem[e].running \/ e \in loop.calling \/ ~running
               \/ DrainsForEver \/ Broken

\* stopSlotTimerLoopSync returns: whichever way the loop ends, it is signalled,
\* unless the loop drains for ever or the lists are broken.
StopReturns == ~running ~> stopEvent \/ DrainsForEver \/ Broken

=============================================================================
