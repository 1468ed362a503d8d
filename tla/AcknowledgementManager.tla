----------------------- MODULE AcknowledgementManager -----------------------
(***************************************************************************)
(* The server's AcknowledgementManager: the sequence numbers of one        *)
(* subscription's notifications and the list of notifications that the     *)
(* client has not acknowledged yet.  A value of the class is a record      *)
(*                                                                         *)
(*   sequenceNumber  the number given out last (uint32, 0 at the start)    *)
(*   keepalive       that number went out with a keepalive and will be     *)
(*                   used again for the next notification                  *)
(*   list            numbers of the unacknowledged notifications, oldest   *)
(*                   first                                                 *)
(*                                                                         *)
(* The operators are the class's methods.  The notification bodies held    *)
(* in the list are never read (Republish is not implemented), so the list  *)
(* is the sequence of their numbers.                                       *)
(***************************************************************************)
EXTENDS Naturals, Sequences, SequencesExt

CONSTANTS
    UIntMax,      \* the largest uint32 (4294967295 in the code)
    MaxListSize   \* maxListSize_, 20 in the code; 0 means no limit

ASSUME UIntMaxAssumption == UIntMax \in Nat \ {0, 1}
ASSUME MaxListSizeAssumption == MaxListSize \in Nat

UInt == 0 .. UIntMax

AckManager == [sequenceNumber: UInt, keepalive: BOOLEAN, list: Seq(UInt)]

NewAckManager == [sequenceNumber |-> 0, keepalive |-> FALSE, list |-> <<>>]

(***************************************************************************)
(* sequenceNumber_++ on a uint32, which skips 0 when it wraps.             *)
(***************************************************************************)
Successor(n) == IF n = UIntMax THEN 1 ELSE n + 1

(***************************************************************************)
(* nextSequenceNumber(keepalive): the number that is returned, and the     *)
(* object afterwards.  After a keepalive the same number is returned until *)
(* a notification uses it.                                                 *)
(***************************************************************************)
NextSequenceNumber(a) ==
    IF a.keepalive THEN a.sequenceNumber ELSE Successor(a.sequenceNumber)

TakeSkippingKeepalive(a, keepalive) ==
    [a EXCEPT !.sequenceNumber = NextSequenceNumber(a), !.keepalive = FALSE]
TakeStickyKeepalive(a, keepalive) ==
    [a EXCEPT !.sequenceNumber = NextSequenceNumber(a), !.keepalive = @ \/ keepalive]
TakeSequenceNumber(a, keepalive) ==
    [a EXCEPT !.sequenceNumber = NextSequenceNumber(a), !.keepalive = keepalive]

Wraps(a) == NextSequenceNumber(a) < a.sequenceNumber

(***************************************************************************)
(* addNotification: append, and drop the oldest when the list is too long. *)
(***************************************************************************)
AddNotification(a, n) ==
    LET grown == Append(a.list, n)
    IN  [a EXCEPT !.list = IF MaxListSize # 0 /\ Len(grown) > MaxListSize
                             THEN Tail(grown) ELSE grown]

(***************************************************************************)
(* deleteNotification: erase the first element with the given number, or   *)
(* nothing when there is none; the elements behind it move up.             *)
(***************************************************************************)
DeleteNotification(a, n) ==
    IF n \in Range(a.list)
      THEN [a EXCEPT !.list = [i \in 1 .. Len(a.list) - 1 |->
              IF \E j \in 1 .. i : a.list[j] = n THEN a.list[i + 1] ELSE a.list[i]]]
      ELSE a

(***************************************************************************)
(* What Subscription::publish does with a notification: take a number and  *)
(* remember the notification under it.                                     *)
(***************************************************************************)
Notify(a) ==
    AddNotification(TakeSequenceNumber(a, FALSE), NextSequenceNumber(a))
=============================================================================
