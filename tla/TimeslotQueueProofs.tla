------------------------- MODULE TimeslotQueueProofs -------------------------
(***************************************************************************)
(* Proof that the deferred signals of ble_controller_low_prio_tasks_process*)
(* keep the order of the sessions that caused them (DeferredInSessionOrder)*)
(* for every value of the constants.  The queue is appended to at its end *)
(* by close, block, expiry and END or invalid returns, and taken from its *)
(* head by low-priority processing; sessions are numbered by epoch, which *)
(* only grows.                                                             *)
(***************************************************************************)
EXTENDS TimeslotProofs

(* Every entry of q belongs to session n or an earlier one. *)
EpochsUpTo(q, n) == \A i \in 1..Len(q) : q[i].epoch <= n
(* Every entry of q belongs to session m or a later one. *)
EpochsFrom(q, m) == \A i \in 1..Len(q) : m <= q[i].epoch
(* The entries of q are ordered by session. *)
EpochsSorted(q) == \A i, j \in 1..Len(q) : i < j => q[i].epoch <= q[j].epoch

(* The queue's order, stated with the three operators. *)
QueueOrder(q, n, m) == EpochsUpTo(q, n) /\ EpochsSorted(q) /\ EpochsFrom(q, m)

LEMMA OrderDef ==
  DeferredInSessionOrder <=>
    QueueOrder(lpq, epoch, lp.epoch) /\ lp.epoch <= epoch
BY DEF DeferredInSessionOrder, QueueOrder, EpochsUpTo, EpochsSorted, EpochsFrom

-----------------------------------------------------------------------------
(* The session number of every queued entry is a natural number. *)
LEMMA EntryEpochs ==
  ASSUME NEW q \in Seq(LpqType)
  PROVE  \A i \in 1..Len(q) : q[i].epoch \in Nat
<1> SUFFICES ASSUME NEW i \in 1..Len(q) PROVE q[i].epoch \in Nat
  OBVIOUS
<1>1. q[i] \in LpqType
  BY ElementOfSeq
<1>2. QED
  BY <1>1, ConstFacts DEF LpqType

(* Appending an entry of the newest session keeps the order. *)
LEMMA AppendOrder ==
  ASSUME NEW q \in Seq(LpqType), NEW e \in LpqType, NEW n \in Nat,
         NEW m \in Nat, QueueOrder(q, n, m), e.epoch = n, m <= n
  PROVE  QueueOrder(Append(q, e), n, m)
<1>1. /\ Len(Append(q, e)) = Len(q) + 1
      /\ \A i \in 1..Len(q) : Append(q, e)[i] = q[i]
      /\ Append(q, e)[Len(q) + 1] = e
  BY AppendProperties
<1>2. \A i \in 1..Len(q) : q[i].epoch \in Nat
  BY EntryEpochs
<1>3. QED
  BY <1>1, <1>2 DEF QueueOrder, EpochsUpTo, EpochsSorted, EpochsFrom

(* Appending two entries of the newest session keeps the order. *)
LEMMA ConcatOrder ==
  ASSUME NEW q \in Seq(LpqType), NEW e1 \in LpqType, NEW e2 \in LpqType,
         NEW n \in Nat, NEW m \in Nat, QueueOrder(q, n, m),
         e1.epoch = n, e2.epoch = n, m <= n
  PROVE  QueueOrder(q \o <<e1, e2>>, n, m)
<1>1. <<e1, e2>> \in Seq(LpqType)
  OBVIOUS
<1>2. /\ Len(q \o <<e1, e2>>) = Len(q) + 2
      /\ \A i \in 1..Len(q) + 2 :
           (q \o <<e1, e2>>)[i] = IF i <= Len(q) THEN q[i] ELSE <<e1, e2>>[i - Len(q)]
  BY <1>1, ConcatProperties
<1>3. \A i \in 1..Len(q) : q[i].epoch \in Nat
  BY EntryEpochs
<1>4. \A i \in 1..Len(q) + 2 : (q \o <<e1, e2>>)[i].epoch =
        IF i <= Len(q) THEN q[i].epoch ELSE n
  BY <1>2
<1> DEFINE r == q \o <<e1, e2>>
<1>5. \A i \in 1..Len(r) : r[i].epoch \in Nat /\ r[i].epoch <= n /\ m <= r[i].epoch
  BY <1>2, <1>3, <1>4 DEF QueueOrder, EpochsUpTo, EpochsFrom
<1>6. EpochsSorted(r)
  <2> SUFFICES ASSUME NEW i \in 1..Len(r), NEW j \in 1..Len(r), i < j
               PROVE  r[i].epoch <= r[j].epoch
    BY DEF EpochsSorted
  <2>1. CASE j <= Len(q)
    BY <2>1, <1>4 DEF QueueOrder, EpochsSorted
  <2>2. CASE j > Len(q)
    BY <2>2, <1>2, <1>4, <1>5
  <2>3. QED
    BY <2>1, <2>2
<1>7. QED
  BY <1>5, <1>6 DEF QueueOrder, EpochsUpTo, EpochsFrom

(* Taking the head: the rest is ordered and no older than the head, which *)
(* is no newer than session n.                                            *)
LEMMA TailOrder ==
  ASSUME NEW q \in Seq(LpqType), q # <<>>, NEW n \in Nat, NEW m \in Nat,
         QueueOrder(q, n, m)
  PROVE  /\ QueueOrder(Tail(q), n, Head(q).epoch)
         /\ Head(q).epoch <= n
<1>1. /\ Len(Tail(q)) = Len(q) - 1
      /\ \A i \in 1..Len(Tail(q)) : Tail(q)[i] = q[i + 1]
      /\ Len(q) >= 1
  BY HeadTailProperties, EmptySeq
<1>2. Head(q) = q[1]
  OBVIOUS
<1>3. \A i \in 1..Len(q) : q[i].epoch \in Nat
  BY EntryEpochs
<1>4. QED
  BY <1>1, <1>2, <1>3 DEF QueueOrder, EpochsUpTo, EpochsSorted, EpochsFrom

(* A newer session number bounds the same entries. *)
LEMMA RaiseOrder ==
  ASSUME NEW q \in Seq(LpqType), NEW n \in Nat, NEW m \in Nat,
         QueueOrder(q, n, m)
  PROVE  QueueOrder(q, n + 1, m)
<1>1. \A i \in 1..Len(q) : q[i].epoch \in Nat
  BY EntryEpochs
<1>2. QED
  BY <1>1 DEF QueueOrder, EpochsUpTo, EpochsSorted, EpochsFrom
-----------------------------------------------------------------------------
(* The queue changes in three ways: an entry of the current session is    *)
(* appended, BLOCKED and SESSION_IDLE are appended together, or nothing   *)
(* changes; the session number and the low-priority context's session    *)
(* stay.  Each keeps the order.                                            *)
LEMMA KeepOrder ==
  ASSUME TypeOK, DeferredInSessionOrder,
         epoch' = epoch, lp'.epoch = lp.epoch,
         \/ lpq' = lpq
         \/ \E s \in DeferredSignals : lpq' = Append(lpq, Entry(s))
         \/ lpq' = lpq \o <<Entry(TIMESLOT_SIGNAL_BLOCKED),
                            Entry(TIMESLOT_SIGNAL_SESSION_IDLE)>>
  PROVE  DeferredInSessionOrder'
<1>1. /\ QueueOrder(lpq, epoch, lp.epoch) /\ lp.epoch <= epoch
      /\ lpq \in Seq(LpqType) /\ epoch \in Nat /\ lp.epoch \in Nat
  BY OrderDef, ConstFacts DEF TypeOK, LpqType
<1>2. \A s \in DeferredSignals : Entry(s) \in LpqType /\ Entry(s).epoch = epoch
  BY EntryType, ConstFacts DEF TypeOK, Entry
<1>3. QueueOrder(lpq', epoch', lp'.epoch)
  <2>1. CASE lpq' = lpq
    BY <1>1, <2>1
  <2>2. CASE \E s \in DeferredSignals : lpq' = Append(lpq, Entry(s))
    BY <1>1, <1>2, <2>2, AppendOrder
  <2>3. CASE lpq' = lpq \o <<Entry(TIMESLOT_SIGNAL_BLOCKED),
                            Entry(TIMESLOT_SIGNAL_SESSION_IDLE)>>
    <3>1. {TIMESLOT_SIGNAL_BLOCKED, TIMESLOT_SIGNAL_SESSION_IDLE}
            \subseteq DeferredSignals
      BY DEF DeferredSignals
    <3>2. QED
      BY <1>1, <1>2, <2>3, <3>1, ConcatOrder
  <2>4. QED
    BY <2>1, <2>2, <2>3
<1>4. QED
  BY <1>1, <1>3 DEF DeferredInSessionOrder, QueueOrder, EpochsUpTo,
     EpochsSorted, EpochsFrom

(* Setting a context's signal keeps the low-priority context's session. *)
LEMMA SetSigEpoch ==
  ASSUME NEW ctx, NEW s, lp \in LpType, SetSig(ctx, s)
  PROVE  lp'.epoch = lp.epoch
BY DEF SetSig, LpType

(* What a callback return does to the queue: SESSION_IDLE is appended when *)
(* a timeslot ends (END, or an invalid return inside it), and otherwise   *)
(* the queue stays.                                                        *)
LEMMA ReturnQueue ==
  ASSUME TypeOK, NEW ctx \in {"hp", "lp"}, NEW a \in Returns, Return(ctx, a)
  PROVE  /\ epoch' = epoch /\ lp'.epoch = lp.epoch
         /\ \/ lpq' = lpq
            \/ lpq' = Append(lpq, Entry(TIMESLOT_SIGNAL_SESSION_IDLE))
<1>1. a.callback_action \in Nat
  BY ReturnsFacts
<1>2. lp \in LpType
  BY DEF TypeOK, LpType
<1>3. CASE ~ValidReturn(a)
  <2>1. ReturnInvalid(ctx)
    BY <1>3 DEF Return
  <2>2. QED
    BY <2>1, <1>2, SetSigEpoch DEF ReturnInvalid
<1>4. CASE ValidReturn(a) /\ a.callback_action = TIMESLOT_SIGNAL_ACTION_NONE
  <2>1. SetSig(ctx, NO_SIGNAL) /\ UNCHANGED <<epoch, lpq>>
    BY <1>1, <1>4 DEF Return, TIMESLOT_SIGNAL_ACTION_NONE,
       TIMESLOT_SIGNAL_ACTION_EXTEND, TIMESLOT_SIGNAL_ACTION_END
  <2>2. QED
    BY <2>1, <1>2, SetSigEpoch
<1>5. CASE ValidReturn(a) /\ a.callback_action = TIMESLOT_SIGNAL_ACTION_EXTEND
  <2>1. ReturnExtend(ctx, a.length_us)
    BY <1>1, <1>5 DEF Return, TIMESLOT_SIGNAL_ACTION_NONE,
       TIMESLOT_SIGNAL_ACTION_EXTEND, TIMESLOT_SIGNAL_ACTION_END
  <2>2. UNCHANGED <<epoch, lpq>>
    BY <2>1 DEF ReturnExtend
  <2>3. \E s : SetSig(ctx, s)
    BY <2>1 DEF ReturnExtend
  <2>4. QED
    BY <2>2, <2>3, <1>2, SetSigEpoch
<1>6. CASE ValidReturn(a) /\ a.callback_action = TIMESLOT_SIGNAL_ACTION_END
  <2>1. /\ SetSig(ctx, NO_SIGNAL) /\ epoch' = epoch
        /\ lpq' = Append(lpq, Entry(TIMESLOT_SIGNAL_SESSION_IDLE))
    BY <1>1, <1>6 DEF Return, TIMESLOT_SIGNAL_ACTION_NONE,
       TIMESLOT_SIGNAL_ACTION_EXTEND, TIMESLOT_SIGNAL_ACTION_END
  <2>2. QED
    BY <2>1, <1>2, SetSigEpoch
<1>7. CASE /\ ValidReturn(a)
           /\ a.callback_action \notin {TIMESLOT_SIGNAL_ACTION_NONE,
                TIMESLOT_SIGNAL_ACTION_EXTEND, TIMESLOT_SIGNAL_ACTION_END}
  <2>1. SetSig(ctx, NO_SIGNAL) /\ UNCHANGED <<epoch, lpq>>
    BY <1>7 DEF Return
  <2>2. QED
    BY <2>1, <1>2, SetSigEpoch
<1>8. QED
  BY <1>3, <1>4, <1>5, <1>6, <1>7
(* ble_controller_low_prio_tasks_process hands the oldest entry to the    *)
(* callback, or drops it with no session open: what waits is no older.    *)
LEMMA LowPrioOrder ==
  ASSUME TypeOK, DeferredInSessionOrder, LowPrioProcess
  PROVE  DeferredInSessionOrder'
<1>0. /\ lpq # <<>>
      /\ lp' = IF session = "Closed" THEN NoEntry ELSE Head(lpq)
      /\ lpq' = Tail(lpq) /\ epoch' = epoch
  BY DEF LowPrioProcess
<1>1. /\ QueueOrder(lpq, epoch, lp.epoch)
      /\ lpq \in Seq(LpqType) /\ epoch \in Nat /\ lp.epoch \in Nat
  BY OrderDef, ConstFacts DEF TypeOK, LpqType
<1>2. /\ QueueOrder(Tail(lpq), epoch, Head(lpq).epoch)
      /\ Head(lpq).epoch <= epoch
  BY <1>0, <1>1, TailOrder
<1>3. CASE session = "Closed"
  <2>1. lp'.epoch = 0
    BY <1>0, <1>3 DEF NoEntry
  <2>2. QueueOrder(Tail(lpq), epoch, 0)
    <3>1. Tail(lpq) \in Seq(LpqType)
      BY <1>0, <1>1, HeadTailProperties
    <3>2. \A i \in 1..Len(Tail(lpq)) : Tail(lpq)[i].epoch \in Nat
      BY <3>1, EntryEpochs
    <3>3. QED
      BY <1>2, <3>2 DEF QueueOrder, EpochsUpTo, EpochsSorted, EpochsFrom
  <2>3. QED
    BY <1>0, <1>1, <2>1, <2>2 DEF DeferredInSessionOrder, QueueOrder,
       EpochsUpTo, EpochsSorted, EpochsFrom
<1>4. CASE session # "Closed"
  <2>1. lp'.epoch = Head(lpq).epoch
    BY <1>0, <1>4
  <2>2. QED
    BY <1>0, <1>2, <2>1 DEF DeferredInSessionOrder, QueueOrder,
       EpochsUpTo, EpochsSorted, EpochsFrom
<1>5. QED
  BY <1>3, <1>4

(* A session open gives the next session number; nothing queued or       *)
(* running belongs to it yet.                                              *)
LEMMA OpenOrder ==
  ASSUME TypeOK, DeferredInSessionOrder, SessionOpen
  PROVE  DeferredInSessionOrder'
<1>1. /\ QueueOrder(lpq, epoch, lp.epoch) /\ lp.epoch <= epoch
      /\ lpq \in Seq(LpqType) /\ epoch \in Nat /\ lp.epoch \in Nat
  BY OrderDef, ConstFacts DEF TypeOK, LpqType
<1>2. CASE epoch' = epoch + 1 /\ UNCHANGED <<lp, lpq>>
  <2>1. QueueOrder(lpq, epoch + 1, lp.epoch)
    BY <1>1, RaiseOrder
  <2>2. QED
    BY <1>1, <1>2, <2>1 DEF DeferredInSessionOrder, QueueOrder,
       EpochsUpTo, EpochsSorted, EpochsFrom
<1>3. CASE UNCHANGED <<epoch, lp, lpq>>
  BY <1>3, KeepOrder
<1>4. QED
  BY <1>2, <1>3 DEF SessionOpen

(* Every step keeps the deferred signals in session order. *)
LEMMA NextOrder ==
  ASSUME TypeOK, DeferredInSessionOrder, [Next]_vars
  PROVE  DeferredInSessionOrder'
<1>1. CASE SessionOpen
  BY <1>1, OpenOrder
<1>2. CASE SessionClose
  <2>1. /\ epoch' = epoch /\ lp' = lp
        /\ \/ lpq' = lpq
           \/ lpq' = Append(lpq, Entry(TIMESLOT_SIGNAL_CANCELLED))
    BY <1>2 DEF SessionClose
  <2>2. TIMESLOT_SIGNAL_CANCELLED \in DeferredSignals
    BY DEF DeferredSignals
  <2>3. QED
    BY <2>1, <2>2, KeepOrder
<1>3. CASE Block
  BY <1>3, KeepOrder DEF Block
<1>4. CASE Expire
  <2>1. TIMESLOT_SIGNAL_SESSION_IDLE \in DeferredSignals
    BY DEF DeferredSignals
  <2>2. QED
    BY <1>4, <2>1, KeepOrder DEF Expire
<1>5. CASE \E ctx \in {"hp", "lp"}, a \in Returns : Return(ctx, a)
  <2>1. /\ epoch' = epoch /\ lp'.epoch = lp.epoch
        /\ \/ lpq' = lpq
           \/ lpq' = Append(lpq, Entry(TIMESLOT_SIGNAL_SESSION_IDLE))
    BY <1>5, ReturnQueue
  <2>2. TIMESLOT_SIGNAL_SESSION_IDLE \in DeferredSignals
    BY DEF DeferredSignals
  <2>3. QED
    BY <2>1, <2>2, KeepOrder
<1>6. CASE LowPrioProcess
  BY <1>6, LowPrioOrder
<1>7. CASE \/ \E r \in Requests : TimeslotRequest(r)
           \/ Start \/ Tick \/ HfxoStarted
           \/ \E s \in {TIMESLOT_SIGNAL_TIMER0, TIMESLOT_SIGNAL_RADIO} : SlotIrq(s)
           \/ BleSchedule \/ BleStart \/ BleEnd
           \/ UNCHANGED vars
  <2>1. UNCHANGED <<epoch, lp, lpq>>
    BY <1>7 DEF TimeslotRequest, Start, Tick, HfxoStarted, SlotIrq,
       BleSchedule, BleStart, BleEnd, vars
  <2>2. QED
    BY <2>1, KeepOrder
<1>8. QED
  BY <1>1, <1>2, <1>3, <1>4, <1>5, <1>6, <1>7 DEF Next

(* Deferred BLOCKED, CANCELLED and SESSION_IDLE reach the low-priority    *)
(* callback in the order of the sessions that caused them, whatever the   *)
(* interleaving of closes, reopens, blocks and low-priority processing.   *)
THEOREM DeferredInSessionOrderHolds == Spec => []DeferredInSessionOrder
<1>1. Init => DeferredInSessionOrder
  BY DEF Init, DeferredInSessionOrder, NoEntry
<1>2. TypeOK /\ DeferredInSessionOrder /\ [Next]_vars => DeferredInSessionOrder'
  BY NextOrder
<1>3. QED
  BY <1>1, <1>2, TypeCorrect, PTL DEF Spec
=============================================================================
