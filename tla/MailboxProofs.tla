---------------------------- MODULE MailboxProofs -----------------------------
(***************************************************************************)
(* For any number of pollers and posts: the mailbox is type correct, loses *)
(* no wakeup, delivers each event once and in order, and implements the    *)
(* event queue.                                                            *)
(***************************************************************************)
EXTENDS Mailbox, SequenceTheorems, TLAPS

(* The initial state is type correct.                                      *)
LEMMA InitType == Init => TypeOK
<1> SUFFICES ASSUME Init PROVE TypeOK
  OBVIOUS
<1>1. <<>> \in EventSeq
  BY EmptySeq DEF EventSeq
<1>2. batch \in [Pollers -> EventSeq] /\ log \in [Pollers -> EventSeq] /\ events \in EventSeq
  BY <1>1 DEF Init
<1>3. \A p \in Pollers : batch[p] = <<>> /\ pc[p] = "out"
  BY DEF Init
<1>4. pc \in [Pollers -> Place]
  BY DEF Init, Place
<1>5. posted \in 0..MaxPosts
  <2>1. posted = 0
    BY DEF Init
  <2> QED
    BY <2>1, MailboxAssumption
<1>7. terminated \in BOOLEAN
  BY DEF Init
<1>6. \A p \in Pollers : batch[p] # <<>> <=> pc[p] = "delivering"
  BY <1>3
<1> QED
  BY <1>2, <1>4, <1>5, <1>6, <1>7 DEF TypeOK

(* notify_one only moves a blocked poller.                                 *)
LEMMA NotifyType ==
  ASSUME TypeOK, NotifyOne
  PROVE  /\ pc' \in [Pollers -> Place]
         /\ \A p \in Pollers : pc'[p] = "delivering" <=> pc[p] = "delivering"
         /\ \A p \in Pollers : pc'[p] = "waiting" => pc[p] = "waiting"
         /\ Waiting # {} => \E p \in Pollers : pc'[p] = "woken"
BY DEF NotifyOne, Waiting, TypeOK, Place

(* Leaving the wait keeps events and batches well formed.                  *)
LEMMA LeaveWaitType ==
  ASSUME TypeOK, NEW p \in Pollers, pc[p] # "delivering", LeaveWait(p),
         UNCHANGED <<posted, terminated, log>>
  PROVE  TypeOK'
<1>1. <<>> \in EventSeq
  BY EmptySeq DEF EventSeq
<1>2. batch[p] = <<>>
  BY DEF TypeOK
<1>3. CASE /\ pc' = [pc EXCEPT ![p] = "out"]
           /\ UNCHANGED <<events, batch>>
  BY <1>2, <1>3 DEF TypeOK, EventSeq, Place
<1>4. CASE /\ events # <<>>
           /\ pc' = [pc EXCEPT ![p] = "delivering"]
           /\ batch' = [batch EXCEPT ![p] = events]
           /\ events' = <<>>
  BY <1>1, <1>4 DEF TypeOK, EventSeq, Place
<1> QED
  BY <1>3, <1>4 DEF LeaveWait

(* Every step keeps the types.                                             *)
LEMMA NextType == TypeOK /\ [Next]_vars => TypeOK'
<1> SUFFICES ASSUME TypeOK, [Next]_vars PROVE TypeOK'
  OBVIOUS
<1>1. CASE Post
  <2>1. posted' = posted + 1 /\ posted \in Nat /\ posted' \in 0..MaxPosts
    BY <1>1, MailboxAssumption DEF Post, TypeOK
  <2>2. 1..posted \subseteq 1..posted' /\ posted' \in 1..posted'
    BY <2>1
  <2>3. \A q \in EventSeq : q \in Seq(1..posted')
    BY <2>2, SeqMonotonic DEF EventSeq
  <2>4. events' \in Seq(1..posted')
    BY <1>1, <2>2, <2>3, AppendProperties DEF Post, TypeOK
  <2>5. pc' \in [Pollers -> Place]
        /\ \A p \in Pollers : pc'[p] = "delivering" <=> pc[p] = "delivering"
    BY <1>1, NotifyType DEF Post
  <2>6. batch' \in [Pollers -> Seq(1..posted')] /\ log' \in [Pollers -> Seq(1..posted')]
    BY <1>1, <2>3 DEF Post, TypeOK
  <2> QED
    BY <1>1, <2>1, <2>4, <2>5, <2>6 DEF Post, TypeOK, EventSeq
<1>2. CASE Shutdown
  BY <1>2, NotifyType DEF Shutdown, TypeOK, EventSeq
<1>3. ASSUME NEW p \in Pollers, Look(p) PROVE TypeOK'
  <2>1. CASE LeaveWait(p)
    BY <1>3, <2>1, LeaveWaitType DEF Look
  <2>2. CASE pc' = [pc EXCEPT ![p] = "waiting"] /\ UNCHANGED <<events, batch>>
    BY <1>3, <2>2 DEF Look, TypeOK, EventSeq, Place
  <2> QED
    BY <1>3, <2>1, <2>2 DEF Look
<1>4. ASSUME NEW p \in Pollers, WakeSpuriously(p) \/ TimeOut(p) PROVE TypeOK'
  BY <1>4 DEF WakeSpuriously, TimeOut, TypeOK, EventSeq, Place
<1>5. ASSUME NEW p \in Pollers, LastLook(p) PROVE TypeOK'
  BY <1>5, LeaveWaitType DEF LastLook
<1>6. ASSUME NEW p \in Pollers, Deliver(p) PROVE TypeOK'
  <2>1. batch[p] \in EventSeq /\ batch[p] # <<>> /\ log[p] \in EventSeq
    BY <1>6 DEF Deliver, TypeOK
  <2>2. /\ Head(batch[p]) \in 1..posted /\ Tail(batch[p]) \in EventSeq
        /\ Len(Tail(batch[p])) = Len(batch[p]) - 1 /\ Len(batch[p]) \in Nat
    BY <2>1, HeadTailProperties, LenProperties DEF EventSeq
  <2>3. Tail(batch[p]) = <<>> <=> Len(batch[p]) = 1
    <3>1. Tail(batch[p]) = <<>> <=> Len(Tail(batch[p])) = 0
      BY <2>2, EmptySeq DEF EventSeq
    <3> QED
      BY <2>2, <3>1
  <2>4. Append(log[p], Head(batch[p])) \in EventSeq
    BY <2>1, <2>2, AppendProperties DEF EventSeq
  <2> DEFINE rest == Tail(batch[p])
             more == Append(log[p], Head(batch[p]))
             place == IF Len(batch[p]) = 1 THEN "out" ELSE "delivering"
  <2>5. /\ log' = [log EXCEPT ![p] = more]
        /\ batch' = [batch EXCEPT ![p] = rest]
        /\ pc' = [pc EXCEPT ![p] = place]
        /\ UNCHANGED <<posted, events, terminated>>
    BY <1>6 DEF Deliver
  <2>6. place \in Place /\ (rest # <<>> <=> place = "delivering")
    BY <2>3 DEF Place
  <2> HIDE DEF rest, more, place
  <2> QED
    BY <2>2, <2>4, <2>5, <2>6 DEF TypeOK, EventSeq, rest, more
<1>7. CASE UNCHANGED vars
  BY <1>7 DEF vars, TypeOK, EventSeq
<1> QED
  BY <1>1, <1>2, <1>3, <1>4, <1>5, <1>6, <1>7 DEF Next

(* Events, batches and places of the pollers keep their types.             *)
THEOREM TypeCorrect == Spec => []TypeOK
BY InitType, NextType, PTL DEF Spec

-----------------------------------------------------------------------------
(* Wakeups.                                                                *)

(* While an event waits and a poller is blocked, another will look.        *)
LEMMA WakeupStep == TypeOK /\ NoLostWakeup /\ [Next]_vars => NoLostWakeup'
<1> SUFFICES ASSUME TypeOK, NoLostWakeup, [Next]_vars PROVE NoLostWakeup'
  OBVIOUS
<1>1. CASE Post
  BY <1>1, NotifyType DEF Post, NoLostWakeup, Waiting, NotifyOne, TypeOK
<1>2. CASE Shutdown
  BY <1>2 DEF Shutdown, NoLostWakeup
<1>3. ASSUME NEW p \in Pollers, LeaveWait(p), UNCHANGED terminated PROVE NoLostWakeup'
  BY <1>3 DEF LeaveWait, NoLostWakeup
<1>4. ASSUME NEW p \in Pollers, Look(p) PROVE NoLostWakeup'
  BY <1>3, <1>4 DEF Look, Ready, NoLostWakeup
<1>5. ASSUME NEW p \in Pollers, WakeSpuriously(p) \/ TimeOut(p) PROVE NoLostWakeup'
  BY <1>5 DEF WakeSpuriously, TimeOut, NoLostWakeup, TypeOK
<1>6. ASSUME NEW p \in Pollers, LastLook(p) PROVE NoLostWakeup'
  BY <1>3, <1>6 DEF LastLook
<1>7. ASSUME NEW p \in Pollers, Deliver(p) PROVE NoLostWakeup'
  <2>1. pc[p] = "delivering" /\ pc'[p] \in {"out", "delivering"}
        /\ \A q \in Pollers : q # p => pc'[q] = pc[q]
    BY <1>7 DEF Deliver, TypeOK
  <2> QED
    BY <1>7, <2>1 DEF Deliver, NoLostWakeup, Waiting
<1>8. CASE UNCHANGED vars
  BY <1>8 DEF vars, NoLostWakeup, Waiting
<1> QED
  BY <1>1, <1>2, <1>4, <1>5, <1>6, <1>7, <1>8 DEF Next

(* Post and the predicate of the wait never leave an event with blocked    *)
(* pollers only.                                                           *)
THEOREM WakeupsKept == Spec => []NoLostWakeup
<1>1. Init => NoLostWakeup
  BY DEF Init, NoLostWakeup
<1> QED
  BY <1>1, WakeupStep, TypeCorrect, PTL DEF Spec

-----------------------------------------------------------------------------
(* Delivery.                                                               *)

Before(A, B) == \A x \in A, y \in B : x < y

(* What the log of a poller has had or will have from its batch.           *)
Claimed(p) == EventsOf(log[p]) \cup EventsOf(batch[p])

(* OnceInOrder, part by part: it is inductive in this form.                *)
InParts ==
  /\ Increasing(events)
  /\ \A p \in Pollers :
       /\ Increasing(log[p]) /\ Increasing(batch[p])
       /\ Before(EventsOf(log[p]), EventsOf(batch[p]))
       /\ Before(Claimed(p), EventsOf(events))
  /\ \A p, q \in Pollers : p # q => Claimed(p) \cap Claimed(q) = {}
  /\ EventsOf(events) \cup UNION {Claimed(p) : p \in Pollers} = 1..posted

(* A concatenation has the events of both parts, and is increasing when    *)
(* both are and the first comes before the second.                         *)
LEMMA Concat ==
  ASSUME NEW n \in Nat, NEW s \in Seq(1..n), NEW t \in Seq(1..n)
  PROVE  /\ EventsOf(s \o t) = EventsOf(s) \cup EventsOf(t)
         /\ Increasing(s) /\ Increasing(t) /\ Before(EventsOf(s), EventsOf(t))
              => Increasing(s \o t)
<1>1. /\ s \o t \in Seq(1..n) /\ Len(s \o t) = Len(s) + Len(t)
      /\ \A i \in 1..(Len(s) + Len(t)) :
           (s \o t)[i] = IF i <= Len(s) THEN s[i] ELSE t[i - Len(s)]
  BY ConcatProperties
<1>2. /\ Len(s) \in Nat /\ Len(t) \in Nat
      /\ DOMAIN s = 1..Len(s) /\ DOMAIN t = 1..Len(t)
      /\ DOMAIN (s \o t) = 1..(Len(s) + Len(t))
  BY <1>1, LenProperties
<1> DEFINE st == s \o t
<1>3. /\ \A i \in DOMAIN s : i \in DOMAIN st /\ st[i] = s[i]
      /\ \A i \in DOMAIN t : i + Len(s) \in DOMAIN st /\ st[i + Len(s)] = t[i]
  BY <1>1, <1>2
<1>4. \A i \in DOMAIN st : \/ i \in DOMAIN s /\ st[i] = s[i]
                           \/ i - Len(s) \in DOMAIN t /\ st[i] = t[i - Len(s)]
  BY <1>1, <1>2
<1> HIDE DEF st
<1>5. EventsOf(st) = EventsOf(s) \cup EventsOf(t)
  BY <1>3, <1>4 DEF EventsOf
<1>6. ASSUME Increasing(s), Increasing(t), Before(EventsOf(s), EventsOf(t)),
             NEW i \in DOMAIN st, NEW j \in DOMAIN st, i < j
      PROVE  st[i] < st[j]
  <2>1. CASE j <= Len(s)
    <3>1. i \in DOMAIN s /\ j \in DOMAIN s
      BY <1>1, <1>2, <1>6, <2>1 DEF st
    <3> QED
      BY <1>3, <1>6, <3>1 DEF Increasing
  <2>2. CASE i > Len(s)
    <3>1. i - Len(s) \in DOMAIN t /\ j - Len(s) \in DOMAIN t /\ i - Len(s) < j - Len(s)
      BY <1>1, <1>2, <1>6, <2>2 DEF st
    <3>2. st[i] = t[i - Len(s)] /\ st[j] = t[j - Len(s)]
      BY <1>1, <1>2, <1>6, <2>2 DEF st
    <3> QED
      BY <1>6, <3>1, <3>2 DEF Increasing
  <2>3. CASE i <= Len(s) /\ j > Len(s)
    <3>1. i \in DOMAIN s /\ j - Len(s) \in DOMAIN t
      BY <1>1, <1>2, <1>6, <2>3 DEF st
    <3>2. st[i] = s[i] /\ st[j] = t[j - Len(s)]
      BY <1>1, <1>2, <1>6, <2>3 DEF st
    <3> QED
      BY <1>6, <3>1, <3>2 DEF Before, EventsOf
  <2> QED
    BY <1>1, <1>2, <1>6, <2>1, <2>2, <2>3 DEF st
<1> QED
  BY <1>5, <1>6 DEF Increasing, st

(* A sequence with one more event at its end.                              *)
LEMMA More ==
  ASSUME NEW n \in Nat, NEW s \in Seq(1..n), NEW e \in 1..n
  PROVE  /\ EventsOf(Append(s, e)) = EventsOf(s) \cup {e}
         /\ Increasing(s) /\ Before(EventsOf(s), {e}) => Increasing(Append(s, e))
<1> DEFINE t == Append(s, e)
<1>1. /\ Len(t) = Len(s) + 1 /\ t[Len(s) + 1] = e /\ Len(s) \in Nat
      /\ \A i \in 1..Len(s) : t[i] = s[i]
      /\ DOMAIN s = 1..Len(s) /\ DOMAIN t = 1..(Len(s) + 1)
  BY AppendProperties, LenProperties
<1> HIDE DEF t
<1>2. 1..(Len(s) + 1) = 1..Len(s) \cup {Len(s) + 1}
  BY <1>1
<1>3. EventsOf(t) = EventsOf(s) \cup {e}
  BY <1>1, <1>2 DEF EventsOf
<1>4. ASSUME Increasing(s), Before(EventsOf(s), {e}),
             NEW i \in DOMAIN t, NEW j \in DOMAIN t, i < j
      PROVE  t[i] < t[j]
  <2>1. i \in 1..Len(s) /\ t[i] = s[i]
    BY <1>1, <1>4
  <2>2. CASE j \in 1..Len(s)
    BY <1>1, <1>4, <2>1, <2>2 DEF Increasing
  <2>3. CASE j = Len(s) + 1
    BY <1>1, <1>4, <2>1, <2>3 DEF Before, EventsOf
  <2> QED
    BY <1>1, <2>2, <2>3
<1> QED
  BY <1>3, <1>4 DEF Increasing, t

(* A sequence without its first event.                                     *)
LEMMA Less ==
  ASSUME NEW n \in Nat, NEW s \in Seq(1..n), s # <<>>, Increasing(s)
  PROVE  /\ EventsOf(s) = {Head(s)} \cup EventsOf(Tail(s))
         /\ Increasing(Tail(s)) /\ Before({Head(s)}, EventsOf(Tail(s)))
<1> DEFINE t == Tail(s)
<1>1. /\ Len(s) \in Nat \ {0} /\ Len(t) = Len(s) - 1 /\ t \in Seq(1..n)
      /\ \A i \in 1..Len(t) : t[i] = s[i + 1]
      /\ DOMAIN s = 1..Len(s)
  BY EmptySeq, HeadTailProperties, LenProperties
<1>2. DOMAIN t = 1..(Len(s) - 1) /\ Head(s) = s[1]
  BY <1>1, LenProperties
<1> HIDE DEF t
<1>3. \A i \in DOMAIN t : i \in Nat \ {0} /\ i + 1 \in DOMAIN s /\ t[i] = s[i + 1]
  BY <1>1, <1>2
<1>4. EventsOf(s) = {Head(s)} \cup EventsOf(t)
  <2>1. \A i \in DOMAIN s : s[i] = Head(s) \/ \E k \in DOMAIN t : t[k] = s[i]
    <3> SUFFICES ASSUME NEW i \in DOMAIN s, i # 1 PROVE \E k \in DOMAIN t : t[k] = s[i]
      BY <1>2
    <3> DEFINE k == i - 1
    <3>1. k \in DOMAIN t /\ k + 1 = i
      BY <1>1, <1>2
    <3>2. t[k] = s[i]
      BY <1>3, <3>1
    <3> HIDE DEF k
    <3> QED
      BY <3>1, <3>2
  <2>2. Head(s) \in EventsOf(s)
    <3>1. 1 \in DOMAIN s /\ Head(s) = s[1]
      BY <1>1, <1>2
    <3> QED
      BY <3>1 DEF EventsOf
  <2>3. EventsOf(t) \subseteq EventsOf(s)
    BY <1>3 DEF EventsOf
  <2>4. EventsOf(s) \subseteq {Head(s)} \cup EventsOf(t)
    BY <2>1 DEF EventsOf
  <2> QED
    BY <2>2, <2>3, <2>4
<1>5. ASSUME NEW i \in DOMAIN t, NEW j \in DOMAIN t, i < j PROVE t[i] < t[j]
  <2>1. i + 1 < j + 1
    BY <1>3, <1>5
  <2> QED
    BY <1>3, <2>1 DEF Increasing
<1>6. ASSUME NEW i \in DOMAIN t PROVE Head(s) < t[i]
  <2>1. 1 < i + 1 /\ 1 \in DOMAIN s
    BY <1>1, <1>3
  <2> QED
    BY <1>2, <1>3, <2>1 DEF Increasing
<1> QED
  BY <1>4, <1>5, <1>6 DEF Increasing, Before, EventsOf, t

(* The empty sequence.                                                     *)
LEMMA Empty == EventsOf(<<>>) = {} /\ Increasing(<<>>)
BY DEF EventsOf, Increasing

(* The parts make the whole.                                               *)
LEMMA PartsSuffice == TypeOK /\ InParts => OnceInOrder
<1> SUFFICES ASSUME TypeOK, InParts PROVE OnceInOrder
  OBVIOUS
<1>1. posted \in Nat /\ events \in Seq(1..posted)
  BY MailboxAssumption DEF TypeOK, EventSeq
<1>2. ASSUME NEW p \in Pollers
      PROVE  /\ EventsOf(log[p] \o batch[p]) = Claimed(p)
             /\ Increasing(log[p] \o batch[p] \o events)
  <2>1. log[p] \in Seq(1..posted) /\ batch[p] \in Seq(1..posted)
    BY DEF TypeOK, EventSeq
  <2>2. log[p] \o batch[p] \in Seq(1..posted)
    BY <2>1, ConcatProperties
  <2>3. EventsOf(log[p] \o batch[p]) = Claimed(p)
    BY <1>1, <2>1, Concat DEF Claimed
  <2>4. Increasing(log[p] \o batch[p])
    BY <1>1, <2>1, Concat DEF InParts
  <2>5. Before(EventsOf(log[p] \o batch[p]), EventsOf(events)) /\ Increasing(events)
    BY <2>3 DEF InParts
  <2>6. Increasing((log[p] \o batch[p]) \o events)
    BY <1>1, <2>2, <2>4, <2>5, Concat
  <2>7. (log[p] \o batch[p]) \o events = log[p] \o batch[p] \o events
    OBVIOUS
  <2> QED
    BY <2>3, <2>6, <2>7
<1> QED
  BY <1>2 DEF InParts, OnceInOrder

(* A poller that leaves the wait claims all events, or none.               *)
LEMMA ClaimStep ==
  ASSUME TypeOK, InParts, NEW p \in Pollers, pc[p] # "delivering", LeaveWait(p),
         UNCHANGED <<posted, log>>
  PROVE  InParts'
<1>1. batch[p] = <<>>
  BY DEF TypeOK
<1>2. CASE UNCHANGED <<events, batch>>
  BY <1>2 DEF InParts, Claimed
<1>3. CASE batch' = [batch EXCEPT ![p] = events] /\ events' = <<>>
  <2>1. batch'[p] = events /\ \A q \in Pollers \ {p} : batch'[q] = batch[q]
    BY <1>3 DEF TypeOK
  <2>2. /\ Claimed(p) = EventsOf(log[p])
        /\ Claimed(p)' = EventsOf(log[p]) \cup EventsOf(events)
        /\ \A q \in Pollers \ {p} : Claimed(q)' = Claimed(q)
    BY <1>1, <2>1, Empty DEF Claimed
  <2>3. EventsOf(events') = {} /\ Increasing(events')
    BY <1>3, Empty
  <2>4. \A q \in Pollers : Claimed(q) \cap EventsOf(events) = {}
    <3>1. 1..posted \subseteq Nat
      OBVIOUS
    <3>2. \A x \in EventsOf(events) : x \in Nat
      BY <3>1 DEF InParts
    <3> QED
      BY <3>2 DEF InParts, Before
  <2>5. \A q, r \in Pollers : q # r => Claimed(q)' \cap Claimed(r)' = {}
    BY <2>2, <2>4 DEF InParts
  <2>6. UNION {Claimed(q)' : q \in Pollers}
          = EventsOf(events) \cup UNION {Claimed(q) : q \in Pollers}
    BY <2>2
  <2>7. \A q \in Pollers :
          /\ Increasing(log'[q]) /\ Increasing(batch'[q])
          /\ Before(EventsOf(log'[q]), EventsOf(batch'[q]))
    <3>1. Before(EventsOf(log[p]), EventsOf(events)) /\ Increasing(events)
      BY <2>2 DEF InParts
    <3> QED
      BY <2>1, <3>1 DEF InParts
  <2>8. \A q \in Pollers : Before(Claimed(q)', EventsOf(events'))
    BY <2>3 DEF Before
  <2> QED
    BY <2>3, <2>5, <2>6, <2>7, <2>8 DEF InParts
<1> QED
  BY <1>2, <1>3 DEF LeaveWait

(* Every step keeps the parts in order.                                    *)
LEMMA PartsStep == TypeOK /\ InParts /\ [Next]_vars => InParts'
<1> SUFFICES ASSUME TypeOK, InParts, [Next]_vars PROVE InParts'
  OBVIOUS
<1>0. posted \in Nat /\ events \in Seq(1..posted)
  BY MailboxAssumption DEF TypeOK, EventSeq
<1>1. CASE Post
  <2>1. /\ posted' = posted + 1 /\ posted' \in 1..posted' /\ posted' \in Nat
        /\ 1..posted' = 1..posted \cup {posted'} /\ 1..posted \subseteq 1..posted'
        /\ \A e \in 1..posted : e < posted'
    BY <1>0, <1>1 DEF Post
  <2>2. events \in Seq(1..posted')
    BY <1>0, <2>1, SeqMonotonic
  <2>3. EventsOf(events) \subseteq 1..posted /\ \A p \in Pollers : Claimed(p) \subseteq 1..posted
    BY DEF InParts
  <2>4. events' = Append(events, posted') /\ UNCHANGED <<batch, log>>
    BY <1>1 DEF Post
  <2>5. EventsOf(events') = EventsOf(events) \cup {posted'} /\ Increasing(events')
    BY <2>1, <2>2, <2>3, <2>4, More DEF InParts, Before
  <2>6. \A p \in Pollers : Claimed(p)' = Claimed(p)
    BY <2>4 DEF Claimed
  <2>7. \A p \in Pollers : Before(Claimed(p)', EventsOf(events'))
    BY <2>1, <2>3, <2>5, <2>6 DEF InParts, Before
  <2>8. \A p \in Pollers :
          /\ Increasing(log'[p]) /\ Increasing(batch'[p])
          /\ Before(EventsOf(log'[p]), EventsOf(batch'[p]))
    BY <2>4 DEF InParts
  <2>9. /\ \A p, q \in Pollers : p # q => Claimed(p)' \cap Claimed(q)' = {}
        /\ EventsOf(events') \cup UNION {Claimed(p)' : p \in Pollers} = 1..posted'
    BY <2>1, <2>5, <2>6 DEF InParts
  <2> QED
    BY <2>5, <2>7, <2>8, <2>9 DEF InParts
<1>2. CASE Shutdown
  BY <1>2 DEF Shutdown, InParts, Claimed
<1>3. ASSUME NEW p \in Pollers, Look(p) PROVE InParts'
  <2>1. CASE LeaveWait(p)
    BY <1>3, <2>1, ClaimStep DEF Look
  <2>2. CASE UNCHANGED <<events, batch>>
    BY <1>3, <2>2 DEF Look, InParts, Claimed
  <2> QED
    BY <1>3, <2>1, <2>2 DEF Look
<1>4. ASSUME NEW p \in Pollers, WakeSpuriously(p) \/ TimeOut(p) PROVE InParts'
  BY <1>4 DEF WakeSpuriously, TimeOut, InParts, Claimed
<1>5. ASSUME NEW p \in Pollers, LastLook(p) PROVE InParts'
  BY <1>5, ClaimStep DEF LastLook
<1>6. ASSUME NEW p \in Pollers, Deliver(p) PROVE InParts'
  <2> DEFINE e == Head(batch[p])
             rest == Tail(batch[p])
             more == Append(log[p], Head(batch[p]))
  <2>1. batch[p] \in Seq(1..posted) /\ batch[p] # <<>> /\ log[p] \in Seq(1..posted)
    BY <1>6 DEF Deliver, TypeOK, EventSeq
  <2>2. e \in 1..posted
    BY <2>1, HeadTailProperties
  <2>3. /\ EventsOf(batch[p]) = {e} \cup EventsOf(rest)
        /\ Increasing(rest) /\ Before({e}, EventsOf(rest))
    BY <1>0, <2>1, Less DEF InParts
  <2>4. Before(EventsOf(log[p]), {e})
    BY <2>3 DEF InParts, Before
  <2>5. EventsOf(more) = EventsOf(log[p]) \cup {e} /\ Increasing(more)
    BY <1>0, <2>1, <2>2, <2>4, More DEF InParts
  <2>6. /\ log'[p] = more /\ batch'[p] = rest /\ UNCHANGED <<posted, events>>
        /\ \A q \in Pollers \ {p} : log'[q] = log[q] /\ batch'[q] = batch[q]
    BY <1>6 DEF Deliver, TypeOK
  <2> HIDE DEF e, rest, more
  <2>7. \A q \in Pollers : Claimed(q)' = Claimed(q)
    <3>1. Claimed(p)' = Claimed(p)
      BY <2>3, <2>5, <2>6 DEF Claimed
    <3> QED
      BY <2>6, <3>1 DEF Claimed
  <2>8. Before(EventsOf(more), EventsOf(rest))
    BY <2>3, <2>5 DEF InParts, Before
  <2>9. \A q \in Pollers :
          /\ Increasing(log'[q]) /\ Increasing(batch'[q])
          /\ Before(EventsOf(log'[q]), EventsOf(batch'[q]))
    BY <2>3, <2>5, <2>6, <2>8 DEF InParts
  <2>10. /\ Increasing(events')
         /\ \A q \in Pollers : Before(Claimed(q)', EventsOf(events'))
         /\ \A q, r \in Pollers : q # r => Claimed(q)' \cap Claimed(r)' = {}
         /\ EventsOf(events') \cup UNION {Claimed(q)' : q \in Pollers} = 1..posted'
    BY <2>6, <2>7 DEF InParts
  <2> QED
    BY <2>9, <2>10 DEF InParts
<1>7. CASE UNCHANGED vars
  BY <1>7 DEF vars, InParts, Claimed
<1> QED
  BY <1>1, <1>2, <1>3, <1>4, <1>5, <1>6, <1>7 DEF Next

(* Whichever pollers swap the events out, and whatever comes while they    *)
(* deliver them, each event goes to one callback once, in order.           *)
THEOREM DeliveryCorrect == Spec => []OnceInOrder
<1>1. Init => InParts
  <2> SUFFICES ASSUME Init PROVE InParts
    OBVIOUS
  <2>1. /\ posted = 0 /\ events = <<>>
        /\ \A p \in Pollers : log[p] = <<>> /\ batch[p] = <<>>
    BY DEF Init
  <2>2. 1..posted = {}
    BY <2>1
  <2> QED
    BY <2>1, <2>2, Empty DEF InParts, Claimed, Before
<1> QED
  BY <1>1, PartsStep, PartsSuffice, TypeCorrect, PTL DEF Spec

-----------------------------------------------------------------------------
(* Shutdown.                                                               *)

(* Every step leaves a poller that is not blocked after Shutdown.          *)
LEMMA ShutdownStep ==
  Pollers # {} /\ TypeOK /\ ShutdownFreesOne /\ [Next]_vars => ShutdownFreesOne'
<1> SUFFICES ASSUME Pollers # {}, TypeOK, ShutdownFreesOne, [Next]_vars
             PROVE  ShutdownFreesOne'
  OBVIOUS
<1>1. CASE Post
  BY <1>1 DEF Post, ShutdownFreesOne, NotifyOne, Waiting, TypeOK
<1>2. CASE Shutdown
  BY <1>2 DEF Shutdown, ShutdownFreesOne, NotifyOne, Waiting, TypeOK
<1>3. ASSUME NEW p \in Pollers, pc'[p] \in {"out", "woken", "expired", "delivering"}
      PROVE  ShutdownFreesOne'
  BY <1>3 DEF ShutdownFreesOne, Waiting
<1>4. ASSUME NEW p \in Pollers, LeaveWait(p) PROVE ShutdownFreesOne'
  BY <1>3, <1>4 DEF LeaveWait, TypeOK
<1>5. ASSUME NEW p \in Pollers, Look(p) PROVE ShutdownFreesOne'
  BY <1>4, <1>5 DEF Look, Ready, ShutdownFreesOne
<1>6. ASSUME NEW p \in Pollers, WakeSpuriously(p) \/ TimeOut(p) \/ Deliver(p)
      PROVE  ShutdownFreesOne'
  BY <1>3, <1>6 DEF WakeSpuriously, TimeOut, Deliver, TypeOK
<1>7. ASSUME NEW p \in Pollers, LastLook(p) PROVE ShutdownFreesOne'
  BY <1>4, <1>7 DEF LastLook
<1>8. CASE UNCHANGED vars
  BY <1>8 DEF vars, ShutdownFreesOne, Waiting
<1> QED
  BY <1>1, <1>2, <1>5, <1>6, <1>7, <1>8 DEF Next

(* However many pollers are blocked, Shutdown frees one of them, and from  *)
(* then on they are never all blocked.                                     *)
THEOREM OneIsFreed ==
  ASSUME Pollers # {}
  PROVE  Spec => []ShutdownFreesOne
<1>1. Init => ShutdownFreesOne
  BY DEF Init, ShutdownFreesOne
<1>2. TypeOK /\ ShutdownFreesOne /\ [Next]_vars => ShutdownFreesOne'
  BY ShutdownStep
<1> QED
  BY <1>1, <1>2, TypeCorrect, PTL DEF Spec
-----------------------------------------------------------------------------
(* Refinement.                                                             *)

(* Every step of the mailbox is a step of the event queue or invisible.    *)
LEMMA QueueStep == TypeOK /\ [Next]_vars => [Queue!Next]_Queue!vars
<1> SUFFICES ASSUME TypeOK, [Next]_vars PROVE [Queue!Next]_Queue!vars
  OBVIOUS
<1> USE DEF Queue!Next, Queue!vars
<1>1. CASE Post
  BY <1>1 DEF Post, Queue!Put
<1>2. CASE Shutdown
  BY <1>2 DEF Shutdown, Queue!Close
<1>3. ASSUME NEW p \in Pollers, pc[p] # "delivering", LeaveWait(p),
             UNCHANGED <<posted, terminated, log>>
      PROVE  [Queue!Next]_Queue!vars
  <2>1. batch[p] = <<>>
    BY <1>3 DEF TypeOK
  <2> QED
    BY <1>3, <2>1 DEF LeaveWait, Queue!Claim
<1>4. ASSUME NEW p \in Pollers, Look(p) PROVE [Queue!Next]_Queue!vars
  BY <1>3, <1>4 DEF Look
<1>5. ASSUME NEW p \in Pollers, WakeSpuriously(p) \/ TimeOut(p)
      PROVE  [Queue!Next]_Queue!vars
  BY <1>5 DEF WakeSpuriously, TimeOut
<1>6. ASSUME NEW p \in Pollers, LastLook(p) PROVE [Queue!Next]_Queue!vars
  BY <1>3, <1>6 DEF LastLook
<1>7. ASSUME NEW p \in Pollers, Deliver(p) PROVE [Queue!Next]_Queue!vars
  <2>1. batch[p] # <<>>
    BY <1>7 DEF Deliver, TypeOK
  <2>2. Queue!Handle(p)
    BY <1>7, <2>1 DEF Deliver, Queue!Handle
  <2> QED
    BY <2>2
<1>8. CASE UNCHANGED vars
  BY <1>8 DEF vars
<1> QED
  BY <1>1, <1>2, <1>4, <1>5, <1>6, <1>7, <1>8 DEF Next

(* Behind its lock and condition variable the mailbox is the event queue.  *)
THEOREM MailboxIsQueue == Spec => ImplementsQueue
<1>1. Init => Queue!Init
  BY DEF Init, Queue!Init
<1> QED
  BY <1>1, QueueStep, TypeCorrect, PTL DEF Spec, ImplementsQueue, Queue!Spec
=============================================================================
