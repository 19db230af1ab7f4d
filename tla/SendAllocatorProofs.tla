-------------------------- MODULE SendAllocatorProofs -------------------------
(***************************************************************************)
(* For any threads and any number of datagrams in flight: every buffer has *)
(* one owner, none is lost, the count is the length of the free list, and  *)
(* none is made while one is free.                                         *)
(***************************************************************************)
EXTENDS SendAllocator, SequenceTheorems, FiniteSetTheorems, TLAPS

(* Who holds a buffer, by where it is.                                     *)
HoldInv ==
  /\ \A t \in Threads : pc[t] \in {"writing", "freeing"} => buffer[t] # NoBuffer
  /\ \A t \in Threads : pc[t] \in {"allocating", "locking", "ended"} => buffer[t] = NoBuffer
  /\ \A t \in Threads \ {Sender} : pc[t] = "out" => buffer[t] = NoBuffer
  /\ pc[Sender] = "out" => buffer[Sender] # NoBuffer
  /\ pc[Sender] # "freeing"

(* The inductive invariant: the owners partition the buffers.              *)
IInv == TypeOK /\ HoldInv /\ OneOwner /\ NoneLost /\ CountIsLength

(* Pushing a buffer that is not in the list.                               *)
LEMMA Push ==
  ASSUME TypeOK, CountIsLength, NEW b \in 1..made, b \notin Pooled, Free(b),
         \A i, j \in DOMAIN pool : pool[i] = pool[j] => i = j
  PROVE  /\ pool' \in Seq(1..made)
         /\ count' \in Nat /\ CountIsLength'
         /\ Pooled' = Pooled \cup {b}
         /\ \A i, j \in DOMAIN pool' : pool'[i] = pool'[j] => i = j
<1>1. pool \in Seq(1..made) /\ pool' = Append(pool, b) /\ count' = count + 1
  BY DEF TypeOK, Free
<1>2. /\ pool' \in Seq(1..made) /\ Len(pool') = Len(pool) + 1
      /\ \A i \in 1..Len(pool) : pool'[i] = pool[i]
      /\ pool'[Len(pool) + 1] = b
      /\ Len(pool) \in Nat
      /\ DOMAIN pool = 1..Len(pool) /\ DOMAIN pool' = 1..(Len(pool) + 1)
  BY <1>1, AppendProperties, LenProperties
<1>3. count' \in Nat /\ CountIsLength'
  BY <1>1, <1>2 DEF CountIsLength
<1>4. Pooled' = Pooled \cup {b}
  <2>1. Pooled' = {pool'[i] : i \in 1..(Len(pool) + 1)}
    BY <1>2 DEF Pooled
  <2>2. 1..(Len(pool) + 1) = 1..Len(pool) \cup {Len(pool) + 1}
    BY <1>2
  <2> QED
    BY <1>2, <2>1, <2>2 DEF Pooled
<1>5. ASSUME NEW i \in DOMAIN pool', NEW j \in DOMAIN pool', pool'[i] = pool'[j]
      PROVE  i = j
  <2>1. \A k \in DOMAIN pool : pool'[k] # b
    BY <1>2 DEF Pooled
  <2> QED
    BY <1>2, <1>5, <2>1
<1> QED
  BY <1>2, <1>3, <1>4, <1>5

(* Popping the last buffer of the list.                                    *)
LEMMA Pop ==
  ASSUME TypeOK, CountIsLength, pool # <<>>,
         pool' = SubSeq(pool, 1, Len(pool) - 1), count' = count - 1,
         \A i, j \in DOMAIN pool : pool[i] = pool[j] => i = j
  PROVE  /\ pool[Len(pool)] \in Pooled /\ Pooled \subseteq 1..made
         /\ pool' \in Seq(1..made)
         /\ count' \in Nat /\ CountIsLength'
         /\ Pooled' = Pooled \ {pool[Len(pool)]}
         /\ \A i, j \in DOMAIN pool' : pool'[i] = pool'[j] => i = j
<1> DEFINE n == Len(pool)
<1>1. /\ pool \in Seq(1..made) /\ n \in Nat \ {0} /\ DOMAIN pool = 1..n
      /\ \A i \in 1..n : pool[i] \in 1..made
  BY EmptySeq, LenProperties, ElementOfSeq DEF TypeOK
<1>2. /\ pool' \in Seq(1..made) /\ Len(pool') = n - 1
      /\ \A i \in 1..(n - 1) : pool'[i] = pool[i]
  BY <1>1, SubSeqProperties
<1>3. DOMAIN pool' = 1..(n - 1)
  BY <1>1, <1>2, LenProperties
<1>4. pool[n] \in Pooled /\ Pooled \subseteq 1..made
  BY <1>1 DEF Pooled
<1>5. count' \in Nat /\ CountIsLength'
  BY <1>1, <1>2 DEF CountIsLength
<1>6. Pooled' = Pooled \ {pool[n]}
  <2>1. Pooled' = {pool[i] : i \in 1..(n - 1)}
    BY <1>2, <1>3 DEF Pooled
  <2>2. 1..n = 1..(n - 1) \cup {n} /\ n \notin 1..(n - 1)
    BY <1>1
  <2>3. \A i \in 1..(n - 1) : pool[i] # pool[n]
    BY <1>1, <2>2
  <2>4. Pooled = {pool[i] : i \in 1..(n - 1)} \cup {pool[n]}
    BY <1>1, <2>2 DEF Pooled
  <2>5. pool[n] \notin {pool[i] : i \in 1..(n - 1)}
    BY <2>3
  <2> QED
    BY <2>1, <2>4, <2>5
<1>7. \A i, j \in DOMAIN pool' : pool'[i] = pool'[j] => i = j
  <2> SUFFICES ASSUME NEW i \in 1..(n - 1), NEW j \in 1..(n - 1), pool'[i] = pool'[j]
               PROVE  i = j
    BY <1>3
  <2>1. i \in DOMAIN pool /\ j \in DOMAIN pool /\ pool[i] = pool[j]
    BY <1>1, <1>2
  <2> QED
    BY <2>1
<1> QED
  BY <1>2, <1>4, <1>5, <1>6, <1>7

(* A new buffer belongs to nobody yet.                                     *)
LEMMA Make ==
  ASSUME IInv, NEW t \in Threads, pc[t] \in {"allocating", "locking"}, MakeBuffer(t),
         UNCHANGED <<answering, flight, gone>>
  PROVE  IInv'
<1> USE DEF NoBuffer
<1>1. made \in Nat /\ made' = made + 1 /\ made' \in Nat /\ 1..made' = 1..made \cup {made'}
      /\ made' \notin 1..made /\ 1..made \subseteq 1..made' /\ made' # 0
  BY DEF IInv, TypeOK, MakeBuffer
<1>2. Pooled' = Pooled /\ Pooled \subseteq 1..made /\ pool' \in Seq(1..made')
  BY <1>1, ElementOfSeq, LenProperties, SeqMonotonic DEF IInv, TypeOK, MakeBuffer, Pooled
<1>3. /\ buffer' = [buffer EXCEPT ![t] = made'] /\ buffer[t] = NoBuffer
      /\ buffer \in [Threads -> 0..made] /\ 0..made \subseteq 0..made' /\ made' \in 0..made'
  BY <1>1 DEF IInv, TypeOK, HoldInv, MakeBuffer
<1>4. Held(t)' = {made'} /\ Held(t) = {} /\ \A u \in Threads \ {t} : Held(u)' = Held(u)
  BY <1>1, <1>3 DEF Held
<1>5. \A u \in Threads : Held(u) \subseteq 1..made
  BY <1>1, <1>3 DEF Held
<1>6. TypeOK'
  BY <1>1, <1>2, <1>3 DEF IInv, TypeOK, MakeBuffer, Place
<1>7. HoldInv'
  BY <1>1, <1>3 DEF IInv, TypeOK, HoldInv, MakeBuffer
<1>8. OneOwner'
  <2>1. flight \subseteq 1..made /\ gone \subseteq 1..made /\ pool' = pool
    BY DEF IInv, TypeOK, MakeBuffer
  <2>2. \A i, j \in DOMAIN pool' : pool'[i] = pool'[j] => i = j
    BY <2>1 DEF IInv, OneOwner
  <2>3. \A u, v \in Threads : u # v => Held(u)' \cap Held(v)' = {}
    BY <1>1, <1>4, <1>5 DEF IInv, OneOwner
  <2>4. \A u \in Threads : Held(u)' \cap (Pooled \cup flight \cup gone) = {}
    BY <1>1, <1>2, <1>4, <2>1 DEF IInv, OneOwner
  <2> QED
    BY <1>2, <2>1, <2>2, <2>3, <2>4 DEF IInv, OneOwner
<1>9. NoneLost'
  <2>1. UNION {Held(u)' : u \in Threads} = {made'} \cup UNION {Held(u) : u \in Threads}
    BY <1>4
  <2> QED
    BY <1>1, <1>2, <2>1 DEF IInv, NoneLost
<1>10. CountIsLength'
  BY DEF IInv, CountIsLength, MakeBuffer
<1> QED
  BY <1>6, <1>7, <1>8, <1>9, <1>10 DEF IInv

(* A buffer taken from the list moves to the thread that takes it.         *)
LEMMA TakeKeeps ==
  ASSUME IInv, NEW t \in Threads, Take(t), pool # <<>>
  PROVE  IInv'
<1> USE DEF NoBuffer
<1> DEFINE b == pool[Len(pool)]
<1>1. /\ pc[t] = "locking" /\ pc' = [pc EXCEPT ![t] = "writing"]
      /\ buffer' = [buffer EXCEPT ![t] = b]
      /\ pool' = SubSeq(pool, 1, Len(pool) - 1) /\ count' = count - 1
      /\ UNCHANGED <<made, answering, flight, gone>>
  BY DEF Take
<1>2. /\ b \in Pooled /\ Pooled \subseteq 1..made /\ pool' \in Seq(1..made)
      /\ count' \in Nat /\ CountIsLength' /\ Pooled' = Pooled \ {b}
      /\ \A i, j \in DOMAIN pool' : pool'[i] = pool'[j] => i = j
  BY <1>1, Pop DEF IInv, OneOwner
<1> HIDE DEF b
<1>3. b \in 1..made /\ b # NoBuffer /\ buffer[t] = NoBuffer /\ made \in Nat
  BY <1>1, <1>2 DEF IInv, TypeOK, HoldInv
<1>4. Held(t)' = {b} /\ Held(t) = {} /\ \A u \in Threads \ {t} : Held(u)' = Held(u)
  BY <1>1, <1>3 DEF Held, IInv, TypeOK
<1>5. TypeOK'
  BY <1>1, <1>2, <1>3 DEF IInv, TypeOK, Place
<1>6. HoldInv'
  BY <1>1, <1>3 DEF IInv, TypeOK, HoldInv
<1>7. OneOwner'
  BY <1>1, <1>2, <1>4 DEF IInv, OneOwner
<1>8. NoneLost'
  <2>1. UNION {Held(u)' : u \in Threads} = {b} \cup UNION {Held(u) : u \in Threads}
    BY <1>4
  <2> QED
    BY <1>1, <1>2, <2>1 DEF IInv, NoneLost
<1> QED
  BY <1>2, <1>5, <1>6, <1>7, <1>8 DEF IInv

(* A buffer that is sent moves from its thread into flight.                *)
LEMMA SendKeeps ==
  ASSUME IInv, NEW t \in Threads, Send(t)
  PROVE  IInv'
<1> USE DEF NoBuffer
<1> DEFINE p == IF Answers(t) THEN "out" ELSE "allocating"
<1>1. /\ pc[t] = "writing" /\ pc' = [pc EXCEPT ![t] = p]
      /\ buffer' = [buffer EXCEPT ![t] = NoBuffer]
      /\ flight' = flight \cup {buffer[t]}
      /\ UNCHANGED <<made, pool, count, gone>>
  BY DEF Send
<1>9. p \in {"out", "allocating"} /\ (p = "out" => t # Sender)
  BY SendAllocatorAssumption DEF Answers
<1>10. answering' \in BOOLEAN
  BY DEF Send
<1> HIDE DEF p
<1>2. buffer[t] \in 1..made /\ made \in Nat
  BY <1>1 DEF IInv, TypeOK, HoldInv
<1>3. /\ Held(t)' = {} /\ Held(t) = {buffer[t]} /\ Pooled' = Pooled
      /\ \A u \in Threads \ {t} : Held(u)' = Held(u)
  BY <1>1, <1>2 DEF Held, Pooled, IInv, TypeOK
<1>4. TypeOK'
  <2>1. 0 \in 0..made /\ 1..made' = 1..made
    BY <1>1, <1>2
  <2>3. flight \subseteq 1..made /\ {buffer[t]} \subseteq 1..made
    BY <1>2 DEF IInv, TypeOK
  <2>4. flight' \subseteq 1..made
    BY <1>1, <2>3
  <2>2. buffer' \in [Threads -> 0..made] /\ pc' \in [Threads -> Place]
    BY <1>1, <1>9, <2>1 DEF IInv, TypeOK, Place
  <2> QED
    BY <1>1, <1>10, <2>1, <2>2, <2>4 DEF IInv, TypeOK
<1>5. HoldInv'
  BY <1>1, <1>9 DEF IInv, TypeOK, HoldInv
<1>6. OneOwner'
  <2>1. \A u, v \in Threads : u # v => Held(u)' \cap Held(v)' = {}
    BY <1>3 DEF IInv, OneOwner
  <2>2. \A u \in Threads : Held(u)' \cap (Pooled \cup flight' \cup gone) = {}
    BY <1>1, <1>3 DEF IInv, OneOwner
  <2>3. Pooled \cap (flight' \cup gone) = {} /\ flight' \cap gone = {}
    BY <1>1, <1>3 DEF IInv, OneOwner
  <2> QED
    BY <1>1, <1>3, <2>1, <2>2, <2>3 DEF IInv, OneOwner
<1>7. NoneLost'
  <2>1. UNION {Held(u) : u \in Threads} = {buffer[t]} \cup UNION {Held(u)' : u \in Threads}
    BY <1>3
  <2> QED
    BY <1>1, <1>3, <2>1 DEF IInv, NoneLost
<1>8. CountIsLength'
  BY <1>1 DEF IInv, CountIsLength
<1> QED
  BY <1>4, <1>5, <1>6, <1>7, <1>8 DEF IInv

(* A buffer that a thread returns moves to the list.                       *)
LEMMA FreeMineKeeps ==
  ASSUME IInv, NEW t \in Threads, FreeMine(t)
  PROVE  IInv'
<1> USE DEF NoBuffer
<1>1. /\ pc[t] = "freeing" /\ pc' = [pc EXCEPT ![t] = "out"] /\ t # Sender
      /\ buffer' = [buffer EXCEPT ![t] = NoBuffer]
      /\ Free(buffer[t])
      /\ UNCHANGED <<made, answering, flight, gone>>
  BY DEF FreeMine, IInv, HoldInv
<1>2. buffer[t] \in 1..made /\ made \in Nat
  BY <1>1 DEF IInv, TypeOK, HoldInv
<1>3. /\ Held(t)' = {} /\ Held(t) = {buffer[t]}
      /\ \A u \in Threads \ {t} : Held(u)' = Held(u)
  BY <1>1, <1>2 DEF Held, IInv, TypeOK
<1>4. buffer[t] \notin Pooled
  BY <1>3 DEF IInv, OneOwner
<1>5. /\ pool' \in Seq(1..made) /\ count' \in Nat /\ CountIsLength'
      /\ Pooled' = Pooled \cup {buffer[t]}
      /\ \A i, j \in DOMAIN pool' : pool'[i] = pool'[j] => i = j
  BY <1>1, <1>2, <1>4, Push DEF IInv, OneOwner
<1>6. TypeOK'
  BY <1>1, <1>2, <1>5 DEF IInv, TypeOK, Place
<1>7. HoldInv'
  BY <1>1 DEF IInv, TypeOK, HoldInv
<1>8. OneOwner'
  <2>1. \A u, v \in Threads : u # v => Held(u)' \cap Held(v)' = {}
    BY <1>3 DEF IInv, OneOwner
  <2>2. \A u \in Threads : Held(u)' \cap (Pooled' \cup flight \cup gone) = {}
    BY <1>3, <1>5 DEF IInv, OneOwner
  <2>3. Pooled' \cap (flight \cup gone) = {} /\ flight \cap gone = {}
    BY <1>3, <1>5 DEF IInv, OneOwner
  <2> QED
    BY <1>1, <1>5, <2>1, <2>2, <2>3 DEF OneOwner
<1>9. NoneLost'
  <2>1. UNION {Held(u) : u \in Threads} = {buffer[t]} \cup UNION {Held(u)' : u \in Threads}
    BY <1>3
  <2> QED
    BY <1>1, <1>5, <2>1 DEF IInv, NoneLost
<1> QED
  BY <1>5, <1>6, <1>7, <1>8, <1>9 DEF IInv

(* The handler of async_send_to moves a buffer from flight to the list.    *)
LEMMA SendDoneKeeps ==
  ASSUME IInv, NEW b \in flight, SendDone(b)
  PROVE  IInv'
<1>1. /\ flight' = flight \ {b} /\ Free(b)
      /\ UNCHANGED <<made, pc, answering, buffer, gone>>
  BY DEF SendDone
<1>2. b \in 1..made /\ b \notin Pooled
  BY DEF IInv, TypeOK, OneOwner
<1>3. /\ pool' \in Seq(1..made) /\ count' \in Nat /\ CountIsLength'
      /\ Pooled' = Pooled \cup {b}
      /\ \A i, j \in DOMAIN pool' : pool'[i] = pool'[j] => i = j
  BY <1>1, <1>2, Push DEF IInv, OneOwner
<1>4. \A u \in Threads : Held(u)' = Held(u)
  BY <1>1 DEF Held
<1>5. TypeOK'
  BY <1>1, <1>3 DEF IInv, TypeOK
<1>6. HoldInv'
  BY <1>1 DEF IInv, HoldInv
<1>7. OneOwner'
  BY <1>1, <1>3, <1>4 DEF IInv, OneOwner
<1>8. NoneLost'
  BY <1>1, <1>3, <1>4 DEF IInv, NoneLost
<1> QED
  BY <1>3, <1>5, <1>6, <1>7, <1>8 DEF IInv

(* A buffer that is destroyed leaves its thread.                           *)
LEMMA DestroyKeeps ==
  ASSUME IInv, NEW t \in Threads, NEW p \in {"out", "ended"},
         pc[t] \in {"out", "writing"}, buffer[t] # NoBuffer,
         pc' = [pc EXCEPT ![t] = p], p = "out" => t # Sender,
         buffer' = [buffer EXCEPT ![t] = NoBuffer],
         gone' = gone \cup {buffer[t]}, answering' \in BOOLEAN,
         UNCHANGED <<made, pool, count, flight>>
  PROVE  IInv'
<1> USE DEF NoBuffer
<1>1. buffer[t] \in 1..made /\ made \in Nat /\ 0 \in 0..made /\ 1..made' = 1..made
  BY DEF IInv, TypeOK
<1>2. /\ Held(t)' = {} /\ Held(t) = {buffer[t]} /\ Pooled' = Pooled
      /\ \A u \in Threads \ {t} : Held(u)' = Held(u)
  BY <1>1 DEF Held, Pooled, IInv, TypeOK
<1>3. TypeOK'
  <2>1. gone' \subseteq 1..made
    <3>1. gone \subseteq 1..made /\ {buffer[t]} \subseteq 1..made
      BY <1>1 DEF IInv, TypeOK
    <3> QED
      BY <3>1
  <2>2. buffer' \in [Threads -> 0..made] /\ pc' \in [Threads -> Place]
    BY <1>1 DEF IInv, TypeOK, Place
  <2> QED
    BY <1>1, <2>1, <2>2 DEF IInv, TypeOK
<1>4. HoldInv'
  BY DEF IInv, TypeOK, HoldInv
<1>5. OneOwner'
  <2>1. \A u, v \in Threads : u # v => Held(u)' \cap Held(v)' = {}
    BY <1>2 DEF IInv, OneOwner
  <2>2. \A u \in Threads : Held(u)' \cap (Pooled \cup flight \cup gone') = {}
    BY <1>2 DEF IInv, OneOwner
  <2>3. Pooled \cap (flight \cup gone') = {} /\ flight \cap gone' = {}
    BY <1>2 DEF IInv, OneOwner
  <2> QED
    BY <1>2, <2>1, <2>2, <2>3 DEF IInv, OneOwner
<1>6. NoneLost'
  <2>1. UNION {Held(u) : u \in Threads} = {buffer[t]} \cup UNION {Held(u)' : u \in Threads}
    BY <1>2
  <2> QED
    BY <1>2, <2>1 DEF IInv, NoneLost
<1>7. CountIsLength'
  BY DEF IInv, CountIsLength
<1> QED
  BY <1>3, <1>4, <1>5, <1>6, <1>7 DEF IInv

(* Steps that only move a thread.                                          *)
LEMMA MoveKeeps ==
  ASSUME IInv, NEW t \in Threads, NEW p \in Place,
         pc' = [pc EXCEPT ![t] = p], HoldInv', answering' \in BOOLEAN,
         UNCHANGED <<made, pool, count, buffer, flight, gone>>
  PROVE  IInv'
<1>1. TypeOK'
  BY DEF IInv, TypeOK
<1>2. OneOwner' /\ NoneLost' /\ CountIsLength'
  BY DEF IInv, OneOwner, NoneLost, CountIsLength, Pooled, Held
<1> QED
  BY <1>1, <1>2 DEF IInv

LEMMA InitIInv == Init => IInv
<1> SUFFICES ASSUME Init PROVE IInv
  OBVIOUS
<1> USE DEF NoBuffer
<1>1. pool = <<>> /\ pool \in Seq(1..made) /\ DOMAIN pool = {} /\ Len(pool) = 0
  BY EmptySeq DEF Init
<1>2. \A t \in Threads : buffer[t] = 0 /\ pc[t] \in {"allocating", "out"}
  BY DEF Init
<1>3. pc[Sender] = "allocating"
  BY SendAllocatorAssumption DEF Init
<1>4. TypeOK
  <2>1. answering \in BOOLEAN
    BY DEF Init
  <2>2. pc \in [Threads -> Place] /\ buffer \in [Threads -> 0..made]
    BY DEF Init, Place
  <2>3. made \in Nat /\ count \in Nat /\ flight \in SUBSET (1..made) /\ gone \in SUBSET (1..made)
    BY DEF Init
  <2> QED
    BY <1>1, <2>1, <2>2, <2>3 DEF TypeOK
<1>5. HoldInv
  BY <1>2, <1>3 DEF Init, HoldInv
<1>6. OneOwner /\ NoneLost /\ CountIsLength
  BY <1>1, <1>2 DEF Init, OneOwner, NoneLost, CountIsLength, Pooled, Held
<1> QED
  BY <1>4, <1>5, <1>6 DEF IInv

LEMMA NextIInv == IInv /\ [Next]_vars => IInv'
<1> SUFFICES ASSUME IInv, [Next]_vars PROVE IInv'
  OBVIOUS
<1>1. ASSUME NEW t \in Threads, Enter(t) PROVE IInv'
  <2> DEFINE p == IF buffer[t] = NoBuffer THEN "allocating" ELSE "writing"
  <2>1. pc' = [pc EXCEPT ![t] = p] /\ UNCHANGED <<made, pool, count, answering, buffer, flight, gone>>
    BY <1>1 DEF Enter
  <2>2. p \in Place /\ HoldInv'
    BY <1>1, <2>1 DEF Enter, IInv, TypeOK, HoldInv, Place
  <2>3. answering' \in BOOLEAN
    BY <2>1 DEF IInv, TypeOK
  <2> QED
    BY <2>1, <2>2, <2>3, MoveKeeps
<1>2. ASSUME NEW t \in Threads, ReadCount(t) PROVE IInv'
  <2>1. CASE MakeBuffer(t)
    BY <1>2, <2>1, Make DEF ReadCount
  <2>2. CASE /\ pc' = [pc EXCEPT ![t] = "locking"]
             /\ UNCHANGED <<made, pool, count, buffer>>
    <3>1. HoldInv'
      BY <1>2, <2>2 DEF ReadCount, IInv, TypeOK, HoldInv
    <3>2. answering' \in BOOLEAN
      BY <1>2 DEF ReadCount, IInv, TypeOK
    <3> QED
      BY <1>2, <2>2, <3>1, <3>2, MoveKeeps DEF ReadCount, Place
  <2> QED
    BY <1>2, <2>1, <2>2 DEF ReadCount
<1>3. ASSUME NEW t \in Threads, Take(t) PROVE IInv'
  <2>1. CASE pool = <<>>
    BY <1>3, <2>1, Make DEF Take
  <2> QED
    BY <1>3, <2>1, TakeKeeps
<1>4. ASSUME NEW t \in Threads, Send(t) PROVE IInv'
  BY <1>4, SendKeeps
<1>5. ASSUME NEW t \in Threads, Leave(t) PROVE IInv'
  <2> DEFINE p == IF t = Sender THEN "out" ELSE "freeing"
  <2>1. /\ pc' = [pc EXCEPT ![t] = p] /\ pc[t] = "writing"
        /\ UNCHANGED <<made, pool, count, answering, buffer, flight, gone>>
    BY <1>5 DEF Leave
  <2>2. p \in Place /\ HoldInv'
    BY <2>1, SendAllocatorAssumption DEF IInv, TypeOK, HoldInv, Place
  <2>3. answering' \in BOOLEAN
    BY <2>1 DEF IInv, TypeOK
  <2> QED
    BY <2>1, <2>2, <2>3, MoveKeeps
<1>6. ASSUME NEW t \in Threads, FreeMine(t) PROVE IInv'
  BY <1>6, FreeMineKeeps
<1>7. ASSUME NEW b \in flight, SendDone(b) PROVE IInv'
  BY <1>7, SendDoneKeeps
<1>8. CASE EnterAnswer
  <2>1. HoldInv'
    BY <1>8, SendAllocatorAssumption DEF EnterAnswer, IInv, TypeOK, HoldInv
  <2> QED
    BY <1>8, <2>1, MoveKeeps, SendAllocatorAssumption DEF EnterAnswer, Place
<1>10. CASE DropAnswer
  <2>1. buffer[Io] # NoBuffer
    BY <1>10, SendAllocatorAssumption DEF DropAnswer, IInv, HoldInv
  <2> QED
    BY <1>10, <2>1, DestroyKeeps, SendAllocatorAssumption DEF DropAnswer
<1>11. CASE SenderEnds
  <2>1. buffer[Sender] # NoBuffer /\ answering' \in BOOLEAN
    BY <1>11 DEF SenderEnds, IInv, HoldInv, TypeOK
  <2> QED
    BY <1>11, <2>1, DestroyKeeps, SendAllocatorAssumption DEF SenderEnds
<1>9. CASE UNCHANGED vars
  BY <1>9 DEF vars, IInv, TypeOK, HoldInv, OneOwner, NoneLost, CountIsLength, Pooled, Held
<1> QED
  BY <1>1, <1>2, <1>3, <1>4, <1>5, <1>6, <1>7, <1>8, <1>9, <1>10, <1>11 DEF Next

-----------------------------------------------------------------------------
(* The allocator keeps its types: the count is never negative.             *)
THEOREM TypeCorrect == Spec => []TypeOK
<1>1. IInv => TypeOK
  BY DEF IInv
<1> QED
  BY <1>1, InitIInv, NextIInv, PTL DEF Spec

(* However the threads interleave, no buffer is written while it is in     *)
(* flight, held by another thread or free.                                 *)
THEOREM ExclusiveBuffers == Spec => []OneOwner
<1>1. IInv => OneOwner
  BY DEF IInv
<1> QED
  BY <1>1, InitIInv, NextIInv, PTL DEF Spec

(* No buffer drops out of circulation.                                     *)
THEOREM BuffersKept == Spec => []NoneLost
<1>1. IInv => NoneLost
  BY DEF IInv
<1> QED
  BY <1>1, InitIInv, NextIInv, PTL DEF Spec

(* The count read without the mutex is exact whenever the mutex is free.   *)
THEOREM CountExact == Spec => []CountIsLength
<1>1. IInv => CountIsLength
  BY DEF IInv
<1> QED
  BY <1>1, InitIInv, NextIInv, PTL DEF Spec

-----------------------------------------------------------------------------
(* The number of buffers.                                                  *)

Bounded == MadeWhenNeeded /\ Cardinality(flight) <= MaxFlight

(* The sets of buffers are finite.                                         *)
LEMMA FiniteParts ==
  ASSUME IInv
  PROVE  /\ IsFiniteSet(flight) /\ Cardinality(flight) \in Nat
         /\ IsFiniteSet(gone) /\ Cardinality(gone) \in Nat
         /\ IsFiniteSet(1..made) /\ Cardinality(1..made) = made
<1>1. made \in Nat /\ flight \in SUBSET (1..made) /\ gone \in SUBSET (1..made)
  BY DEF IInv, TypeOK
<1>2. IsFiniteSet(1..made) /\ Cardinality(1..made) = made
  BY <1>1, FS_Interval
<1> QED
  BY <1>1, <1>2, FS_Subset, FS_CardinalityType

(* With the free list empty and a thread without a buffer, each buffer is  *)
(* in flight, gone or with another thread.                                 *)
LEMMA AllInUse ==
  ASSUME IInv, Bounded, pool = <<>>, NEW t \in Threads, buffer[t] = NoBuffer
  PROVE  made + 1 <= MaxFlight + Cardinality(Threads) + Cardinality(gone)
<1> DEFINE W == {u \in Threads : buffer[u] # NoBuffer}
           H == {buffer[u] : u \in W}
           f == [u \in W |-> buffer[u]]
<1>1. /\ IsFiniteSet(flight) /\ Cardinality(flight) \in Nat
      /\ IsFiniteSet(gone) /\ Cardinality(gone) \in Nat
      /\ Cardinality(1..made) = made
  BY FiniteParts
<1>2. /\ IsFiniteSet(Threads \ {t})
      /\ Cardinality(Threads \ {t}) = Cardinality(Threads) - 1
      /\ Cardinality(Threads) \in Nat
  BY SendAllocatorAssumption, FS_RemoveElement, FS_CardinalityType
<1>3. IsFiniteSet(W) /\ Cardinality(W) <= Cardinality(Threads) - 1
  <2>1. W \in SUBSET (Threads \ {t})
    OBVIOUS
  <2> QED
    BY <1>2, <2>1, FS_Subset
<1>4. IsFiniteSet(H) /\ Cardinality(H) <= Cardinality(W)
  <2>1. f \in Surjection(W, H)
    BY DEF Surjection
  <2> QED
    BY <1>3, <2>1, FS_Surjection
<1>5. 1..made = (flight \cup gone) \cup H
  <2>1. Pooled = {}
    BY DEF Pooled
  <2>2. UNION {Held(u) : u \in Threads} = H
    BY DEF Held
  <2> HIDE DEF H
  <2> QED
    BY <2>1, <2>2 DEF IInv, NoneLost
<1> HIDE DEF W, H, f
<1>6. /\ IsFiniteSet(flight \cup gone)
      /\ Cardinality(flight \cup gone) <= Cardinality(flight) + Cardinality(gone)
  <2>1. Cardinality(flight \cap gone) \in Nat
    BY <1>1, FS_Intersection, FS_CardinalityType
  <2>2. /\ IsFiniteSet(flight \cup gone)
        /\ Cardinality(flight \cup gone)
             = Cardinality(flight) + Cardinality(gone) - Cardinality(flight \cap gone)
    BY <1>1, FS_Union
  <2> QED
    BY <1>1, <2>1, <2>2
<1>7. Cardinality((flight \cup gone) \cup H) <= Cardinality(flight \cup gone) + Cardinality(H)
  <2>1. Cardinality((flight \cup gone) \cap H) \in Nat
    BY <1>6, FS_Intersection, FS_CardinalityType
  <2>2. Cardinality((flight \cup gone) \cup H)
          = Cardinality(flight \cup gone) + Cardinality(H)
              - Cardinality((flight \cup gone) \cap H)
    BY <1>4, <1>6, FS_Union
  <2>3. Cardinality(flight \cup gone) \in Nat /\ Cardinality(H) \in Nat
    BY <1>4, <1>6, FS_CardinalityType
  <2> QED
    BY <2>1, <2>2, <2>3
<1>8. /\ Cardinality(W) \in Nat /\ Cardinality(H) \in Nat
      /\ Cardinality(flight \cup gone) \in Nat
  BY <1>3, <1>4, <1>6, FS_CardinalityType
<1>9. made <= Cardinality(flight \cup gone) + Cardinality(H)
  BY <1>1, <1>5, <1>7
<1>10. MaxFlight \in Nat /\ made \in Nat /\ Cardinality(flight) <= MaxFlight
  BY SendAllocatorAssumption DEF Bounded, IInv, TypeOK
<1> QED
  BY <1>1, <1>2, <1>3, <1>4, <1>6, <1>8, <1>9, <1>10

(* Steps that make no buffer and send none.                                *)
LEMMA NoneMade ==
  ASSUME IInv, Bounded, IInv', made' = made, flight' \subseteq flight, gone \subseteq gone'
  PROVE  Bounded'
<1>1. Cardinality(flight') <= Cardinality(flight) /\ Cardinality(flight') \in Nat
  BY FiniteParts, FS_Subset, FS_CardinalityType
<1>2. IsFiniteSet(gone') /\ Cardinality(gone') \in Nat
  <2>1. made' \in Nat /\ gone' \in SUBSET (1..made')
    BY DEF IInv, TypeOK
  <2>2. IsFiniteSet(1..made')
    BY <2>1, FS_Interval
  <2> QED
    BY <2>1, <2>2, FS_Subset, FS_CardinalityType
<1>3. Cardinality(gone) <= Cardinality(gone') /\ Cardinality(gone) \in Nat
  BY <1>2, FiniteParts, FS_Subset
<1>4. /\ MaxFlight \in Nat /\ made \in Nat /\ Cardinality(Threads) \in Nat
      /\ Cardinality(flight) \in Nat
  BY SendAllocatorAssumption, FiniteParts, FS_CardinalityType DEF IInv, TypeOK
<1> QED
  BY <1>1, <1>2, <1>3, <1>4 DEF Bounded, MadeWhenNeeded

(* A step that makes a buffer makes it while there is none.                *)
LEMMA OneMade ==
  ASSUME IInv, Bounded, pool = <<>>, NEW t \in Threads, buffer[t] = NoBuffer,
         MakeBuffer(t), UNCHANGED <<flight, gone>>
  PROVE  Bounded'
BY AllInUse DEF MakeBuffer, Bounded, MadeWhenNeeded

(* Every step keeps the bound.                                             *)
LEMMA BoundedStep == IInv /\ Bounded /\ [Next]_vars => Bounded'
<1> SUFFICES ASSUME IInv, Bounded, [Next]_vars PROVE Bounded'
  OBVIOUS
<1>0. IInv'
  BY NextIInv
<1>1. ASSUME NEW t \in Threads, Enter(t) \/ Leave(t) \/ FreeMine(t) PROVE Bounded'
  BY <1>0, <1>1, NoneMade DEF Enter, Leave, FreeMine
<1>2. ASSUME NEW t \in Threads, ReadCount(t) PROVE Bounded'
  <2>1. CASE count = 0 /\ MakeBuffer(t)
    <3>1. pool = <<>>
      BY <2>1, EmptySeq DEF IInv, CountIsLength, TypeOK
    <3>2. buffer[t] = NoBuffer
      BY <1>2 DEF ReadCount, IInv, HoldInv
    <3> QED
      BY <1>2, <2>1, <3>1, <3>2, OneMade DEF ReadCount
  <2>2. CASE UNCHANGED <<made, pool, count, buffer>>
    BY <1>0, <1>2, <2>2, NoneMade DEF ReadCount
  <2> QED
    BY <1>2, <2>1, <2>2 DEF ReadCount
<1>3. ASSUME NEW t \in Threads, Take(t) PROVE Bounded'
  <2>1. CASE pool = <<>> /\ MakeBuffer(t)
    <3>1. buffer[t] = NoBuffer
      BY <1>3 DEF Take, IInv, HoldInv
    <3> QED
      BY <1>3, <2>1, <3>1, OneMade DEF Take
  <2>2. CASE UNCHANGED made
    BY <1>0, <1>3, <2>2, NoneMade DEF Take
  <2> QED
    BY <1>3, <2>1, <2>2 DEF Take
<1>4. ASSUME NEW t \in Threads, Send(t) PROVE Bounded'
  <2>1. /\ flight' = flight \cup {buffer[t]} /\ Cardinality(flight) < MaxFlight
        /\ UNCHANGED <<made, gone>>
    BY <1>4 DEF Send
  <2>2. IsFiniteSet(flight) /\ Cardinality(flight) \in Nat /\ MaxFlight \in Nat
    BY FiniteParts, SendAllocatorAssumption
  <2>3. Cardinality(flight \cup {buffer[t]})
          = IF buffer[t] \in flight THEN Cardinality(flight) ELSE Cardinality(flight) + 1
    BY <2>2, FS_AddElement
  <2>4. Cardinality(flight \cup {buffer[t]}) <= MaxFlight
    BY <2>1, <2>2, <2>3
  <2>5. Cardinality(flight') <= MaxFlight
    BY <2>1, <2>4
  <2> QED
    BY <2>1, <2>5 DEF Bounded, MadeWhenNeeded
<1>5. ASSUME NEW b \in flight, SendDone(b) PROVE Bounded'
  BY <1>0, <1>5, NoneMade DEF SendDone
<1>6. CASE EnterAnswer \/ DropAnswer \/ SenderEnds
  BY <1>0, <1>6, NoneMade DEF EnterAnswer, DropAnswer, SenderEnds
<1>7. CASE UNCHANGED vars
  BY <1>7 DEF vars, Bounded, MadeWhenNeeded
<1> QED
  BY <1>1, <1>2, <1>3, <1>4, <1>5, <1>6, <1>7 DEF Next

(* Although the count is read without the mutex, the buffers never number  *)
(* more than the peak of the datagrams in flight and one for each thread.  *)
THEOREM NoneInVain == Spec => []MadeWhenNeeded
<1>1. Init => Bounded
  <2> SUFFICES ASSUME Init PROVE Bounded
    OBVIOUS
  <2>1. made = 0 /\ Cardinality(flight) = 0 /\ Cardinality(gone) = 0
    BY FS_EmptySet DEF Init
  <2>2. Cardinality(Threads) \in Nat /\ MaxFlight \in Nat
    BY SendAllocatorAssumption, FS_CardinalityType
  <2> QED
    BY <2>1, <2>2 DEF Bounded, MadeWhenNeeded
<1>2. Bounded => MadeWhenNeeded
  BY DEF Bounded
<1> QED
  BY <1>1, <1>2, InitIInv, NextIInv, BoundedStep, PTL DEF Spec
-----------------------------------------------------------------------------
(* Refinement.                                                             *)

(* A change of one thread's buffer is a change of what that user holds.    *)
LEMMA HeldMoves ==
  ASSUME IInv, NEW t \in Threads, NEW b, buffer' = [buffer EXCEPT ![t] = b]
  PROVE  AllHeld' = [AllHeld EXCEPT ![t] = {b} \ {NoBuffer}]
<1>1. \A u \in Threads : AllHeld'[u] = IF u = t THEN {b} \ {NoBuffer} ELSE AllHeld[u]
  BY DEF AllHeld, Held, IInv, TypeOK
<1>2. AllHeld' = [u \in Threads |-> AllHeld'[u]]
  BY DEF AllHeld
<1>3. [AllHeld EXCEPT ![t] = {b} \ {NoBuffer}]
        = [u \in Threads |-> IF u = t THEN {b} \ {NoBuffer} ELSE AllHeld[u]]
  BY DEF AllHeld
<1> QED
  BY <1>1, <1>2, <1>3

(* What a thread holds, by where it is.                                    *)
LEMMA WhatIsHeld ==
  ASSUME IInv, NEW t \in Threads
  PROVE  /\ buffer[t] = NoBuffer => AllHeld[t] = {}
         /\ buffer[t] # NoBuffer => AllHeld[t] = {buffer[t]} /\ AllHeld[t] # {}
         /\ pc[t] \in {"allocating", "locking"} => buffer[t] = NoBuffer
         /\ pc[t] \in {"writing", "freeing"} => buffer[t] # NoBuffer
         /\ t = Sender /\ pc[t] = "out" => buffer[t] # NoBuffer
BY DEF AllHeld, Held, IInv, HoldInv

(* A buffer that is made is acquired while none is free.                   *)
LEMMA MakeIsAcquire ==
  ASSUME IInv, NEW t \in Threads, pc[t] \in {"allocating", "locking"},
         pool = <<>>, MakeBuffer(t), UNCHANGED <<flight, gone>>
  PROVE  Pool!Next
<1>1. Pooled = {} /\ Pooled' = {}
  BY DEF Pooled, MakeBuffer
<1>2. made \in Nat /\ made' = made + 1 /\ made' # NoBuffer
  BY DEF MakeBuffer, IInv, TypeOK, NoBuffer
<1>3. AllHeld' = [AllHeld EXCEPT ![t] = {made'}]
  <2> DEFINE b == made'
  <2>1. buffer' = [buffer EXCEPT ![t] = b]
    BY DEF MakeBuffer
  <2>2. {b} \ {NoBuffer} = {b}
    BY <1>2
  <2> HIDE DEF b
  <2>3. AllHeld' = [AllHeld EXCEPT ![t] = {b}]
    BY <2>1, <2>2, HeldMoves
  <2> QED
    BY <2>3 DEF b
<1>4. Pool!Acquire(t)
  BY <1>1, <1>2, <1>3, WhatIsHeld DEF Pool!Acquire
<1> QED
  BY <1>4 DEF Pool!Next

(* Every step of the allocator and its users is a step of the pool, or     *)
(* invisible: the read of the count that finds a buffer is.                *)
LEMMA PoolSteps == IInv /\ [Next]_vars => [Pool!Next]_(Pool!vars)
<1> SUFFICES ASSUME IInv, [Next]_vars PROVE [Pool!Next]_(Pool!vars)
  OBVIOUS
<1>1. ASSUME UNCHANGED <<made, pool, buffer, flight, gone>> PROVE UNCHANGED Pool!vars
  BY <1>1 DEF Pool!vars, Pooled, AllHeld, Held
<1>2. ASSUME NEW t \in Threads, Enter(t) \/ Leave(t) PROVE UNCHANGED Pool!vars
  BY <1>1, <1>2 DEF Enter, Leave
<1>3. ASSUME NEW t \in Threads, ReadCount(t) PROVE [Pool!Next]_(Pool!vars)
  <2>1. CASE count = 0 /\ MakeBuffer(t)
    <3>1. pool = <<>>
      BY <2>1, EmptySeq DEF IInv, CountIsLength, TypeOK
    <3> QED
      BY <1>3, <2>1, <3>1, MakeIsAcquire DEF ReadCount
  <2>2. CASE UNCHANGED <<made, pool, count, buffer>>
    BY <1>1, <1>3, <2>2 DEF ReadCount
  <2> QED
    BY <1>3, <2>1, <2>2 DEF ReadCount
<1>4. ASSUME NEW t \in Threads, Take(t) PROVE Pool!Next
  <2>1. CASE pool = <<>>
    BY <1>4, <2>1, MakeIsAcquire DEF Take
  <2>2. CASE pool # <<>>
    <3> DEFINE b == pool[Len(pool)]
    <3>1. /\ pc[t] = "locking" /\ buffer' = [buffer EXCEPT ![t] = b]
          /\ UNCHANGED <<made, flight, gone>>
      BY <1>4, <2>2 DEF Take
    <3>2. b \in Pooled /\ Pooled \subseteq 1..made /\ Pooled' = Pooled \ {b}
      BY <1>4, <2>2, Pop DEF Take, IInv, OneOwner
    <3> HIDE DEF b
    <3>3. {b} \ {NoBuffer} = {b}
      BY <3>2 DEF IInv, TypeOK, NoBuffer
    <3>4. AllHeld' = [AllHeld EXCEPT ![t] = {b}]
      BY <3>1, <3>3, HeldMoves
    <3>5. Pool!Acquire(t)
      BY <3>1, <3>2, <3>4, WhatIsHeld DEF Pool!Acquire
    <3> QED
      BY <3>5 DEF Pool!Next
  <2> QED
    BY <2>1, <2>2
<1>5. ASSUME NEW t \in Threads, buffer[t] # NoBuffer,
             buffer' = [buffer EXCEPT ![t] = NoBuffer], made' = made,
             \/ flight' = flight \cup {buffer[t]} /\ UNCHANGED <<pool, gone>>
             \/ Pooled' = Pooled \cup {buffer[t]} /\ UNCHANGED <<flight, gone>>
             \/ gone' = gone \cup {buffer[t]} /\ UNCHANGED <<pool, flight>>
      PROVE  Pool!Next
  <2>1. AllHeld[t] = {buffer[t]} /\ AllHeld[t] # {}
    BY <1>5, WhatIsHeld
  <2>2. AllHeld' = [AllHeld EXCEPT ![t] = {}]
    <3>1. {NoBuffer} \ {NoBuffer} = {}
      OBVIOUS
    <3> QED
      BY <1>5, <3>1, HeldMoves
  <2>3. pool' = pool => Pooled' = Pooled
    BY DEF Pooled
  <2>4. Pool!GiveUp(t)
    BY <1>5, <2>1, <2>2 DEF Pool!GiveUp
  <2>5. Pool!Submit(t) \/ Pool!Release(t) \/ Pool!Drop(t)
    BY <1>5, <2>1, <2>3, <2>4 DEF Pool!Submit, Pool!Release, Pool!Drop
  <2> QED
    BY <2>5 DEF Pool!Next
<1>6. ASSUME NEW t \in Threads, Send(t) PROVE Pool!Next
  BY <1>5, <1>6, WhatIsHeld DEF Send
<1>7. ASSUME NEW t \in Threads, FreeMine(t) PROVE Pool!Next
  <2>1. buffer[t] # NoBuffer /\ Free(buffer[t])
    BY <1>7, WhatIsHeld DEF FreeMine
  <2>2. buffer[t] \in 1..made /\ buffer[t] \notin Pooled
    BY <2>1 DEF IInv, TypeOK, OneOwner, Held, NoBuffer
  <2>3. Pooled' = Pooled \cup {buffer[t]}
    BY <2>1, <2>2, Push DEF IInv, OneOwner
  <2> QED
    BY <1>5, <1>7, <2>1, <2>3 DEF FreeMine
<1>8. ASSUME NEW b \in flight, SendDone(b) PROVE Pool!Next
  <2>1. b \in 1..made /\ b \notin Pooled
    BY DEF IInv, TypeOK, OneOwner
  <2>2. Pooled' = Pooled \cup {b}
    BY <1>8, <2>1, Push DEF SendDone, IInv, OneOwner
  <2>3. AllHeld' = AllHeld
    BY <1>8 DEF SendDone, AllHeld, Held
  <2>4. Pool!Sent(b)
    BY <1>8, <2>2, <2>3 DEF SendDone, Pool!Sent
  <2> QED
    BY <2>4 DEF Pool!Next
<1>9. CASE EnterAnswer
  BY <1>1, <1>9 DEF EnterAnswer
<1>10. CASE DropAnswer
  <2>1. Io \in Threads /\ buffer[Io] # NoBuffer
    BY <1>10, WhatIsHeld, SendAllocatorAssumption DEF DropAnswer
  <2> QED
    BY <1>5, <1>10, <2>1 DEF DropAnswer
<1>11. CASE SenderEnds
  <2>1. Sender \in Threads /\ buffer[Sender] # NoBuffer
    BY <1>11, WhatIsHeld, SendAllocatorAssumption DEF SenderEnds
  <2> QED
    BY <1>5, <1>11, <2>1 DEF SenderEnds
<1>12. CASE UNCHANGED vars
  BY <1>1, <1>12 DEF vars
<1> QED
  BY <1>2, <1>3, <1>4, <1>6, <1>7, <1>8, <1>9, <1>10, <1>11, <1>12 DEF Next

(* For any threads the allocator with its unlocked test is the pool.       *)
THEOREM AllocatorIsPool == Spec => ImplementsPool
<1>1. Init => Pool!Init
  <2> SUFFICES ASSUME Init PROVE Pool!Init
    OBVIOUS
  <2>1. Pooled = {} /\ AllHeld = [t \in Threads |-> {}]
    BY DEF Init, Pooled, AllHeld, Held
  <2> QED
    BY <2>1 DEF Init, Pool!Init
<1> QED
  BY <1>1, InitIInv, NextIInv, PoolSteps, PTL DEF Spec, ImplementsPool, Pool!Spec
=============================================================================
