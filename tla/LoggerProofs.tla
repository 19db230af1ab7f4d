----------------------------- MODULE LoggerProofs -----------------------------
(***************************************************************************)
(* What holds of Logger for any number of lines.                           *)
(***************************************************************************)
EXTENDS Logger, SequenceTheorems, TLAPS

(* The lines are those logged, in order, wherever they are.                *)
Numbers == written \o LogsToProcess \o LogQueue = [i \in 1..logged |-> i]

IInv == TypeOK /\ Numbers

Numbered(n) == [i \in 1..n |-> i]

LEMMA NumberedSeq ==
  ASSUME NEW n \in Nat
  PROVE  /\ Numbered(n) \in Seq(1..n) /\ Len(Numbered(n)) = n
         /\ Append(Numbered(n), n + 1) = Numbered(n + 1)
<1>1. Numbered(n) \in Seq(1..n) /\ Len(Numbered(n)) = n BY DEF Numbered
<1>2. Numbered(n + 1) \in Seq(1..(n + 1)) /\ Len(Numbered(n + 1)) = n + 1 BY DEF Numbered
<1>3. Numbered(n) \in Seq(1..(n + 1)) BY DEF Numbered
<1>4. Append(Numbered(n), n + 1) \in Seq(1..(n + 1))
      /\ Len(Append(Numbered(n), n + 1)) = n + 1
  BY <1>1, <1>3
<1>5. \A i \in 1..(n + 1) : Append(Numbered(n), n + 1)[i] = Numbered(n + 1)[i]
  <2> SUFFICES ASSUME NEW i \in 1..(n + 1)
               PROVE  Append(Numbered(n), n + 1)[i] = Numbered(n + 1)[i]
    OBVIOUS
  <2>1. CASE i = n + 1 BY <1>1, <2>1 DEF Numbered
  <2>2. CASE i \in 1..n BY <1>1, <2>2 DEF Numbered
  <2>3. i = n + 1 \/ i \in 1..n OBVIOUS
  <2> QED BY <2>1, <2>2, <2>3
<1> QED BY <1>1, <1>2, <1>4, <1>5, SeqEqual

LEMMA SeqWider ==
  ASSUME NEW n \in Nat, NEW s \in Seq(1..n)
  PROVE  s \in Seq(1..(n + 1))
BY \A i \in 1..Len(s) : s[i] \in 1..(n + 1)

LEMMA InvInit == Init => IInv
<1> SUFFICES ASSUME Init PROVE IInv OBVIOUS
<1>1. TypeOK
  <2>1. <<>> \in Seq(1..0) OBVIOUS
  <2>2. logged = 0 /\ logged \in 0..MaxLogs BY LoggerAssumption DEF Init
  <2> QED BY <2>1, <2>2 DEF Init, TypeOK, Place, Destruction
<1>2. <<>> \o <<>> \o <<>> = Numbered(0)
  <2>1. <<>> \o <<>> \o <<>> = <<>> OBVIOUS
  <2>2. Numbered(0) = <<>> BY DEF Numbered
  <2> QED BY <2>1, <2>2
<1> QED BY <1>1, <1>2 DEF IInv, Numbers, Init, Numbered

(* What an exchange of the two queues does when one is empty.              *)
LEMMA SwapStep ==
  ASSUME IInv, LogsToProcess = <<>>, Swap, UNCHANGED <<logged, written>>
  PROVE  /\ LogQueue' \in Seq(1..logged') /\ LogsToProcess' \in Seq(1..logged')
         /\ LogQueue' = <<>>
         /\ Numbers'
<1>1. /\ written \in Seq(1..logged) /\ LogQueue \in Seq(1..logged)
      /\ LogsToProcess \in Seq(1..logged)
  BY DEF IInv, TypeOK
<1>2. written \o <<>> \o LogQueue = written \o LogQueue \o <<>> BY <1>1
<1> QED BY <1>1, <1>2 DEF Swap, IInv, Numbers

LEMMA LogStep == IInv /\ Log => IInv'
<1> SUFFICES ASSUME IInv, Log PROVE IInv' OBVIOUS
<1>1. /\ logged \in 0..MaxLogs /\ logged' = logged + 1 /\ logged' \in 0..MaxLogs
      /\ LogQueue \in Seq(1..logged) /\ LogsToProcess \in Seq(1..logged)
      /\ written \in Seq(1..logged)
      /\ LogQueue' = Append(LogQueue, logged + 1)
      /\ UNCHANGED <<LogsToProcess, written, Terminated, main>>
      /\ main # "draining" /\ main # "done"
  BY LoggerAssumption DEF Log, IInv, TypeOK
<1>2. thread' \in Place /\ (thread' = "exited" <=> thread = "exited")
      /\ (thread' = "processing" <=> thread = "processing")
  BY DEF Log, Notify, IInv, TypeOK, Place
<1>3. /\ LogQueue \in Seq(1..(logged + 1)) /\ LogsToProcess \in Seq(1..(logged + 1))
      /\ written \in Seq(1..(logged + 1))
  BY <1>1, SeqWider
<1>4. TypeOK'
  <2>1. LogQueue' \in Seq(1..logged') BY <1>1, <1>3
  <2> QED BY <1>1, <1>2, <1>3, <2>1 DEF IInv, TypeOK
<1>5. Numbers'
  <2>1. written \o LogsToProcess \o Append(LogQueue, logged + 1)
          = Append(written \o LogsToProcess \o LogQueue, logged + 1)
    <3>1. written \o LogsToProcess \in Seq(1..(logged + 1)) BY <1>3
    <3>2. logged + 1 \in 1..(logged + 1) BY <1>1
    <3> HIDE DEF IInv
    <3>3. \A s, t \in Seq(1..(logged + 1)) :
            s \o Append(t, logged + 1) = Append(s \o t, logged + 1)
      BY <3>2
    <3> QED BY <1>3, <3>1, <3>3
  <2>2. written \o LogsToProcess \o LogQueue = Numbered(logged)
    BY DEF IInv, Numbers, Numbered
  <2>3. Append(Numbered(logged), logged + 1) = Numbered(logged + 1)
    BY <1>1, NumberedSeq
  <2> QED BY <1>1, <2>1, <2>2, <2>3 DEF Numbers, Numbered
<1> QED BY <1>4, <1>5 DEF IInv

LEMMA WriteStep == IInv /\ Write => IInv'
<1> SUFFICES ASSUME IInv, Write PROVE IInv' OBVIOUS
<1> USE DEF Write
<1>1. /\ LogQueue \in Seq(1..logged) /\ LogsToProcess \in Seq(1..logged)
      /\ written \in Seq(1..logged)
  BY DEF IInv, TypeOK
<1>2. /\ Head(LogsToProcess) \in 1..logged /\ Tail(LogsToProcess) \in Seq(1..logged)
      /\ LogsToProcess = <<Head(LogsToProcess)>> \o Tail(LogsToProcess)
  <2>1. LogsToProcess # <<>> OBVIOUS
  <2>2. Head(LogsToProcess) \in 1..logged /\ Tail(LogsToProcess) \in Seq(1..logged)
    BY <1>1, <2>1, HeadTailProperties
  <2>3. \A s \in Seq(1..logged) : s # <<>> => s = <<Head(s)>> \o Tail(s)
    OBVIOUS
  <2> QED BY <1>1, <2>1, <2>2, <2>3
<1>3. TypeOK' BY <1>1, <1>2 DEF IInv, TypeOK
<1>4. Append(written, Head(LogsToProcess)) \o Tail(LogsToProcess)
        = written \o LogsToProcess
  <2>1. Append(written, Head(LogsToProcess)) = written \o <<Head(LogsToProcess)>>
    BY <1>1, <1>2
  <2>2. \A s, t, u \in Seq(1..logged) : (s \o t) \o u = s \o (t \o u) OBVIOUS
  <2>3. <<Head(LogsToProcess)>> \in Seq(1..logged) BY <1>2
  <2> QED BY <1>1, <1>2, <2>1, <2>2, <2>3
<1>5. Numbers' BY <1>4 DEF IInv, Numbers
<1> QED BY <1>3, <1>5 DEF IInv

LEMMA InvNext == IInv /\ [Next]_vars => IInv'
<1> SUFFICES ASSUME IInv, [Next]_vars PROVE IInv' OBVIOUS
<1>a. TypeOK /\ Numbers BY DEF IInv
<1>b. ASSUME UNCHANGED lines, TypeOK' PROVE IInv'
  BY <1>a, <1>b DEF IInv, Numbers, lines
<1>1. CASE Log BY <1>1, LogStep
<1>2. CASE Write BY <1>2, WriteStep
<1>3. CASE Loop
  BY <1>3, <1>a, <1>b DEF Loop, TypeOK, Place, lines
<1>4. CASE Test
  <2>1. CASE LogQueue = <<>> /\ ~Terminated /\ thread' = "blocking"
             /\ UNCHANGED <<LogQueue, LogsToProcess>>
    BY <1>4, <2>1, <1>a, <1>b DEF Test, TypeOK, Place, lines
  <2>2. CASE Swap /\ thread' = "processing"
    <3>1. LogsToProcess = <<>> /\ UNCHANGED <<logged, written, Terminated, main>>
      BY <1>4, <1>a DEF Test, TypeOK
    <3>2. /\ LogQueue' \in Seq(1..logged') /\ LogsToProcess' \in Seq(1..logged')
          /\ Numbers'
      BY <2>2, <3>1, SwapStep
    <3>3. TypeOK' BY <1>4, <2>2, <3>1, <3>2, <1>a DEF Test, TypeOK, Place
    <3> QED BY <3>2, <3>3 DEF IInv
  <2> QED BY <1>4, <2>1, <2>2 DEF Test
<1>5. CASE Block \/ WakeSpuriously
  BY <1>5, <1>a, <1>b DEF Block, WakeSpuriously, TypeOK, Place, lines
<1>6. CASE Processed
  BY <1>6, <1>a, <1>b DEF Processed, TypeOK, Place, lines
<1>7. CASE SetTerminated
  BY <1>7, <1>a, <1>b DEF SetTerminated, TypeOK, Destruction, lines
<1>8. CASE NotifyTerminated
  BY <1>8, <1>a, <1>b DEF NotifyTerminated, Notify, TypeOK, Place, Destruction, lines
<1>9. CASE Join
  <2>1. LogsToProcess = <<>> /\ UNCHANGED <<logged, written, Terminated, thread>>
    BY <1>9, <1>a DEF Join, TypeOK
  <2>2. /\ LogQueue' \in Seq(1..logged') /\ LogsToProcess' \in Seq(1..logged')
        /\ Numbers'
    BY <1>9, <2>1, SwapStep DEF Join
  <2>3. TypeOK' BY <1>9, <2>1, <2>2, <1>a DEF Join, TypeOK, Destruction
  <2> QED BY <2>2, <2>3 DEF IInv
<1>10. CASE Drained
  BY <1>10, <1>a, <1>b DEF Drained, TypeOK, Destruction, lines
<1>11. CASE UNCHANGED vars
  BY <1>11, <1>a, <1>b DEF vars, lines, TypeOK
<1> QED
  BY <1>1, <1>2, <1>3, <1>4, <1>5, <1>6, <1>7, <1>8, <1>9, <1>10, <1>11
  DEF Next, RunLogger, Destroy

LEMMA Inductive == Spec => []IInv
BY InvInit, InvNext, PTL DEF Spec

-----------------------------------------------------------------------------
(* For any number of lines the logger keeps its types: in particular the   *)
(* destructor writes only after the thread has ended.                      *)
THEOREM TypeCorrect == Spec => []TypeOK
BY Inductive, PTL DEF IInv

(* The destructor has taken what was queued, and then it has written it.   *)
Emptied ==
  /\ main \in {"draining", "done"} => LogQueue = <<>>
  /\ main = "done" => LogsToProcess = <<>>

(* Nobody logs after the join, and the destructor's swap finds nothing that*)
(* the thread has left unwritten.                                          *)
LEMMA EmptiedStep == IInv /\ Emptied /\ [Next]_vars => Emptied'
<1> SUFFICES ASSUME IInv, Emptied, [Next]_vars PROVE Emptied'
  OBVIOUS
<1>1. CASE Log BY <1>1 DEF Log, Emptied
<1>2. CASE Write BY <1>2 DEF Write, Emptied, IInv, TypeOK
<1>3. CASE Loop \/ Block \/ WakeSpuriously \/ Processed
  BY <1>3 DEF Loop, Block, WakeSpuriously, Processed, Emptied, lines
<1>4. CASE Test BY <1>4 DEF Test, Swap, Emptied, IInv, TypeOK
<1>5. CASE SetTerminated \/ NotifyTerminated
  BY <1>5 DEF SetTerminated, NotifyTerminated, Emptied, lines
<1>6. CASE Join
  BY <1>6 DEF Join, Swap, Emptied, IInv, TypeOK
<1>7. CASE Drained BY <1>7 DEF Drained, Emptied, lines
<1>8. CASE UNCHANGED vars BY <1>8 DEF vars, lines, Emptied
<1> QED
  BY <1>1, <1>2, <1>3, <1>4, <1>5, <1>6, <1>7, <1>8 DEF Next, RunLogger, Destroy

(* However logging, both swaps and the destruction interleave, each line   *)
(* is written once, in order, or still to be written; and when the         *)
(* destructor has ended, none is.                                          *)
THEOREM LinesCorrect == Spec => []OnceInOrder
<1>1. Init => Emptied BY DEF Init, Emptied
<1>2. IInv /\ Emptied => OnceInOrder
  <2> SUFFICES ASSUME IInv, Emptied PROVE OnceInOrder
    OBVIOUS
  <2>1. written \in Seq(1..logged) BY DEF IInv, TypeOK
  <2>2. written \o <<>> \o <<>> = written BY <2>1
  <2> QED BY <2>2 DEF IInv, Numbers, Emptied, OnceInOrder
<1> QED BY <1>1, <1>2, InvInit, InvNext, EmptiedStep, PTL DEF Spec

(* A thread that waits, or is about to, leaves no line behind: a line that *)
(* is logged before the wait has begun is never slept over.                *)
SleepsOnNothing ==
  thread \in {"blocking", "waiting"} => LogQueue = <<>> /\ LogsToProcess = <<>>

(* The thread tests the queue with the mutex held until it waits, and Log, *)
(* which needs the mutex, wakes it: it never sleeps over a line.           *)
THEOREM NoLineSleptOver == Spec => []SleepsOnNothing
<1>1. Init => SleepsOnNothing BY DEF Init, SleepsOnNothing
<1>2. IInv /\ SleepsOnNothing /\ [Next]_vars => SleepsOnNothing'
  <2> SUFFICES ASSUME IInv, SleepsOnNothing, [Next]_vars PROVE SleepsOnNothing'
    OBVIOUS
  <2>1. CASE Log BY <2>1 DEF Log, MutexFree, Notify, SleepsOnNothing
  <2>2. CASE Write BY <2>2 DEF Write, SleepsOnNothing, IInv, TypeOK
  <2>3. CASE Test BY <2>3 DEF Test, Swap, SleepsOnNothing, IInv, TypeOK
  <2>4. CASE Loop \/ Block \/ WakeSpuriously \/ Processed
    BY <2>4 DEF Loop, Block, WakeSpuriously, Processed, SleepsOnNothing, lines
  <2>5. CASE SetTerminated \/ NotifyTerminated \/ Drained
    BY <2>5 DEF SetTerminated, NotifyTerminated, Notify, Drained, SleepsOnNothing, lines
  <2>6. CASE Join BY <2>6 DEF Join, SleepsOnNothing
  <2>7. CASE UNCHANGED vars BY <2>7 DEF vars, lines, SleepsOnNothing
  <2> QED
    BY <2>1, <2>2, <2>3, <2>4, <2>5, <2>6, <2>7 DEF Next, RunLogger, Destroy
<1> QED BY <1>1, <1>2, InvInit, InvNext, PTL DEF Spec
=============================================================================
