----------------------- MODULE ConcurrentQueueProofs -----------------------
(***************************************************************************)
(* Theorems about ConcurrentQueue, for any producers and any number of     *)
(* items.                                                                  *)
(***************************************************************************)
EXTENDS ConcurrentQueue, SequenceTheorems, TLAPS

\* A producer on its way to push has not reached the bound.
HasRoom == \A p \in Producer : pc[p] = "pushing" => pushes[p] < MaxPushes

\* The consumer's answer is still true after it let go of the mutex, because
\* the others only push.
AnswerHolds ==
  /\ pc[Consumer] = "asked" /\ ~isEmpty => queue # <<>>
  /\ pc[Consumer] \in {"leaving", "popping"} => queue # <<>>

IInv == TypeOK /\ HoldsLock /\ HasRoom /\ AnswerHolds

\* The producers, the consumer and the free mutex are told apart.
LEMMA ThreadsDiffer ==
  /\ Consumer \in Thread /\ Unlocked \notin Thread
  /\ \A p \in Producer : p \in Thread /\ p # Consumer
BY ConsumerAssumption, UnlockedAssumption DEF Thread

-----------------------------------------------------------------------------

\* The invariant holds at the start.
LEMMA IInit == Init => IInv
<1> SUFFICES ASSUME Init PROVE IInv
  OBVIOUS
<1>1. TypeOK
  BY EmptySeq, PushesAssumption DEF Init, TypeOK
<1>2. HoldsLock /\ HasRoom /\ AnswerHolds
  BY ThreadsDiffer DEF Init, HoldsLock, HasRoom, AnswerHolds, Thread
<1> QED BY <1>1, <1>2 DEF IInv

\* Taking the mutex, from a place where it is not held.
LEMMA LockStep ==
  ASSUME IInv, NEW t \in Thread, NEW from, NEW to,
         Locks(t, from, to),
         to \in {"pushing", "asking", "popping"}
  PROVE  /\ HoldsLock'
         /\ qMutex' \in Thread \cup {Unlocked}
         /\ pc' \in [Thread -> {"out", "pushing", "pushed", "asking", "asked",
                                "leaving", "popping", "popped", "sleeping"}]
BY ThreadsDiffer DEF IInv, TypeOK, HoldsLock, Locks

\* Releasing it: no other thread is where it would need it.
LEMMA UnlockStep ==
  ASSUME IInv, NEW t \in Thread, NEW from, NEW to,
         Unlocks(t, from, to),
         from \in {"pushed", "asked", "popped"},
         to \in {"out", "leaving", "sleeping"}
  PROVE  /\ HoldsLock'
         /\ qMutex' \in Thread \cup {Unlocked}
         /\ pc' \in [Thread -> {"out", "pushing", "pushed", "asking", "asked",
                                "leaving", "popping", "popped", "sleeping"}]
BY ThreadsDiffer DEF IInv, TypeOK, HoldsLock, Unlocks

\* push appends one item and keeps the invariant.
LEMMA PushStep ==
  ASSUME IInv, NEW p \in Producer, Push(p)
  PROVE  /\ IInv'
         /\ \E x \in Item : queue' = Append(queue, x)
<1> DEFINE x == <<p, pushes[p] + 1>>
<1>1. /\ p \in Thread /\ p # Consumer /\ pc[p] = "pushing"
      /\ pushes[p] \in Nat /\ pushes[p] + 1 \in 1..MaxPushes
      /\ queue \in Seq(Item)
  BY ThreadsDiffer, PushesAssumption DEF Push, IInv, TypeOK, HasRoom
<1>2. x \in Item /\ queue' = Append(queue, x)
  BY <1>1 DEF Item, Push, Pushed
<1> HIDE DEF x
<1>3. queue' \in Seq(Item) /\ queue' # <<>>
  BY <1>1, <1>2, AppendProperties
<1>4. TypeOK'
  BY <1>1, <1>3 DEF Push, IInv, TypeOK
<1>5. HoldsLock'
  BY <1>1 DEF Push, IInv, TypeOK, HoldsLock
<1>6. HasRoom'
  BY <1>1 DEF Push, IInv, TypeOK, HasRoom
<1>7. AnswerHolds'
  BY <1>3 DEF AnswerHolds
<1> QED BY <1>2, <1>4, <1>5, <1>6, <1>7 DEF IInv

\* The lock and the unlock of push keep the invariant.
LEMMA ProducerStep ==
  ASSUME IInv, NEW p \in Producer, PushLock(p) \/ PushUnlock(p)
  PROVE  IInv'
<1>1. p \in Thread /\ p # Consumer
  BY ThreadsDiffer
<1>2. /\ HoldsLock'
      /\ qMutex' \in Thread \cup {Unlocked}
      /\ pc' \in [Thread -> {"out", "pushing", "pushed", "asking", "asked",
                             "leaving", "popping", "popped", "sleeping"}]
  BY <1>1, LockStep, UnlockStep DEF PushLock, PushUnlock
<1>3. TypeOK'
  BY <1>2 DEF PushLock, PushUnlock, IInv, TypeOK
<1>4. pc'[Consumer] = pc[Consumer] /\ UNCHANGED <<queue, isEmpty, pushes>>
  BY <1>1, ThreadsDiffer DEF PushLock, PushUnlock, Locks, Unlocks, IInv, TypeOK
<1>5. HasRoom'
  BY <1>1, ThreadsDiffer DEF PushLock, PushUnlock, Locks, Unlocks, IInv, TypeOK, HasRoom
<1>6. AnswerHolds'
  BY <1>4 DEF AnswerHolds, IInv
<1> QED BY <1>2, <1>3, <1>5, <1>6 DEF IInv

\* pop takes the head of a queue that is not empty and keeps the invariant.
LEMMA PopStep ==
  ASSUME IInv, Pop
  PROVE  /\ IInv'
         /\ \E x \in Item : x = Head(queue) /\ queue # <<>> /\ queue' = Tail(queue)
<1>1. /\ queue \in Seq(Item) /\ queue # <<>> /\ taken \in Seq(Item)
      /\ queue' = Tail(queue) /\ taken' = Append(taken, Head(queue))
  BY DEF Pop, IInv, TypeOK
<1>2. Head(queue) \in Item /\ queue' \in Seq(Item)
  BY <1>1, HeadTailProperties
<1>3. taken' \in Seq(Item)
  BY <1>1, <1>2, AppendProperties
<1>4. TypeOK'
  BY <1>2, <1>3 DEF Pop, IInv, TypeOK
<1>5. HoldsLock' /\ HasRoom' /\ AnswerHolds'
  BY ThreadsDiffer DEF Pop, IInv, TypeOK, HoldsLock, HasRoom, AnswerHolds
<1> QED BY <1>1, <1>2, <1>4, <1>5 DEF IInv

\* The other steps of the consumer keep the invariant and the queue.
LEMMA ConsumerStep ==
  ASSUME IInv, EmptyLock \/ Empty \/ EmptyUnlock \/ Sleep \/ PopLock \/ PopUnlock
  PROVE  IInv' /\ UNCHANGED queue
<1>1. Consumer \in Thread /\ \A p \in Producer : p \in Thread /\ p # Consumer
  BY ThreadsDiffer
<1>2. AfterEmpty \in {"sleeping", "leaving"}
  BY DEF AfterEmpty
<1>3. CASE EmptyLock
  <2>1. TypeOK' /\ HoldsLock'
    BY <1>1, <1>3, LockStep DEF EmptyLock, IInv, TypeOK
  <2>2. HasRoom' /\ AnswerHolds'
    BY <1>1, <1>3 DEF EmptyLock, Locks, IInv, TypeOK, HasRoom, AnswerHolds
  <2> QED BY <1>3, <2>1, <2>2 DEF IInv, EmptyLock
<1>4. CASE PopLock
  <2>1. TypeOK' /\ HoldsLock'
    BY <1>1, <1>4, LockStep DEF PopLock, IInv, TypeOK
  <2>2. HasRoom' /\ AnswerHolds'
    BY <1>1, <1>4 DEF PopLock, Locks, IInv, TypeOK, HasRoom, AnswerHolds
  <2> QED BY <1>4, <2>1, <2>2 DEF IInv, PopLock
<1>5. CASE EmptyUnlock
  <2>1. TypeOK' /\ HoldsLock'
    BY <1>1, <1>2, <1>5, UnlockStep DEF EmptyUnlock, IInv, TypeOK
  <2>2. HasRoom' /\ AnswerHolds'
    BY <1>1, <1>5 DEF EmptyUnlock, Unlocks, AfterEmpty, IInv, TypeOK, HasRoom, AnswerHolds
  <2> QED BY <1>5, <2>1, <2>2 DEF IInv, EmptyUnlock
<1>6. CASE PopUnlock
  <2>1. TypeOK' /\ HoldsLock'
    BY <1>1, <1>6, UnlockStep DEF PopUnlock, IInv, TypeOK
  <2>2. HasRoom' /\ AnswerHolds'
    BY <1>1, <1>6 DEF PopUnlock, Unlocks, IInv, TypeOK, HasRoom, AnswerHolds
  <2> QED BY <1>6, <2>1, <2>2 DEF IInv, PopUnlock
<1>7. CASE Empty
  <2>1. TypeOK' /\ HoldsLock' /\ HasRoom'
    BY <1>1, <1>7 DEF Empty, IInv, TypeOK, HoldsLock, HasRoom
  <2>2. AnswerHolds'
    BY <1>1, <1>7 DEF Empty, IInv, TypeOK, AnswerHolds
  <2> QED BY <1>7, <2>1, <2>2 DEF IInv, Empty
<1>8. CASE Sleep
  BY <1>1, <1>8 DEF Sleep, AfterSleep, IInv, TypeOK, HoldsLock, HasRoom, AnswerHolds
<1> QED BY <1>3, <1>4, <1>5, <1>6, <1>7, <1>8

\* IInv is inductive.
LEMMA IStep == IInv /\ [Next]_vars => IInv'
<1> SUFFICES ASSUME IInv, [Next]_vars PROVE IInv'
  OBVIOUS
<1>1. CASE Consume
  BY <1>1, PopStep, ConsumerStep DEF Consume
<1>2. ASSUME NEW p \in Producer, Produce(p)
      PROVE  IInv'
  BY <1>2, PushStep, ProducerStep DEF Produce
<1>3. CASE UNCHANGED vars
  BY <1>3 DEF vars, IInv, TypeOK, HoldsLock, HasRoom, AnswerHolds
<1> QED BY <1>1, <1>2, <1>3 DEF Next

-----------------------------------------------------------------------------

\* Mutual exclusion: push, empty and pop touch the std::queue only under the
\* mutex, however many producers there are.
THEOREM MutexProtectsQueue == Spec => []HoldsLock
<1>1. IInv => HoldsLock
  BY DEF IInv
<1> QED BY <1>1, IInit, IStep, PTL DEF Spec

\* The check empty() and the act pop() are two critical sections, and pop()
\* still never runs on an empty queue.
THEOREM PopIsDefined == Spec => []PopFindsItem
<1>1. IInv => PopFindsItem
  BY DEF IInv, AnswerHolds, PopFindsItem
<1> QED BY <1>1, IInit, IStep, PTL DEF Spec

\* The queue is a first-in first-out channel: nothing is lost, duplicated or
\* overtaken between push and pop.
THEOREM ImplementsFifo == Spec => IsFifo
<1>1. Init => Channel!FifoInit
  BY DEF Init, Channel!FifoInit
<1>2. IInv /\ [Next]_vars => [Channel!FifoNext]_queue
  <2> SUFFICES ASSUME IInv, [Next]_vars PROVE Channel!FifoNext \/ UNCHANGED queue
    OBVIOUS
  <2>1. CASE Pop
    BY <2>1, PopStep DEF Channel!FifoNext, Channel!Get
  <2>2. CASE EmptyLock \/ Empty \/ EmptyUnlock \/ Sleep \/ PopLock \/ PopUnlock
    BY <2>2, ConsumerStep
  <2>3. ASSUME NEW p \in Producer, Push(p)
        PROVE  Channel!FifoNext
    BY <2>3, PushStep DEF Channel!FifoNext, Channel!Put
  <2>4. ASSUME NEW p \in Producer, PushLock(p) \/ PushUnlock(p)
        PROVE  UNCHANGED queue
    BY <2>4 DEF PushLock, PushUnlock
  <2>5. CASE UNCHANGED vars
    BY <2>5 DEF vars
  <2> QED BY <2>1, <2>2, <2>3, <2>4, <2>5 DEF Next, Consume, Produce
<1> QED BY <1>1, <1>2, IInit, IStep, PTL DEF Spec, IsFifo, Channel!FifoSpec
=============================================================================
