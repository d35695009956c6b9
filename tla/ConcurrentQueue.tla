--------------------------- MODULE ConcurrentQueue ---------------------------
(***************************************************************************)
(* ConcurrentQueue<T>, at the level of its mutex, with the loop every      *)
(* consumer thread of the server runs on it:                               *)
(*                                                                         *)
(*     while (true) { while (!q->empty()) { t = q->pop(); ... } usleep }   *)
(*                                                                         *)
(* empty() and pop() each take the mutex, and the queue is free for others *)
(* in between; pop() calls front() without a test.  The packet queue has   *)
(* the Server thread as its producer, the command queue PacketManager and  *)
(* whoever disconnects a player, the queue of Sender the CommandManager.   *)
(* Each queue has one consumer.                                            *)
(***************************************************************************)
EXTENDS Integers, SequencesExt

CONSTANTS
  Producer,   \* the threads that push
  Consumer,   \* the one thread that pops
  Unlocked,   \* the state of a free mutex
  MaxPushes   \* bound: how often each producer pushes

ASSUME ConsumerAssumption == Consumer \notin Producer
ASSUME UnlockedAssumption == Unlocked \notin Producer \cup {Consumer}
ASSUME PushesAssumption   == MaxPushes \in Nat

VARIABLES
  queue,      \* the std::queue
  qMutex,     \* the thread that holds the mutex, or Unlocked
  pc,         \* where each thread is
  pushes,     \* how many items each producer has pushed
  isEmpty,    \* the answer empty() gave to the consumer
  taken       \* the items the consumer popped, oldest first

vars == <<queue, qMutex, pc, pushes, isEmpty, taken>>

Thread == Producer \cup {Consumer}
Item   == Producer \X (1..MaxPushes)

TypeOK ==
  /\ queue \in Seq(Item)
  /\ qMutex \in Thread \cup {Unlocked}
  /\ pc \in [Thread -> {"out", "pushing", "pushed", "asking", "asked",
                        "leaving", "popping", "popped", "sleeping"}]
  /\ pushes \in [Producer -> 0..MaxPushes]
  /\ isEmpty \in BOOLEAN
  /\ taken \in Seq(Item)

Init ==
  /\ queue = <<>>
  /\ qMutex = Unlocked
  /\ pc = [t \in Thread |-> "out"]
  /\ pushes = [p \in Producer |-> 0]
  /\ isEmpty = TRUE
  /\ taken = <<>>

\* qMutex.lock() and qMutex.unlock(), on the way of t from one place to another.
\* A mutant: the lock is not waited for.
Locks_Barging(t, from, to) ==
  /\ pc[t] = from
  /\ qMutex' = t
  /\ pc' = [pc EXCEPT ![t] = to]
Locks(t, from, to) ==
  /\ pc[t] = from
  /\ qMutex = Unlocked
  /\ qMutex' = t
  /\ pc' = [pc EXCEPT ![t] = to]

Unlocks(t, from, to) ==
  /\ pc[t] = from
  /\ qMutex' = Unlocked
  /\ pc' = [pc EXCEPT ![t] = to]

-----------------------------------------------------------------------------
(* push, by producer p.                                                    *)

PushLock(p) ==
  /\ pushes[p] < MaxPushes
  /\ Locks(p, "out", "pushing")
  /\ UNCHANGED <<queue, pushes, isEmpty, taken>>

\* A mutant: the item goes to the front.
Pushed_Front(x) == <<x>> \o queue
Pushed(x) == Append(queue, x)

Push(p) ==
  /\ pc[p] = "pushing"
  /\ pushes' = [pushes EXCEPT ![p] = @ + 1]
  /\ queue' = Pushed(<<p, pushes[p] + 1>>)
  /\ pc' = [pc EXCEPT ![p] = "pushed"]
  /\ UNCHANGED <<qMutex, isEmpty, taken>>

PushUnlock(p) ==
  /\ Unlocks(p, "pushed", "out")
  /\ UNCHANGED <<queue, pushes, isEmpty, taken>>

-----------------------------------------------------------------------------
(* empty and pop, by the consumer.                                         *)

EmptyLock ==
  /\ Locks(Consumer, "out", "asking")
  /\ UNCHANGED <<queue, pushes, isEmpty, taken>>

Empty ==
  /\ pc[Consumer] = "asking"
  /\ isEmpty' = (queue = <<>>)
  /\ pc' = [pc EXCEPT ![Consumer] = "asked"]
  /\ UNCHANGED <<queue, qMutex, pushes, taken>>

\* The consumer's two loops: sleep on an empty queue, pop from another.
\* A mutant: the test is made once, before the first pop.
AfterEmpty_Once == IF isEmpty /\ taken = <<>> THEN "sleeping" ELSE "leaving"
AfterEmpty == IF isEmpty THEN "sleeping" ELSE "leaving"

EmptyUnlock ==
  /\ Unlocks(Consumer, "asked", AfterEmpty)
  /\ UNCHANGED <<queue, pushes, isEmpty, taken>>

\* A mutant: the consumer ends instead of sleeping.
AfterSleep_Exit == "sleeping"
AfterSleep == "out"

Sleep ==
  /\ pc[Consumer] = "sleeping"
  /\ pc' = [pc EXCEPT ![Consumer] = AfterSleep]
  /\ UNCHANGED <<queue, qMutex, pushes, isEmpty, taken>>

PopLock ==
  /\ Locks(Consumer, "leaving", "popping")
  /\ UNCHANGED <<queue, pushes, isEmpty, taken>>

\* front() and pop() of std::queue; on an empty queue they are undefined, and
\* the step leaves the bad read to the invariant PopFindsItem.
Pop ==
  /\ pc[Consumer] = "popping"
  /\ queue # <<>>
  /\ taken' = Append(taken, Head(queue))
  /\ queue' = Tail(queue)
  /\ pc' = [pc EXCEPT ![Consumer] = "popped"]
  /\ UNCHANGED <<qMutex, pushes, isEmpty>>

PopUnlock ==
  /\ Unlocks(Consumer, "popped", "out")
  /\ UNCHANGED <<queue, pushes, isEmpty, taken>>

-----------------------------------------------------------------------------

Produce(p) == PushLock(p) \/ Push(p) \/ PushUnlock(p)
Consume == EmptyLock \/ Empty \/ EmptyUnlock \/ Sleep \/ PopLock \/ Pop \/ PopUnlock

Next == Consume \/ \E p \in Producer : Produce(p)

Spec == Init /\ [][Next]_vars

\* The threads keep running.  std::mutex promises no turn to a thread that
\* waits for it; the producers of the server pause for the network between
\* pushes, here when they reach MaxPushes, and then the consumer gets it.
FairSpec ==
  /\ Spec
  /\ WF_vars(Consume)
  /\ \A p \in Producer : WF_vars(Push(p) \/ PushUnlock(p))

-----------------------------------------------------------------------------

\* A thread touches the std::queue only while it holds the mutex, so no two do
\* at once.
HoldsLock ==
  \A t \in Thread :
    pc[t] \in {"pushing", "pushed", "asking", "asked", "popping", "popped"} => qMutex = t

\* pop() never runs on an empty queue, although nothing is locked between
\* empty() and pop(): no one but the consumer takes items out.
PopFindsItem == pc[Consumer] \in {"leaving", "popping"} => queue # <<>>

\* The queue between push and pop is a first-in first-out channel.
Channel == INSTANCE Fifo WITH channel <- queue
IsFifo == Channel!FifoSpec

\* Every item pushed is popped, in the end: an item pushed while the consumer
\* is about to sleep is found when it wakes.
EveryItemIsTaken ==
  \A x \in Item : (\E i \in DOMAIN queue : queue[i] = x) ~> (\E i \in DOMAIN taken : taken[i] = x)
=============================================================================
