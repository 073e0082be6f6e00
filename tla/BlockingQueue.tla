--------------------------- MODULE BlockingQueue ---------------------------
(***************************************************************************)
(* The blocking queue of Malnati's lab 4 (Malnati/lab4/BlockingQueue.hpp): *)
(* a ring of `capacity' places between producers and consumers, closed     *)
(* once and for all by chiudi.                                             *)
(*                                                                         *)
(* What a call does with the mutex held, up to its end or to a wait, is    *)
(* one step.  A wait gives up the mutex and ends with a notification or    *)
(* for no reason, as the standard allows.  preleva looks at open before it *)
(* takes the mutex: that look is a step of its own.                        *)
(***************************************************************************)
EXTENDS Naturals, Sequences, FiniteSets

CONSTANTS Consumer, Producer,
          capacity,
          MaxItems          \* bound on the values inserted

ASSUME QueueAssumption ==
  /\ capacity \in Nat \ {0} /\ MaxItems \in Nat
  /\ IsFiniteSet(Consumer) /\ IsFiniteSet(Producer)
  /\ Consumer \cap Producer = {}      \* a thread that does both has two names

QThread == Consumer \cup Producer
Place == 0 .. capacity - 1

VARIABLES
  queue, in, out, size, open,   \* the fields
  qpc,          \* of each thread: "outside"; "enter", about to take the mutex; "wait",
                \* in c_vuoto.wait or c_pieno.wait; "woken", about to take it again
  inserted,     \* history: how many values were inserted; the values are 1, 2, ...
  taken         \* history: the values taken, in the order they were taken

queueVars == <<queue, in, out, size, open, qpc, inserted, taken>>

queueInit ==
  /\ queue = [p \in Place |-> 0]
  /\ in = 0 /\ out = 0 /\ size = 0
  /\ open = TRUE
  /\ qpc = [t \in QThread |-> "outside"]
  /\ inserted = 0
  /\ taken = <<>>

vuoto == size = 0
pieno == size = capacity

Waiting(T) == {t \in T : qpc[t] = "wait"}
Entering(t) == qpc[t] \in {"enter", "woken"}

\* qpc after thread t goes to s and wakes one of T, or nobody if none waits.
NotifyOne(t, s, T, pc) ==
  IF Waiting(T) = {} THEN pc = [qpc EXCEPT ![t] = s]
  ELSE \E w \in Waiting(T) : pc = [qpc EXCEPT ![t] = s, ![w] = "woken"]

\* The look at open before the mutex.
prelevaLooks(t) ==
  /\ qpc[t] = "outside"
  /\ open
  /\ qpc' = [qpc EXCEPT ![t] = "enter"]
  /\ UNCHANGED <<queue, in, out, size, open, inserted, taken>>

\* Faulty variant: only the first value wakes a producer up.
NotifiesWhenFull(t) ==
  /\ Entering(t)
  /\ IF open /\ vuoto
     THEN qpc' = [qpc EXCEPT ![t] = "wait"] /\ UNCHANGED <<out, size, taken>>
     ELSE IF ~open THEN qpc' = [qpc EXCEPT ![t] = "outside"] /\ UNCHANGED <<out, size, taken>>
     ELSE /\ taken' = Append(taken, queue[out])
          /\ out' = (out + 1) % capacity
          /\ size' = size - 1
          /\ IF pieno THEN NotifyOne(t, "outside", Producer, qpc')
             ELSE qpc' = [qpc EXCEPT ![t] = "outside"]
  /\ UNCHANGED <<queue, in, open, inserted>>

preleva(t) ==
  /\ Entering(t)
  /\ \/ /\ open /\ vuoto
        /\ qpc' = [qpc EXCEPT ![t] = "wait"]
        /\ UNCHANGED <<out, size, taken>>
     \/ /\ ~open
        /\ qpc' = [qpc EXCEPT ![t] = "outside"]
        /\ UNCHANGED <<out, size, taken>>
     \/ /\ open /\ ~vuoto
        /\ taken' = Append(taken, queue[out])
        /\ out' = (out + 1) % capacity
        /\ size' = size - 1
        /\ NotifyOne(t, "outside", Producer, qpc')
  /\ UNCHANGED <<queue, in, open, inserted>>

inserisciCalled(t) ==
  /\ qpc[t] = "outside"
  /\ qpc' = [qpc EXCEPT ![t] = "enter"]
  /\ UNCHANGED <<queue, in, out, size, open, inserted, taken>>

\* With the queue closed it throws logic_error.
inserisci(t) ==
  /\ Entering(t)
  /\ \/ /\ open /\ pieno
        /\ qpc' = [qpc EXCEPT ![t] = "wait"]
        /\ UNCHANGED <<queue, in, size, inserted>>
     \/ /\ ~open
        /\ qpc' = [qpc EXCEPT ![t] = "outside"]
        /\ UNCHANGED <<queue, in, size, inserted>>
     \/ /\ open /\ ~pieno /\ inserted < MaxItems
        /\ queue' = [queue EXCEPT ![in] = inserted + 1]
        /\ inserted' = inserted + 1
        /\ in' = (in + 1) % capacity
        /\ size' = size + 1
        /\ NotifyOne(t, "outside", Consumer, qpc')
  /\ UNCHANGED <<out, open, taken>>

\* notify_all on both conditions.
chiudi ==
  /\ open
  /\ open' = FALSE
  /\ qpc' = [t \in QThread |-> IF qpc[t] = "wait" THEN "woken" ELSE qpc[t]]
  /\ UNCHANGED <<queue, in, out, size, inserted, taken>>

\* A wait that ends without a notification.
SpuriousWakeup(t) ==
  /\ qpc[t] = "wait"
  /\ qpc' = [qpc EXCEPT ![t] = "woken"]
  /\ UNCHANGED <<queue, in, out, size, open, inserted, taken>>

queueNext ==
  \/ \E t \in Consumer : prelevaLooks(t) \/ preleva(t)
  \/ \E t \in Producer : inserisciCalled(t) \/ inserisci(t)
  \/ chiudi
  \/ \E t \in QThread : SpuriousWakeup(t)

queueSpec == queueInit /\ [][queueNext]_queueVars

-----------------------------------------------------------------------------
(* Properties *)

\* What the ring holds, oldest first.
Content == [i \in 1 .. size |-> queue[(out + i - 1) % capacity]]

\* notify_one loses nobody: while a consumer sleeps, there is an awakened one for
\* every value in the queue, while a producer sleeps, one for every free place, and
\* nobody sleeps once the queue is closed.  Values come out once each, in the order
\* in which they went in.
NobodyIsForgotten ==
  /\ Waiting(Consumer) # {} => Cardinality({t \in Consumer : qpc[t] = "woken"}) >= size
  /\ Waiting(Producer) # {} =>
       Cardinality({t \in Producer : qpc[t] = "woken"}) >= capacity - size
  /\ ~open => Waiting(QThread) = {}
  /\ taken \o Content = [i \in 1 .. inserted |-> i]
=============================================================================
