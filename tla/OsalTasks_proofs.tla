-------------------------- MODULE OsalTasks_proofs --------------------------
(***************************************************************************)
(* Proofs about OsalTasks for any number of tasks, messages and events: no *)
(* wake-up and no event is lost between the critical sections, and the     *)
(* messages of a task come in the order they were sent.                    *)
(***************************************************************************)
EXTENDS OsalTasks, FiniteSetTheorems, FunctionTheorems, TLAPS

\* Taking a message out of the queue gives a queue, in which a task has
\* messages only if it had others before.
LEMMA ExtractStep ==
  ASSUME NEW q \in Seq(Message), NEW i \in DOMAIN q
  PROVE  /\ Without(q, i) \in Seq(Message)
         /\ \A t \in Task : Places(Without(q, i), t) # {} => Places(q, t) \ {i} # {}
<1>1. Without(q, i) \in Seq(Message)
  BY DEF Without
<1>2. ASSUME NEW t \in Task, NEW j \in Places(Without(q, i), t)
      PROVE  Places(q, t) \ {i} # {}
  <2>1. j \in 1 .. Len(q) - 1 /\ Without(q, i)[j].dest = t
    BY <1>2 DEF Places, Without
  <2>2. Len(q) \in Nat /\ i \in Nat
    OBVIOUS
  <2>3. CASE j < i
    BY <2>1, <2>2, <2>3 DEF Places, Without
  <2>4. CASE ~(j < i)
    <3>1. j + 1 \in 1 .. Len(q) /\ j + 1 # i /\ q[j + 1].dest = t
      BY <2>1, <2>2, <2>4 DEF Without
    <3> QED
      BY <3>1 DEF Places
  <2> QED
    BY <2>3, <2>4
<1> QED
  BY <1>1, <1>2

\* Adding a message gives a queue, in which a task has messages only if it had
\* some before or the new one is its own.
LEMMA EnqueueStep ==
  ASSUME NEW q \in Seq(Message), NEW m \in Message
  PROVE  /\ Enqueued(q, m) \in Seq(Message)
         /\ \A t \in Task : Places(Enqueued(q, m), t) # {} => t = m.dest \/ Places(q, t) # {}
<1>1. Enqueued(q, m) \in Seq(Message)
  BY DEF Enqueued
<1>2. ASSUME NEW t \in Task, NEW j \in Places(Enqueued(q, m), t), t # m.dest
      PROVE  j \in Places(q, t)
  BY <1>2 DEF Places, Enqueued
<1> QED
  BY <1>1, <1>2

\* Type correctness, with what is not held while no handler runs.
THEOREM TypeCorrect == Spec => []TypeOK
<1> USE TasksAssumption DEF Task, NoTask
<1>1. Init => TypeOK
  BY DEF Init, TypeOK, Event
<1>2. TypeOK /\ [Next]_vars => TypeOK'
  <2> SUFFICES ASSUME TypeOK, [Next]_vars PROVE TypeOK'
    OBVIOUS
  <2> USE DEF TypeOK, Event
  <2>1. CASE Look
    <3>1. AfterLook(idx) \in Task
      BY DEF AfterLook
    <3>2. idx' \in Task
      BY <2>1, <3>1 DEF Look
    <3>3. pc' \in {"scan", "take"} /\ pc = "scan"
      BY <2>1 DEF Look
    <3> QED
      BY <2>1, <3>2, <3>3 DEF Look
  <2>2. CASE Take
    BY <2>2 DEF Take
  <2>3. CASE Restore
    BY <2>3 DEF Restore, Restored
  <2>4. ASSUME NEW i \in DOMAIN osal_qHead, Receive(i) PROVE TypeOK'
    <3>1. osal_qHead' \in Seq(Message)
      BY <2>4, ExtractStep DEF Receive
    <3>2. tasksEvents' \in [Task -> SUBSET Event]
      BY <2>4 DEF Receive, Signalled
    <3>3. received' \in [Task -> Nat]
      BY <2>4 DEF Receive
    <3>4. events' \subseteq Event
      BY <2>4 DEF Receive
    <3> QED
      BY <2>4, <3>1, <3>2, <3>3, <3>4 DEF Receive
  <2>5. CASE ReceiveNothing
    BY <2>5 DEF ReceiveNothing, Signalled
  <2>6. ASSUME NEW e \in TaskEvent, ProcessOwn(e) PROVE TypeOK'
    BY <2>6 DEF ProcessOwn
  <2>7. CASE Done
    BY <2>7 DEF Done
  <2>8. ASSUME NEW t \in Task, Enqueue(t)
        PROVE  osal_qHead' \in Seq(Message) /\ sent' \in [Task -> Nat]
    <3>1. [dest |-> t, no |-> sent[t] + 1] \in Message
      BY DEF Message
    <3>2. osal_qHead' \in Seq(Message)
      BY <2>8, <3>1, EnqueueStep DEF Enqueue
    <3>3. sent' \in [Task -> Nat]
      BY <2>8 DEF Enqueue
    <3> QED
      BY <3>2, <3>3
  <2>9. ASSUME NEW t \in Task, HandlerSend(t) PROVE TypeOK'
    BY <2>8, <2>9 DEF HandlerSend
  <2>10. CASE HandlerSignal
    BY <2>10 DEF HandlerSignal, SetEvent
  <2>11. ASSUME NEW t \in Task, NEW e \in TaskEvent, SetOwn(t, e) PROVE TypeOK'
    <3>1. tasksEvents' \in [Task -> SUBSET Event]
      BY <2>11 DEF SetOwn, SetEvent
    <3>2. owed' \subseteq Task \X TaskEvent
      BY <2>11 DEF SetOwn
    <3>3. sets' \in Nat
      BY <2>11 DEF SetOwn
    <3> QED
      BY <2>11, <3>1, <3>2, <3>3 DEF SetOwn
  <2>12. ASSUME NEW t \in Task, IsrSend(t) PROVE TypeOK'
    BY <2>8, <2>12 DEF IsrSend, SetEvent
  <2>13. CASE UNCHANGED vars
    BY <2>13 DEF vars
  <2> QED
    BY <2>1, <2>2, <2>3, <2>4, <2>5, <2>6, <2>7, <2>9, <2>10, <2>11, <2>12, <2>13
    DEF Next, Thread, Isr, HandlerSet, IsrSet
<1> QED
  BY <1>1, <1>2, PTL DEF Spec

-----------------------------------------------------------------------------
(* Nothing is lost *)

\* No lost wake-up: the receive that takes the only message is the only one to
\* clear SYS_EVENT_MSG, a send sets it, and what is taken with the events of a
\* task is kept in events until a receive has found the queue empty.
THEOREM WakeupsKept == Spec => []NoLostWakeup
<1>1. Init => NoLostWakeup
  BY DEF Init, NoLostWakeup, Places
<1>2. TypeOK /\ NoLostWakeup /\ [Next]_vars => NoLostWakeup'
  <2> SUFFICES ASSUME TypeOK, NoLostWakeup, [Next]_vars, NEW t \in Task,
                      Places(osal_qHead', t) # {}
               PROVE  \/ SYS_EVENT_MSG \in tasksEvents'[t]
                      \/ target' = t
                      \/ idx' = t /\ SYS_EVENT_MSG \in events'
    BY DEF NoLostWakeup, Places
  <2> DEFINE Awake == \/ SYS_EVENT_MSG \in tasksEvents[t]
                      \/ target = t
                      \/ idx = t /\ SYS_EVENT_MSG \in events
             Goal == \/ SYS_EVENT_MSG \in tasksEvents'[t]
                     \/ target' = t
                     \/ idx' = t /\ SYS_EVENT_MSG \in events'
  <2>0. Places(osal_qHead, t) # {} => Awake
    BY DEF NoLostWakeup
  <2>t. /\ tasksEvents \in [Task -> SUBSET Event] /\ osal_qHead \in Seq(Message)
        /\ idx \in Task
        /\ pc \in {"scan", "take"} => events = {}
    BY DEF TypeOK
  <2>1. CASE Look
    BY <2>0, <2>t, <2>1 DEF Look
  <2>2. CASE Take
    BY <2>0, <2>t, <2>2 DEF Take
  <2>3. CASE Restore
    BY <2>0, <2>t, <2>3 DEF Restore, Restored
  <2>4. ASSUME NEW i \in DOMAIN osal_qHead, Receive(i) PROVE Goal
    <3>1. Places(osal_qHead, t) \ {i} # {}
      BY <2>4, <2>t, ExtractStep DEF Receive
    <3>2. CASE t = idx
      <4>1. Places(osal_qHead, idx) # {i}
        BY <3>1, <3>2
      <4>2. tasksEvents'[idx] = Signalled(tasksEvents[idx], Places(osal_qHead, idx) # {i})
        BY <2>4, <2>t DEF Receive
      <4>3. tasksEvents'[idx] = tasksEvents[idx] \cup {SYS_EVENT_MSG}
        BY <4>1, <4>2 DEF Signalled
      <4> QED
        BY <3>2, <4>3
    <3>3. CASE t # idx
      BY <2>0, <2>4, <2>t, <3>1, <3>3 DEF Receive
    <3> QED
      BY <3>2, <3>3
  <2>5. CASE ReceiveNothing
    BY <2>0, <2>t, <2>5 DEF ReceiveNothing
  <2>6. ASSUME NEW e \in TaskEvent, ProcessOwn(e) PROVE Goal
    BY <2>0, <2>6, EventAssumption DEF ProcessOwn
  <2>7. CASE Done
    BY <2>0, <2>7 DEF Done
  <2>8. ASSUME NEW u \in Task, Enqueue(u)
        PROVE  t = u \/ Awake
    <3> DEFINE m == [dest |-> u, no |-> sent[u] + 1]
    <3>1. m \in Message /\ osal_qHead' = Enqueued(osal_qHead, m)
      BY <2>8 DEF Enqueue, Message, TypeOK
    <3>2. Places(osal_qHead', t) # {} => t = u \/ Places(osal_qHead, t) # {}
      BY <2>t, <3>1, EnqueueStep
    <3> QED
      BY <2>0, <3>2
  <2>9. ASSUME NEW u \in Task, HandlerSend(u) PROVE Goal
    BY <2>8, <2>9, TasksAssumption DEF HandlerSend, Task, NoTask
  <2>10. CASE HandlerSignal
    BY <2>0, <2>t, <2>10 DEF HandlerSignal, SetEvent
  <2>11. ASSUME NEW u \in Task, NEW e \in TaskEvent, SetOwn(u, e) PROVE Goal
    BY <2>0, <2>t, <2>11 DEF SetOwn, SetEvent
  <2>12. ASSUME NEW u \in Task, IsrSend(u) PROVE Goal
    BY <2>8, <2>t, <2>12 DEF IsrSend, SetEvent
  <2>13. CASE UNCHANGED vars
    BY <2>0, <2>13 DEF vars
  <2> QED
    BY <2>1, <2>2, <2>3, <2>4, <2>5, <2>6, <2>7, <2>9, <2>10, <2>11, <2>12, <2>13
    DEF Next, Thread, Isr, HandlerSet, IsrSet
<1> QED
  BY <1>1, <1>2, TypeCorrect, PTL DEF Spec

\* No lost event: events are taken and put back in critical sections, and put
\* back by adding them to those set meanwhile.
THEOREM EventsKept == Spec => []NoLostEvent
<1>1. Init => NoLostEvent
  BY DEF Init, NoLostEvent
<1>2. TypeOK /\ NoLostEvent /\ [Next]_vars => NoLostEvent'
  <2> SUFFICES ASSUME TypeOK, NoLostEvent, [Next]_vars,
                      NEW t \in Task, NEW e \in TaskEvent, <<t, e>> \in owed'
               PROVE  e \in tasksEvents'[t] \/ (idx' = t /\ e \in events')
    BY DEF NoLostEvent
  <2> DEFINE Goal == e \in tasksEvents'[t] \/ (idx' = t /\ e \in events')
  <2>0. <<t, e>> \in owed => e \in tasksEvents[t] \/ (idx = t /\ e \in events)
    BY DEF NoLostEvent
  <2>t. /\ tasksEvents \in [Task -> SUBSET Event]
        /\ idx \in Task
        /\ pc \in {"scan", "take"} => events = {}
        /\ e # SYS_EVENT_MSG
    BY EventAssumption DEF TypeOK
  <2>1. CASE Look
    BY <2>0, <2>t, <2>1 DEF Look
  <2>2. CASE Take
    BY <2>0, <2>t, <2>2 DEF Take
  <2>3. CASE Restore
    BY <2>0, <2>t, <2>3 DEF Restore, Restored
  <2>4. ASSUME NEW i \in DOMAIN osal_qHead, Receive(i) PROVE Goal
    BY <2>0, <2>t, <2>4 DEF Receive, Signalled
  <2>5. CASE ReceiveNothing
    BY <2>0, <2>t, <2>5 DEF ReceiveNothing, Signalled
  <2>6. ASSUME NEW d \in TaskEvent, ProcessOwn(d) PROVE Goal
    BY <2>0, <2>6 DEF ProcessOwn
  <2>7. CASE Done
    BY <2>0, <2>7 DEF Done
  <2>8. ASSUME NEW u \in Task, HandlerSend(u) \/ IsrSend(u) PROVE Goal
    BY <2>0, <2>t, <2>8 DEF HandlerSend, IsrSend, SetEvent
  <2>9. CASE HandlerSignal
    BY <2>0, <2>t, <2>9 DEF HandlerSignal, SetEvent
  <2>10. ASSUME NEW u \in Task, NEW d \in TaskEvent, SetOwn(u, d) PROVE Goal
    BY <2>0, <2>t, <2>10 DEF SetOwn, SetEvent
  <2>11. CASE UNCHANGED vars
    BY <2>0, <2>11 DEF vars
  <2> QED
    BY <2>1, <2>2, <2>3, <2>4, <2>5, <2>6, <2>7, <2>8, <2>9, <2>10, <2>11
    DEF Next, Thread, Isr, HandlerSet, IsrSet
<1> QED
  BY <1>1, <1>2, TypeCorrect, PTL DEF Spec

-----------------------------------------------------------------------------
(* The order of messages *)

\* Where the messages for task t are in queue q, as far as place n.
UpTo(q, t, n) == {j \in Places(q, t) : j <= n}

\* Where the message at place n was before the one at place i was taken out.
Was(i, n) == IF n < i THEN n ELSE n + 1

\* A queue is finite.
LEMMA UpToFinite ==
  ASSUME NEW q \in Seq(Message), NEW t, NEW n
  PROVE  IsFiniteSet(UpTo(q, t, n)) /\ Cardinality(UpTo(q, t, n)) \in Nat
<1>1. IsFiniteSet(1 .. Len(q)) /\ UpTo(q, t, n) \in SUBSET (1 .. Len(q))
  BY FS_Interval DEF UpTo, Places
<1>2. IsFiniteSet(UpTo(q, t, n))
  BY <1>1, FS_Subset
<1> QED
  BY <1>2, FS_CardinalityType

\* All the messages for a task are those as far as the end.
LEMMA UpToAll ==
  ASSUME NEW q \in Seq(Message), NEW t
  PROVE  UpTo(q, t, Len(q)) = Places(q, t)
BY DEF UpTo, Places

\* Without one message there is one less.
LEMMA RemoveCount ==
  ASSUME NEW q \in Seq(Message), NEW t, NEW n, NEW i
  PROVE  Cardinality(UpTo(q, t, n) \ {i}) =
           Cardinality(UpTo(q, t, n)) - (IF i \in UpTo(q, t, n) THEN 1 ELSE 0)
<1>1. IsFiniteSet(UpTo(q, t, n)) /\ Cardinality(UpTo(q, t, n)) \in Nat
  BY UpToFinite
<1>2. Cardinality(UpTo(q, t, n) \ {i}) =
        IF i \in UpTo(q, t, n) THEN Cardinality(UpTo(q, t, n)) - 1 ELSE Cardinality(UpTo(q, t, n))
  BY <1>1, FS_RemoveElement
<1> QED
  BY <1>1, <1>2

\* Taking a message out leaves the others, and their order.
LEMMA ExtractCount ==
  ASSUME NEW q \in Seq(Message), NEW i \in DOMAIN q, NEW t \in Task, NEW n \in 0 .. Len(q) - 1
  PROVE  Cardinality(UpTo(Without(q, i), t, n)) = Cardinality(UpTo(q, t, Was(i, n)) \ {i})
<1> DEFINE S == UpTo(Without(q, i), t, n)
           T == UpTo(q, t, Was(i, n)) \ {i}
           f == [j \in S |-> Was(i, j)]
<1>1. Len(q) \in Nat /\ i \in 1 .. Len(q) /\ DOMAIN q = 1 .. Len(q)
  OBVIOUS
<1>2. DOMAIN Without(q, i) = 1 .. Len(q) - 1
  BY DEF Without
<1>3. \A j \in 1 .. Len(q) - 1 : Without(q, i)[j] = q[Was(i, j)]
  BY <1>1 DEF Without, Was
<1>s. S = {j \in 1 .. Len(q) - 1 : q[Was(i, j)].dest = t /\ j <= n}
  BY <1>2, <1>3 DEF UpTo, Places
<1>t. T = {j \in 1 .. Len(q) : q[j].dest = t /\ j <= Was(i, n) /\ j # i}
  BY <1>1 DEF UpTo, Places
<1> HIDE DEF S, T
<1>4. \A j \in S : Was(i, j) \in T
  BY <1>1, <1>s, <1>t DEF Was
<1>5. \A j, k \in S : Was(i, j) = Was(i, k) => j = k
  BY <1>1, <1>s DEF Was
<1>6. \A k \in T : \E j \in S : Was(i, j) = k
  <2> SUFFICES ASSUME NEW k \in T PROVE \E j \in S : Was(i, j) = k
    OBVIOUS
  <2>1. CASE k < i
    <3>1. k \in S /\ Was(i, k) = k
      BY <1>1, <1>s, <1>t, <2>1 DEF Was
    <3> QED
      BY <3>1
  <2>2. CASE ~(k < i)
    <3>1. k - 1 \in S /\ Was(i, k - 1) = k
      BY <1>1, <1>s, <1>t, <2>2 DEF Was
    <3> QED
      BY <3>1
  <2> QED
    BY <2>1, <2>2
<1>7. f \in Bijection(S, T)
  <2>1. f \in [S -> T] /\ \A j \in S : f[j] = Was(i, j)
    BY <1>4
  <2>2. (\A j, k \in S : f[j] = f[k] => j = k) /\ (\A k \in T : \E j \in S : f[j] = k)
    BY <1>5, <1>6, <2>1
  <2> HIDE DEF f
  <2> QED
    BY <2>1, <2>2, Fun_IsBij
<1>8. IsFiniteSet(S)
  BY <1>1, UpToFinite, ExtractStep DEF S
<1>9. Cardinality(T) = Cardinality(S)
  <2>1. ExistsBijection(S, T)
    BY <1>7 DEF ExistsBijection
  <2> QED
    BY <1>8, <2>1, FS_Bijection
<1> QED
  BY <1>9 DEF S, T

\* A new message comes behind all others.
LEMMA EnqueueCount ==
  ASSUME NEW q \in Seq(Message), NEW m \in Message, NEW t \in Task
  PROVE  /\ \A n \in 0 .. Len(q) : UpTo(Enqueued(q, m), t, n) = UpTo(q, t, n)
         /\ Cardinality(Places(Enqueued(q, m), t)) =
              Cardinality(Places(q, t)) + (IF m.dest = t THEN 1 ELSE 0)
<1>1. /\ Len(q) \in Nat /\ DOMAIN Enqueued(q, m) = 1 .. Len(q) + 1
      /\ \A j \in 1 .. Len(q) : Enqueued(q, m)[j] = q[j]
      /\ Enqueued(q, m)[Len(q) + 1] = m
  BY DEF Enqueued
<1>2. Places(Enqueued(q, m), t) = Places(q, t) \cup (IF m.dest = t THEN {Len(q) + 1} ELSE {})
  BY <1>1 DEF Places
<1>3. Len(q) + 1 \notin Places(q, t)
  BY DEF Places
<1>4. IsFiniteSet(Places(q, t)) /\ Cardinality(Places(q, t)) \in Nat
  BY UpToFinite, UpToAll
<1>5. Cardinality(Places(q, t) \cup {Len(q) + 1}) = Cardinality(Places(q, t)) + 1
  BY <1>3, <1>4, FS_AddElement
<1>6. \A n \in 0 .. Len(q) : UpTo(Enqueued(q, m), t, n) = UpTo(q, t, n)
  BY <1>1, <1>2 DEF UpTo
<1>7. CASE m.dest = t
  BY <1>2, <1>5, <1>6, <1>7
<1>8. CASE m.dest # t
  <2>1. Places(Enqueued(q, m), t) = Places(q, t)
    BY <1>2, <1>8
  <2> QED
    BY <1>4, <1>6, <1>8, <2>1
<1> QED
  BY <1>7, <1>8

\* Messages in order: a message takes the place behind all others, and a
\* receive the first of its task's, which moves up those behind it, of its own
\* task and of others (osal_msg_enqueue, osal_msg_receive, osal_msg_extract).
THEOREM MessagesInOrder == Spec => []InOrder
<1>1. Init => InOrder
  <2> SUFFICES ASSUME Init PROVE InOrder
    OBVIOUS
  <2>1. \A t \in Task : Places(osal_qHead, t) = {} /\ received[t] = 0 /\ sent[t] = 0
    BY DEF Init, Places
  <2>2. DOMAIN osal_qHead = {}
    BY DEF Init
  <2> QED
    BY <2>1, <2>2, FS_EmptySet DEF InOrder
<1>2. TypeOK /\ InOrder /\ [Next]_vars => InOrder'
  <2> SUFFICES ASSUME TypeOK, InOrder, [Next]_vars PROVE InOrder'
    OBVIOUS
  <2> DEFINE q == osal_qHead
  <2>t. /\ q \in Seq(Message) /\ sent \in [Task -> Nat] /\ received \in [Task -> Nat]
        /\ idx \in Task /\ Len(q) \in Nat /\ DOMAIN q = 1 .. Len(q)
        /\ \A j \in DOMAIN q : q[j].dest \in Task /\ q[j].no \in Nat
    <3>1. /\ q \in Seq(Message) /\ sent \in [Task -> Nat] /\ received \in [Task -> Nat]
          /\ idx \in Task
      BY DEF TypeOK
    <3> HIDE DEF q
    <3>2. Len(q) \in Nat /\ DOMAIN q = 1 .. Len(q)
      BY <3>1
    <3>3. \A j \in DOMAIN q : q[j] \in Message
      BY <3>1
    <3> QED
      BY <3>1, <3>2, <3>3 DEF Message
  <2>a. \A t \in Task : received[t] + Cardinality(Places(q, t)) = sent[t]
    BY DEF InOrder
  <2>b. \A j \in DOMAIN q : q[j].no = received[q[j].dest] + Cardinality(UpTo(q, q[j].dest, j))
    BY DEF InOrder, UpTo
  <2>c. ASSUME \A t \in Task : received'[t] + Cardinality(Places(q', t)) = sent'[t],
               \A j \in DOMAIN q' :
                 q'[j].no = received'[q'[j].dest] + Cardinality(UpTo(q', q'[j].dest, j))
        PROVE  InOrder'
    BY <2>c DEF InOrder, UpTo, Places
  <2>q. UNCHANGED <<osal_qHead, sent, received>> => InOrder'
    BY DEF InOrder, Places
  <2>1. ASSUME NEW u \in Task, Enqueue(u), UNCHANGED received PROVE InOrder'
    <3> DEFINE m == [dest |-> u, no |-> sent[u] + 1]
    <3>1. /\ m \in Message /\ q' = Enqueued(q, m)
          /\ sent' = [sent EXCEPT ![u] = @ + 1] /\ m.dest = u /\ m.no = sent[u] + 1
      BY <2>1, <2>t DEF Enqueue, Message
    <3>2. /\ q' \in Seq(Message) /\ Len(q') = Len(q) + 1 /\ DOMAIN q' = 1 .. Len(q) + 1
          /\ \A j \in 1 .. Len(q) : q'[j] = q[j]
          /\ q'[Len(q) + 1] = m
      BY <2>t, <3>1 DEF Enqueued
    <3> HIDE DEF q, m
    <3>3. \A t \in Task : Cardinality(Places(q, t)) \in Nat
      BY <2>t, UpToFinite, UpToAll
    <3>4. \A t \in Task :
            /\ \A n \in 0 .. Len(q) : UpTo(q', t, n) = UpTo(q, t, n)
            /\ Cardinality(Places(q', t)) = Cardinality(Places(q, t)) + (IF u = t THEN 1 ELSE 0)
      BY <2>t, <3>1, EnqueueCount
    <3>5. \A t \in Task : received'[t] + Cardinality(Places(q', t)) = sent'[t]
      BY <2>1, <2>a, <2>t, <3>1, <3>3, <3>4, SMTT(30)
    <3>6. ASSUME NEW j \in DOMAIN q'
          PROVE  q'[j].no = received'[q'[j].dest] + Cardinality(UpTo(q', q'[j].dest, j))
      <4>1. CASE j \in 1 .. Len(q)
        <5>1. UpTo(q', q'[j].dest, j) = UpTo(q, q[j].dest, j)
          BY <2>t, <3>2, <3>4, <4>1
        <5> QED
          BY <2>1, <2>b, <2>t, <3>2, <4>1, <5>1
      <4>2. CASE j = Len(q) + 1
        <5>1. UpTo(q', u, j) = Places(q', u)
          BY <3>2, <4>2, UpToAll
        <5>2. received'[u] + Cardinality(Places(q', u)) = sent[u] + 1
          BY <2>t, <3>1, <3>5
        <5> QED
          BY <3>1, <3>2, <4>2, <5>1, <5>2
      <4> QED
        BY <2>t, <3>2, <4>1, <4>2
    <3> QED
      BY <2>c, <3>5, <3>6
  <2>2. ASSUME NEW i \in DOMAIN osal_qHead, Receive(i) PROVE InOrder'
    <3>1. /\ IsFirst(q, idx, i) /\ q' = Without(q, i) /\ sent' = sent
          /\ received' = [received EXCEPT ![idx] = @ + 1]
      BY <2>2 DEF Receive
    <3>2. /\ i \in 1 .. Len(q) /\ q[i].dest = idx /\ i \in Places(q, idx)
          /\ \A j \in Places(q, idx) : i <= j
      BY <2>t, <3>1 DEF IsFirst, Places
    <3>3. /\ q' \in Seq(Message) /\ Len(q') = Len(q) - 1 /\ DOMAIN q' = 1 .. Len(q) - 1
          /\ \A j \in 1 .. Len(q) - 1 : q'[j] = q[Was(i, j)] /\ Was(i, j) \in 1 .. Len(q)
      <4>1. q' \in Seq(Message)
        BY <2>t, <3>1, <3>2, ExtractStep
      <4>2. DOMAIN q' = 1 .. Len(q) - 1 /\ \A j \in 1 .. Len(q) - 1 : q'[j] = q[Was(i, j)]
        BY <2>t, <3>1, <3>2 DEF Without, Was
      <4>3. \A j \in 1 .. Len(q) - 1 : Was(i, j) \in 1 .. Len(q)
        BY <2>t, <3>2 DEF Was
      <4>4. Len(q') = Len(q) - 1
        BY <2>t, <3>1, <3>2 DEF Without
      <4> QED
        BY <4>1, <4>2, <4>3, <4>4
    <3> HIDE DEF q
    <3>c. ASSUME NEW t \in Task, NEW n \in 0 .. Len(q) - 1
          PROVE  Cardinality(UpTo(q', t, n)) = Cardinality(UpTo(q, t, Was(i, n)) \ {i})
      <4>1. q \in Seq(Message) /\ i \in DOMAIN q
        BY <2>t, <3>2
      <4>2. Cardinality(UpTo(Without(q, i), t, n)) = Cardinality(UpTo(q, t, Was(i, n)) \ {i})
        BY <4>1, ExtractCount, ZenonT(40)
      <4> QED
        BY <3>1, <4>2
    <3>4. ASSUME NEW t \in Task, NEW n \in 0 .. Len(q) - 1, t = idx => i <= Was(i, n)
          PROVE  Cardinality(UpTo(q', t, n)) =
                   Cardinality(UpTo(q, t, Was(i, n))) - (IF t = idx THEN 1 ELSE 0)
      <4>1. Cardinality(UpTo(q', t, n)) = Cardinality(UpTo(q, t, Was(i, n)) \ {i})
        BY <3>c
      <4>2. i \in UpTo(q, t, Was(i, n)) <=> t = idx
        BY <3>2, <3>4 DEF UpTo, Places
      <4>3. Cardinality(UpTo(q, t, Was(i, n)) \ {i}) =
              Cardinality(UpTo(q, t, Was(i, n)))
                - (IF i \in UpTo(q, t, Was(i, n)) THEN 1 ELSE 0)
        BY <2>t, RemoveCount
      <4> QED
        BY <4>1, <4>2, <4>3
    <3>5. ASSUME NEW t \in Task
          PROVE  received'[t] + Cardinality(Places(q', t)) = sent'[t]
      <4> DEFINE n == Len(q) - 1
                 all == Len(q)
      <4>1. n \in 0 .. all - 1 /\ n \in Nat /\ n + 1 = all /\ i \in 1 .. n + 1
        <5>1. all \in Nat /\ i \in 1 .. all
          BY <2>t, <3>2
        <5> HIDE DEF all
        <5> QED
          BY <5>1 DEF all
      <4>2. UpTo(q', t, n) = Places(q', t) /\ UpTo(q, t, all) = Places(q, t)
        BY <2>t, <3>3, UpToAll
      <4>3. i \in Places(q, t) <=> t = idx
        BY <3>2 DEF Places
      <4>4. Cardinality(UpTo(q', t, n)) = Cardinality(UpTo(q, t, Was(i, n)) \ {i})
        BY <3>c, <4>1
      <4>6. UpTo(q, t, Was(i, n)) \ {i} = UpTo(q, t, all) \ {i}
        <5>1. Places(q, t) \subseteq 1 .. all
          BY <2>t DEF Places
        <5> HIDE DEF n, all
        <5>2. Was(i, n) = IF n < i THEN n ELSE all
          BY <4>1 DEF Was
        <5>3. \A j \in 1 .. all : j # i => (j <= Was(i, n) <=> j <= all)
          BY <4>1, <5>2
        <5> QED
          BY <5>1, <5>3 DEF UpTo
      <4>7. Cardinality(UpTo(q, t, all) \ {i}) =
              Cardinality(UpTo(q, t, all)) - (IF i \in UpTo(q, t, all) THEN 1 ELSE 0)
        BY <2>t, RemoveCount
      <4>8. Cardinality(Places(q', t)) = Cardinality(Places(q, t)) - (IF t = idx THEN 1 ELSE 0)
        BY <4>2, <4>3, <4>4, <4>6, <4>7
      <4>5. Cardinality(Places(q, t)) \in Nat
        BY <2>t, UpToFinite, UpToAll
      <4> QED
        BY <2>a, <2>t, <3>1, <4>5, <4>8
    <3>6. ASSUME NEW j \in DOMAIN q'
          PROVE  q'[j].no = received'[q'[j].dest] + Cardinality(UpTo(q', q'[j].dest, j))
      <4> DEFINE k == Was(i, j)
                 t == q[k].dest
      <4>1. /\ j \in 1 .. Len(q) - 1 /\ j \in 0 .. Len(q) - 1
            /\ k \in 1 .. Len(q) /\ q'[j] = q[k] /\ t \in Task
        BY <2>t, <3>3
      <4>2. t = idx => i <= k
        BY <2>t, <3>2, <4>1 DEF Places
      <4>3. Cardinality(UpTo(q', t, j)) = Cardinality(UpTo(q, t, k)) - (IF t = idx THEN 1 ELSE 0)
        BY <3>4, <4>1, <4>2
      <4>4. q[k].no = received[t] + Cardinality(UpTo(q, t, k))
        BY <2>b, <2>t, <4>1
      <4>5. Cardinality(UpTo(q, t, k)) \in Nat
        BY <2>t, UpToFinite
      <4> HIDE DEF k
      <4>6. received'[t] = received[t] + (IF t = idx THEN 1 ELSE 0) /\ received[t] \in Nat
        BY <2>t, <3>1, <4>1
      <4> HIDE DEF t
      <4>7. q[k].no = received'[t] + Cardinality(UpTo(q', t, j))
        BY <4>3, <4>4, <4>5, <4>6
      <4> QED
        BY <4>1, <4>7 DEF t
    <3> QED
      BY <2>c, <3>5, <3>6
  <2>3. CASE Look \/ Take \/ Restore \/ ReceiveNothing \/ Done \/ HandlerSignal
    BY <2>3, <2>q DEF Look, Take, Restore, ReceiveNothing, Done, HandlerSignal
  <2>4. ASSUME NEW e \in TaskEvent, ProcessOwn(e) PROVE InOrder'
    BY <2>4, <2>q DEF ProcessOwn
  <2>5. ASSUME NEW u \in Task, HandlerSend(u) \/ IsrSend(u) PROVE InOrder'
    BY <2>1, <2>5 DEF HandlerSend, IsrSend
  <2>6. ASSUME NEW u \in Task, NEW e \in TaskEvent, SetOwn(u, e) PROVE InOrder'
    BY <2>6, <2>q DEF SetOwn
  <2>7. CASE UNCHANGED vars
    BY <2>7, <2>q DEF vars
  <2> QED
    BY <2>2, <2>3, <2>4, <2>5, <2>6, <2>7 DEF Next, Thread, Isr, HandlerSet, IsrSet
<1> QED
  BY <1>1, <1>2, TypeCorrect, PTL DEF Spec

=============================================================================
