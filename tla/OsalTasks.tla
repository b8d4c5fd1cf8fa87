------------------------------ MODULE OsalTasks ------------------------------
(***************************************************************************)
(* The task loop and the message queue of OSAL (OSAL.c): one thread that   *)
(* looks for the first task with an event, takes its events, calls its     *)
(* handler and puts back what the handler left; one queue for the messages *)
(* of all tasks, of which SYS_EVENT_MSG tells a task.  Interrupts come in  *)
(* between any two critical sections; an interrupt routine runs as a whole.*)
(*                                                                         *)
(* A handler works on one event per call, SYS_EVENT_MSG first.  Those in   *)
(* Draining receive until the queue has no more for them, as               *)
(* SmartHomeApp_ProcessEvent does, the others once, as MT_ProcessEvent.    *)
(***************************************************************************)
EXTENDS Naturals, Sequences, FiniteSets

CONSTANTS
  tasksCnt,    \* number of tasks; a smaller number is a higher priority
  Draining,    \* the tasks that receive until there is no more
  TaskEvent,   \* the events of the tasks' own
  MaxSends,    \* bound: messages sent
  MaxSets      \* bound: own events set

SYS_EVENT_MSG == "SYS_EVENT_MSG"
Task == 0 .. tasksCnt - 1
Event == TaskEvent \cup {SYS_EVENT_MSG}
NoTask == tasksCnt

ASSUME TasksAssumption == tasksCnt \in Nat \ {0} /\ Draining \subseteq Task
ASSUME EventAssumption == SYS_EVENT_MSG \notin TaskEvent
ASSUME BoundAssumption == MaxSends \in Nat /\ MaxSets \in Nat

VARIABLES
  osal_qHead,   \* the queue
  tasksEvents,
  pc,           \* where osal_run_system is
  idx,          \* the task it looks at or runs
  events,       \* the events taken for that task and not worked on yet
  target,       \* the task whose message is queued and not signalled yet
  sent,         \* history: messages sent to each task
  received,     \* history: messages received by each task
  owed,         \* history: pairs of a task and an own event set for it and
                \* not worked on since
  sets          \* history: own events set

vars == <<osal_qHead, tasksEvents, pc, idx, events, target, sent, received, owed, sets>>

\* no: the how-manieth message to dest this is.
Message == [dest : Task, no : Nat]

Init ==
  /\ osal_qHead = <<>>
  /\ tasksEvents = [t \in Task |-> {}]
  /\ pc = "scan"
  /\ idx = 0
  /\ events = {}
  /\ target = NoTask
  /\ sent = [t \in Task |-> 0]
  /\ received = [t \in Task |-> 0]
  /\ owed = {}
  /\ sets = 0

-----------------------------------------------------------------------------
(* The queue *)

\* Where the messages for task t are in queue q.
Places(q, t) == {i \in DOMAIN q : q[i].dest = t}

\* osal_msg_receive takes the first one.
IsFirst(q, t, i) == i \in Places(q, t) /\ \A j \in Places(q, t) : i <= j

\* osal_msg_extract.
Without(q, i) == [j \in 1 .. Len(q) - 1 |-> IF j < i THEN q[j] ELSE q[j + 1]]

\* Mutant: osal_msg_enqueue puts the new message at the head (osal_msg_push).
Pushed(q, m) == <<m>> \o q

\* osal_msg_enqueue.
Enqueued(q, m) == Append(q, m)

\* Mutant: a second message does not set SYS_EVENT_MSG again.
SignalledOnce(evs, more) == evs \ {SYS_EVENT_MSG}

\* osal_msg_receive: SYS_EVENT_MSG is set if there is more than one message
\* for the task, and cleared otherwise.
Signalled(evs, more) ==
  IF more THEN evs \cup {SYS_EVENT_MSG} ELSE evs \ {SYS_EVENT_MSG}

-----------------------------------------------------------------------------
(* osal_run_system *)

\* Mutant: the end of the table is not seen.
AfterLookFar(i) == i + 1

\* Mutant: the last task is never looked at.
AfterLookShort(i) == IF i + 2 < tasksCnt THEN i + 1 ELSE 0

\* The task looked at after task i had no event: the next one, or the first
\* one in the next call of osal_run_system.
AfterLook(i) == IF i + 1 < tasksCnt THEN i + 1 ELSE 0

\* Mutant: what the handler left replaces the events set meanwhile.
RestoredOver(evs, left) == left

\* "Add back unprocessed events to the current task."
Restored(evs, left) == evs \cup left

\* One look at tasksEvents[idx], outside a critical section.
Look ==
  /\ pc = "scan"
  /\ IF tasksEvents[idx] # {} THEN pc' = "take" /\ UNCHANGED idx
     ELSE idx' = AfterLook(idx) /\ UNCHANGED pc
  /\ UNCHANGED <<osal_qHead, tasksEvents, events, target, sent, received, owed, sets>>

Take ==
  /\ pc = "take"
  /\ events' = tasksEvents[idx]
  /\ tasksEvents' = [tasksEvents EXCEPT ![idx] = {}]
  /\ pc' = "call"
  /\ UNCHANGED <<osal_qHead, idx, target, sent, received, owed, sets>>

Restore ==
  /\ pc = "restore"
  /\ tasksEvents' = [tasksEvents EXCEPT ![idx] = Restored(@, events)]
  /\ events' = {}
  /\ idx' = 0
  /\ pc' = "scan"
  /\ UNCHANGED <<osal_qHead, target, sent, received, owed, sets>>

-----------------------------------------------------------------------------
(* A handler *)

\* osal_msg_receive finds a message, at place i, for the handler to work on.
Receive(i) ==
  /\ pc = "call"
  /\ SYS_EVENT_MSG \in events
  /\ IsFirst(osal_qHead, idx, i)
  /\ osal_qHead' = Without(osal_qHead, i)
  /\ tasksEvents' = [tasksEvents EXCEPT ![idx] = Signalled(@, Places(osal_qHead, idx) # {i})]
  /\ received' = [received EXCEPT ![idx] = @ + 1]
  /\ events' = IF idx \in Draining THEN events ELSE events \ {SYS_EVENT_MSG}
  /\ pc' = "handle"
  /\ UNCHANGED <<idx, target, sent, owed, sets>>

\* osal_msg_receive returns NULL: no more messages, the handler returns.
ReceiveNothing ==
  /\ pc = "call"
  /\ SYS_EVENT_MSG \in events
  /\ Places(osal_qHead, idx) = {}
  /\ tasksEvents' = [tasksEvents EXCEPT ![idx] = Signalled(@, FALSE)]
  /\ events' = events \ {SYS_EVENT_MSG}
  /\ pc' = "restore"
  /\ UNCHANGED <<osal_qHead, idx, target, sent, received, owed, sets>>

\* The handler works on an event of its own.
ProcessOwn(e) ==
  /\ pc = "call"
  /\ SYS_EVENT_MSG \notin events
  /\ e \in events
  /\ events' = events \ {e}
  /\ owed' = owed \ {<<idx, e>>}
  /\ pc' = "handle"
  /\ UNCHANGED <<osal_qHead, tasksEvents, idx, target, sent, received, sets>>

\* The handler is done: a draining one receives again after a message.
Done ==
  /\ pc = "handle"
  /\ target = NoTask
  /\ pc' = IF SYS_EVENT_MSG \in events THEN "call" ELSE "restore"
  /\ UNCHANGED <<osal_qHead, tasksEvents, idx, events, target, sent, received, owed, sets>>

\* osal_msg_send to task t, as far as osal_msg_enqueue.
Enqueue(t) ==
  /\ sent[t] < MaxSends
  /\ osal_qHead' = Enqueued(osal_qHead, [dest |-> t, no |-> sent[t] + 1])
  /\ sent' = [sent EXCEPT ![t] = @ + 1]

\* osal_set_event.
SetEvent(t, e) == tasksEvents' = [tasksEvents EXCEPT ![t] = @ \cup {e}]

\* The handler sends a message: it is queued in one critical section ...
HandlerSend(t) ==
  /\ pc = "handle"
  /\ target = NoTask
  /\ Enqueue(t)
  /\ target' = t
  /\ UNCHANGED <<tasksEvents, pc, idx, events, received, owed, sets>>

\* ... and its task is told in the next.
HandlerSignal ==
  /\ target # NoTask
  /\ SetEvent(target, SYS_EVENT_MSG)
  /\ target' = NoTask
  /\ UNCHANGED <<osal_qHead, pc, idx, events, sent, received, owed, sets>>

SetOwn(t, e) ==
  /\ sets < MaxSets
  /\ SetEvent(t, e)
  /\ sets' = sets + 1
  /\ owed' = owed \cup {<<t, e>>}
  /\ UNCHANGED <<osal_qHead, pc, idx, events, target, sent, received>>

\* The handler sets an event, for itself or for another task.
HandlerSet(t, e) == pc = "handle" /\ target = NoTask /\ SetOwn(t, e)

-----------------------------------------------------------------------------
(* Interrupt routines *)

\* osal_msg_send as a whole, between any two steps of the thread.
IsrSend(t) ==
  /\ Enqueue(t)
  /\ SetEvent(t, SYS_EVENT_MSG)
  /\ UNCHANGED <<pc, idx, events, target, received, owed, sets>>

\* osal_set_event, also from osalTimerUpdate.
IsrSet(t, e) == SetOwn(t, e)

-----------------------------------------------------------------------------

Thread ==
  \/ Look
  \/ Take
  \/ Restore
  \/ \E i \in DOMAIN osal_qHead : Receive(i)
  \/ ReceiveNothing
  \/ \E e \in TaskEvent : ProcessOwn(e)
  \/ Done
  \/ \E t \in Task : HandlerSend(t)
  \/ HandlerSignal
  \/ \E t \in Task, e \in TaskEvent : HandlerSet(t, e)

Isr ==
  \/ \E t \in Task : IsrSend(t)
  \/ \E t \in Task, e \in TaskEvent : IsrSet(t, e)

Next == Thread \/ Isr

Spec == Init /\ [][Next]_vars

\* osal_start_system calls osal_run_system for ever, and every handler ends.
FairSpec == Spec /\ WF_vars(Thread)

-----------------------------------------------------------------------------
(* Properties *)

\* Every variable is of its type; outside a handler no events are held and
\* no message waits for its signal.
TypeOK ==
  /\ osal_qHead \in Seq(Message)
  /\ tasksEvents \in [Task -> SUBSET Event]
  /\ pc \in {"scan", "take", "call", "handle", "restore"}
  /\ idx \in Task
  /\ events \subseteq Event
  /\ target \in Task \cup {NoTask}
  /\ sent \in [Task -> Nat]
  /\ received \in [Task -> Nat]
  /\ owed \subseteq Task \X TaskEvent
  /\ sets \in Nat
  /\ pc \in {"scan", "take"} => events = {}
  /\ pc # "handle" => target = NoTask

\* No lost wake-up: a task with a message in the queue has SYS_EVENT_MSG set,
\* or is being called for it, or its sender is about to set it; whatever
\* interrupts send between the critical sections, and although a receive
\* clears the event behind the back of a sender.
NoLostWakeup ==
  \A t \in Task :
    Places(osal_qHead, t) # {} =>
      \/ SYS_EVENT_MSG \in tasksEvents[t]
      \/ target = t
      \/ idx = t /\ SYS_EVENT_MSG \in events

\* No lost event: an event set while its task runs, or while its task's events
\* are taken or put back, is kept until the task works on it.
NoLostEvent ==
  \A t \in Task, e \in TaskEvent :
    <<t, e>> \in owed => e \in tasksEvents[t] \/ (idx = t /\ e \in events)

\* Each task gets the messages sent to it in the order sent, each one once,
\* although they share a queue with those of other tasks.
InOrder ==
  /\ \A t \in Task : received[t] + Cardinality(Places(osal_qHead, t)) = sent[t]
  /\ \A i \in DOMAIN osal_qHead :
       osal_qHead[i].no = received[osal_qHead[i].dest]
         + Cardinality({j \in Places(osal_qHead, osal_qHead[i].dest) : j <= i})

\* When the sending ends every message is received and every event worked on
\* sooner or later, whatever the priority of its task.
AllDone == <>[](osal_qHead = <<>> /\ owed = {})

=============================================================================
