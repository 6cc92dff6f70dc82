---------------------------- MODULE AsyncLogger ----------------------------
(***************************************************************************)
(* log::AsyncLogger (src/log/async_logger.cpp): callers append items to    *)
(* m_queue, one worker writes them to the sinks in batches.                *)
(*                                                                         *)
(* A critical section is one step, with one exception: a thread whose wait *)
(* predicate is false owns m_mutex for one more step ("park") before it    *)
(* sleeps.  stop() and the worker's stores to m_processedSequence do not   *)
(* take the mutex, so they and their notify_all can fall into that step.   *)
(* Messages are their sequence numbers, all sinks are one, setters of the  *)
(* level, the style and the sinks are left out, shouldLog() is true.       *)
(***************************************************************************)
EXTENDS Integers, Sequences

CONSTANTS Thread,    \* the threads that call the logger
          Capacity,  \* m_queueCapacity
          Policy,    \* m_overflowPolicy; flush items block under either
          MaxSeq     \* bound: the calls to log() and flush() that take a number

ASSUME LoggerAssumption ==
    /\ Capacity \in Nat \ {0} /\ MaxSeq \in Nat
    /\ Policy \in {"Block", "DiscardNewest"}

VARIABLES queue,     \* m_queue
          stopping,  \* m_stopping
          nextSeq,   \* m_nextSequence
          processed, \* m_processedSequence
          pc, item,  \* where each caller is, and the item it made
          wpc, batch,\* where the worker is, and what is left of its batch
          sink,      \* the sequence numbers written to the sinks, in order
          flushed,   \* how many of them the last sink->flush() covered
          accepted,  \* history: the items put in m_queue, in order
          messages,  \* history: the numbers of the messages among them
          before,    \* history: Len(messages) when the caller's flush() began
          missed     \* history: callers, "worker": a notify_all came while parking

vars == <<queue, stopping, nextSeq, processed, pc, item, wpc, batch, sink,
          flushed, accepted, messages, before, missed>>
callers == <<pc, item, before>>
worker  == <<wpc, batch, processed, sink, flushed>>
history == <<accepted, messages>>

Kind == {"log", "flush"}   \* "flush": flushOnly
NoCall == [seq |-> 0, kind |-> "log"]

\* m_mutex is held between steps only by a thread about to sleep.
Free == wpc # "park" /\ \A t \in Thread : pc[t] \notin {"park", "flushPark"}

Init ==
    /\ queue = <<>> /\ batch = <<>> /\ sink = <<>> /\ accepted = <<>> /\ messages = <<>>
    /\ stopping = FALSE /\ nextSeq = 0 /\ processed = 0 /\ flushed = 0
    /\ pc = [t \in Thread |-> "idle"]
    /\ item = [t \in Thread |-> NoCall]
    /\ before = [t \in Thread |-> 0]
    /\ wpc = "test"
    /\ missed = {}

\* Steps that only move a caller, or only the worker.
Goto(t, p) ==
    /\ pc' = [pc EXCEPT ![t] = p]
    /\ UNCHANGED <<nextSeq, queue, stopping, item, before, worker, history, missed>>

WorkerGoto(w) ==
    /\ wpc' = w
    /\ UNCHANGED <<nextSeq, queue, stopping, callers, batch, processed, sink, flushed,
                   history, missed>>

\* t's call returns.
Return(t) ==
    /\ pc' = [pc EXCEPT ![t] = "idle"]
    /\ item' = [item EXCEPT ![t] = NoCall]
    /\ before' = [before EXCEPT ![t] = 0]

\* m_cv.notify_all() by somebody; pc after its own move is p, the worker's is w.
NotifyCv(p, w) ==
    /\ pc' = [t \in Thread |-> IF p[t] = "blocked" THEN "enqueue" ELSE p[t]]
    /\ wpc' = IF w = "blocked" THEN "test" ELSE w

\* m_flushCv.notify_all(), likewise.
NotifyFlushCv(p) ==
    pc' = [t \in Thread |-> IF p[t] = "flushBlocked" THEN "flushTest" ELSE p[t]]

-----------------------------------------------------------------------------
\* log() and flush() take a number before enqueueItem takes the mutex, so the
\* numbers can enter the queue out of order.

TakeNumber(t, kind) ==
    /\ nextSeq < MaxSeq
    /\ nextSeq' = nextSeq + 1
    /\ item' = [item EXCEPT ![t] = [seq |-> nextSeq + 1, kind |-> kind]]
    /\ pc' = [pc EXCEPT ![t] = "enqueue"]

CallLog(t) ==
    /\ pc[t] = "idle"
    /\ TakeNumber(t, "log")
    /\ UNCHANGED <<queue, stopping, worker, history, before, missed>>

CallFlush(t) ==
    /\ pc[t] = "idle"
    /\ \/ /\ stopping
          /\ pc' = [pc EXCEPT ![t] = "direct"]
          /\ UNCHANGED <<nextSeq, item, before>>
       \/ /\ ~stopping
          /\ TakeNumber(t, "flush")
          /\ before' = [before EXCEPT ![t] = Len(messages)]
    /\ UNCHANGED <<queue, stopping, worker, history, missed>>

\* flush() on a stopping logger flushes the sinks itself.
DirectFlush(t) ==
    /\ pc[t] = "direct" /\ Free
    /\ flushed' = Len(sink)
    /\ Return(t)
    /\ UNCHANGED <<nextSeq, queue, stopping, wpc, batch, processed,
                   sink, history, missed>>

\* enqueueItem
Waits(t) == Policy = "Block" \/ item[t].kind = "flush"

EnqueueRefused(t) ==
    /\ pc[t] = "enqueue" /\ Free
    /\ stopping \/ (~Waits(t) /\ Len(queue) >= Capacity)
    /\ \/ item[t].kind = "log" /\ Return(t)
       \/ /\ item[t].kind = "flush"
          /\ pc' = [pc EXCEPT ![t] = "direct"]
          /\ UNCHANGED <<item, before>>
    /\ UNCHANGED <<nextSeq, queue, stopping, worker, history, missed>>

EnqueueParks(t) ==
    /\ pc[t] = "enqueue" /\ Free
    /\ ~stopping /\ Waits(t) /\ Len(queue) >= Capacity
    /\ Goto(t, "park")

Enqueue(t) ==
    /\ pc[t] = "enqueue" /\ Free
    /\ ~stopping /\ Len(queue) < Capacity
    /\ queue' = Append(queue, item[t])
    /\ accepted' = Append(accepted, item[t])
    /\ messages' = IF item[t].kind = "log" THEN Append(messages, item[t].seq) ELSE messages
    /\ pc' = [pc EXCEPT ![t] = "notify"]
    /\ UNCHANGED <<nextSeq, stopping, item, before, worker, missed>>

EnqueueNotify(t) ==
    /\ pc[t] = "notify"
    /\ \/ /\ item[t].kind = "log"
          /\ NotifyCv([pc EXCEPT ![t] = "idle"], wpc)
          /\ item' = [item EXCEPT ![t] = NoCall]
       \/ /\ item[t].kind = "flush"
          /\ NotifyCv([pc EXCEPT ![t] = "flushTest"], wpc)
          /\ UNCHANGED item
    /\ UNCHANGED <<nextSeq, queue, stopping, before, batch, processed, sink, flushed,
                   history, missed>>

\* The wait of flush() for the worker.
FlushParks(t) ==
    /\ pc[t] = "flushTest" /\ Free
    /\ processed < item[t].seq
    /\ Goto(t, "flushPark")

\* Mutant: flush() waits for anything to be processed, not for its own number.
FlushReturnsEarly(t) ==
    /\ pc[t] = "flushTest" /\ Free
    /\ processed >= item[t].seq - 1
    /\ Return(t)
    /\ UNCHANGED <<nextSeq, queue, stopping, worker, history, missed>>

FlushReturns(t) ==
    /\ pc[t] = "flushTest" /\ Free
    /\ processed >= item[t].seq
    /\ Return(t)
    /\ missed' = missed \ {t}
    /\ UNCHANGED <<nextSeq, queue, stopping, worker, history>>

\* A parking caller falls asleep and releases the mutex.
Sleep(t) ==
    /\ pc[t] \in {"park", "flushPark"}
    /\ Goto(t, IF pc[t] = "park" THEN "blocked" ELSE "flushBlocked")

-----------------------------------------------------------------------------
\* stop(): a compare-exchange, the two notify_all, the join; no mutex.

Stop(t) ==
    /\ pc[t] = "idle" /\ ~stopping
    /\ stopping' = TRUE
    /\ pc' = [pc EXCEPT ![t] = "stopNotify"]
    /\ UNCHANGED <<nextSeq, queue, item, before, worker, history, missed>>

StopNotify(t) ==
    /\ pc[t] = "stopNotify"
    /\ NotifyCv([pc EXCEPT ![t] = "stopFlushNotify"], wpc)
    /\ missed' = missed \cup {w \in {"worker"} : wpc = "park"}
    /\ UNCHANGED <<nextSeq, queue, stopping, item, before, batch, processed, sink,
                   flushed, history>>

StopFlushNotify(t) ==
    /\ pc[t] = "stopFlushNotify"
    /\ NotifyFlushCv([pc EXCEPT ![t] = "join"])
    /\ UNCHANGED <<nextSeq, queue, stopping, item, before, worker, history, missed>>

Join(t) ==
    /\ pc[t] = "join" /\ wpc = "exited"
    /\ Goto(t, "idle")

-----------------------------------------------------------------------------
\* workerLoop

WorkerParks ==
    /\ wpc = "test" /\ Free
    /\ ~stopping /\ queue = <<>>
    /\ WorkerGoto("park")

WorkerSleeps ==
    /\ wpc = "park"
    /\ WorkerGoto("blocked")

\* Mutant: leaves the loop as soon as it sees the stop flag.
WorkerLeavesAtOnce ==
    /\ wpc = "test" /\ Free
    /\ stopping
    /\ WorkerGoto("final")

WorkerLeaves ==
    /\ wpc = "test" /\ Free
    /\ stopping /\ queue = <<>>
    /\ WorkerGoto("final")

SwapBatch ==
    /\ wpc = "test" /\ Free
    /\ queue # <<>>
    /\ batch' = queue /\ queue' = <<>>
    /\ wpc' = "notify"
    /\ UNCHANGED <<nextSeq, stopping, callers, processed, sink, flushed, history, missed>>

WorkerNotify ==
    /\ wpc = "notify"
    /\ NotifyCv(pc, "item")
    /\ UNCHANGED <<nextSeq, queue, stopping, item, before, batch, processed, sink,
                   flushed, history, missed>>

\* A message at or above m_flushOn is flushed at once.
WriteItem ==
    /\ wpc = "item" /\ batch # <<>>
    /\ LET x == Head(batch)
           written == IF x.kind = "flush" THEN sink ELSE Append(sink, x.seq)
       IN  /\ sink' = written
           /\ \/ flushed' = Len(written)
              \/ x.kind = "log" /\ flushed' = flushed
    /\ wpc' = "mark"
    /\ UNCHANGED <<nextSeq, queue, stopping, callers, batch, processed, history, missed>>

\* Mutant: a flush item is not recorded as processed.
MarkLogsOnly ==
    /\ wpc = "mark"
    /\ processed' = IF Head(batch).kind = "flush" THEN processed ELSE Head(batch).seq
    /\ batch' = Tail(batch)
    /\ wpc' = "item"
    /\ NotifyFlushCv(pc)
    /\ UNCHANGED <<nextSeq, queue, stopping, item, before, sink, flushed, history, missed>>

\* The store to m_processedSequence and m_flushCv.notify_all().
MarkProcessed ==
    /\ wpc = "mark"
    /\ processed' = Head(batch).seq
    /\ batch' = Tail(batch)
    /\ wpc' = "item"
    /\ NotifyFlushCv(pc)
    /\ missed' = missed \cup {t \in Thread : pc[t] = "flushPark" /\ processed' >= item[t].seq}
    /\ UNCHANGED <<nextSeq, queue, stopping, item, before, sink, flushed, history>>

BatchDone ==
    /\ wpc = "item" /\ batch = <<>>
    /\ WorkerGoto("test")

FinalFlush ==
    /\ wpc = "final" /\ Free
    /\ flushed' = Len(sink)
    /\ wpc' = "exited"
    /\ UNCHANGED <<nextSeq, queue, stopping, callers, batch, processed, sink, history,
                   missed>>

\* A condition variable may wake a sleeper for no reason.
SpuriousWakeup ==
    /\ \/ wpc = "blocked" /\ wpc' = "test" /\ UNCHANGED pc
       \/ \E t \in Thread :
            /\ pc[t] \in {"blocked", "flushBlocked"}
            /\ pc' = [pc EXCEPT ![t] = IF @ = "blocked" THEN "enqueue" ELSE "flushTest"]
            /\ UNCHANGED wpc
    /\ UNCHANGED <<nextSeq, queue, stopping, item, before, batch, processed, sink,
                   flushed, history, missed>>

-----------------------------------------------------------------------------
Caller(t) ==
    \/ DirectFlush(t) \/ EnqueueRefused(t) \/ EnqueueParks(t) \/ Enqueue(t)
    \/ EnqueueNotify(t) \/ FlushParks(t) \/ FlushReturns(t) \/ Sleep(t)
    \/ StopNotify(t) \/ StopFlushNotify(t) \/ Join(t)

WorkerLoop ==
    \/ WorkerParks \/ WorkerSleeps \/ WorkerLeaves \/ SwapBatch \/ WorkerNotify
    \/ WriteItem \/ MarkProcessed \/ BatchDone \/ FinalFlush

Next ==
    \/ \E t \in Thread : CallLog(t) \/ CallFlush(t) \/ Stop(t) \/ Caller(t)
    \/ WorkerLoop \/ SpuriousWakeup

Spec == Init /\ [][Next]_vars

\* Threads inside an operation and the worker keep running, and a thread that
\* asks for the mutex again and again gets it.  Nothing is assumed of calls and
\* of spurious wake-ups.
FairSpec == Spec /\ SF_vars(WorkerLoop) /\ \A t \in Thread : SF_vars(Caller(t))

-----------------------------------------------------------------------------
TypeOK ==
    /\ \A s \in {queue, batch, accepted} : s \in Seq([seq : 1..MaxSeq, kind : Kind])
    /\ stopping \in BOOLEAN
    /\ nextSeq \in 0..MaxSeq /\ processed \in 0..MaxSeq
    /\ \A s \in {sink, messages} : s \in Seq(1..MaxSeq)
    /\ flushed \in 0..Len(sink)
    /\ pc \in [Thread -> {"idle", "direct", "enqueue", "park", "blocked", "notify",
                          "flushTest", "flushPark", "flushBlocked", "stopNotify",
                          "stopFlushNotify", "join"}]
    /\ item \in [Thread -> [seq : 0..MaxSeq, kind : Kind]]
    /\ wpc \in {"test", "park", "blocked", "notify", "item", "mark", "final", "exited"}
    /\ before \in [Thread -> 0..MaxSeq]
    /\ missed \subseteq Thread \cup {"worker"}

\* When the worker is gone, every message enqueueItem accepted, also from calls
\* that raced with stop(), is in the sinks, once, in the order of the queue, and
\* flushed; and none can be accepted any more.
StopDrains ==
    wpc = "exited" => stopping /\ sink = messages /\ flushed = Len(sink)

\* A later number entered the queue before t's flush item did.
Overtaken(t) ==
    \E i, j \in DOMAIN accepted :
        /\ i < j /\ accepted[j] = item[t]
        /\ accepted[i].seq > item[t].seq

\* When flush() returns from its wait, what had been accepted before the call is
\* written, although numbers enter the queue out of order; it is also flushed,
\* unless another caller's later number got into the queue first.
FlushCovers ==
    [][\A t \in Thread :
        pc[t] = "flushTest" /\ pc'[t] = "idle" =>
            /\ before[t] <= Len(sink)
            /\ SubSeq(sink, 1, before[t]) = SubSeq(messages, 1, before[t])
            /\ flushed >= before[t] \/ Overtaken(t)]_vars

\* The numbers entered the queue out of order.
Inverted ==
    \E i, j \in DOMAIN accepted : i < j /\ accepted[i].seq > accepted[j].seq

\* The calls that wait for the worker return: a flush() whose item is in the queue,
\* and stop(), with callers waiting for room and for flushes.  Excepted is what the
\* code does not exclude: the notify_all of line 154 or 217 falls between a waiter's
\* test and its sleep, or an out-of-order number moves m_processedSequence back.
CallsEnd ==
    \A t \in Thread :
        /\ (pc[t] = "flushTest") ~> (pc[t] = "idle" \/ t \in missed \/ Inverted)
        /\ (pc[t] = "join") ~> (pc[t] = "idle" \/ "worker" \in missed)
=============================================================================
