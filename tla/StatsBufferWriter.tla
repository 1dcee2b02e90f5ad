-------------------------- MODULE StatsBufferWriter --------------------------
(***************************************************************************)
(* The atom buffer writer of libstatssocket                                *)
(* (src/lib/libstatssocket/stats_buffer_writer.c) with the transport       *)
(* statsdLoggerWrite it drives (statsd_writer.h) and, for the system       *)
(* process, the producer queue and its worker thread.                      *)
(*                                                                         *)
(* Client threads call write_buffer_to_statsd and stats_log_close          *)
(* concurrently.  The function pointer __write_to_statsd starts as        *)
(* __write_to_statsd_init ("init") and is switched to                      *)
(* __write_to_stats_daemon ("daemon") by the first write, under the init   *)
(* lock; stats_log_close switches it back under the same lock.  Writers    *)
(* read the pointer without the lock (line 90, and again line 154 after    *)
(* unlocking); the read of a pointer-sized word yields either the old or   *)
(* the new value, which the interleaving of the steps below covers.        *)
(*                                                                         *)
(* The transport (statsd_writer.c), the queue and the loss tracker are not *)
(* in the sources; they are modelled from spec.md 4.B-4.D: open() may fail *)
(* and reuses an open socket, write() fails on a closed socket and may     *)
(* fail with EAGAIN on an open one, close() closes the socket.             *)
(***************************************************************************)
EXTENDS Naturals, Sequences, SequencesExt

CONSTANTS
  Writers,     \* client threads (model values)
  Worker,      \* the producer queue's worker thread (a model value)
  NoOwner,     \* the init lock is free
  UseQueue,    \* should_write_via_queue holds for some atoms (system process)
  HasClose,    \* statsdLoggerWrite.close is not NULL
  QueueCap,    \* capacity of the producer queue
  MaxAtoms,    \* atoms written in a behaviour
  MaxCloses    \* stats_log_close calls in a behaviour

Procs == Writers \cup (IF UseQueue THEN {Worker} ELSE {})
Atoms == 1 .. MaxAtoms

VARIABLES
  fp,          \* __write_to_statsd: "init" | "daemon"
  initLock,    \* owner of statsd_writer_init_lock, or NoOwner
  sock,        \* the transport socket: "closed" | "open"
  pc,          \* [Procs -> step]
  cur,         \* [Procs -> the atom the thread is writing, or 0]
  queue,       \* the producer queue (atom numbers)
  issued,      \* atoms handed to write_buffer_to_statsd so far
  delivered,   \* [Atoms -> times written to the daemon's socket]
  dropped,     \* [Atoms -> times noted by note_log_drop]
  closes,      \* stats_log_close calls started
  epoch,       \* ghost: times the pointer was reset by stats_log_close
  readEpoch    \* ghost: [Procs -> epoch at the thread's last pointer read]

vars == <<fp, initLock, sock, pc, cur, queue, issued, delivered, dropped,
          closes, epoch, readEpoch>>

Steps == {"idle", "impl", "init_lock", "init_check", "init_unlock",
          "daemon_write", "close_lock", "close_reset", "close_transport"}

Init ==
  /\ fp = "init" /\ initLock = NoOwner /\ sock = "closed"
  /\ pc = [p \in Procs |-> "idle"] /\ cur = [p \in Procs |-> 0]
  /\ queue = <<>> /\ issued = 0
  /\ delivered = [a \in Atoms |-> 0] /\ dropped = [a \in Atoms |-> 0]
  /\ closes = 0 /\ epoch = 0 /\ readEpoch = [p \in Procs |-> 0]

\* note_log_drop: one loss of atom a goes to the loss tracker.
NoteLogDrop(a) == dropped' = [dropped EXCEPT ![a] = @ + 1]

\* Return from the write call of thread p.
Return(p) == /\ pc' = [pc EXCEPT ![p] = "idle"]
             /\ cur' = [cur EXCEPT ![p] = 0]

-----------------------------------------------------------------------------
(* write_buffer_to_statsd and write_buffer_to_statsd_impl.                 *)

\* Mutant of WriteBufferToStatsd: the queue accepts one atom past its
\* capacity.
WriteBufferToStatsdOffByOne(p) ==
  /\ p \in Writers /\ pc[p] = "idle" /\ issued < MaxAtoms
  /\ LET a == issued + 1 IN
     /\ issued' = a
     /\ \/ /\ UseQueue
           /\ IF Len(queue) <= QueueCap
                THEN queue' = Append(queue, a) /\ UNCHANGED dropped
                ELSE NoteLogDrop(a) /\ UNCHANGED queue
           /\ UNCHANGED <<pc, cur>>
        \/ /\ pc' = [pc EXCEPT ![p] = "impl"]
           /\ cur' = [cur EXCEPT ![p] = a]
           /\ UNCHANGED <<queue, dropped>>
  /\ UNCHANGED <<fp, initLock, sock, delivered, closes, epoch, readEpoch>>

\* write_buffer_to_statsd: an atom routed to the queue is enqueued, or its
\* drop is noted with kQueueOverflowErrorCode when the queue is full; any
\* other atom goes to write_buffer_to_statsd_impl with doNoteDrop.
WriteBufferToStatsd(p) ==
  /\ p \in Writers /\ pc[p] = "idle" /\ issued < MaxAtoms
  /\ LET a == issued + 1 IN
     /\ issued' = a
     /\ \/ /\ UseQueue
           /\ IF Len(queue) < QueueCap
                THEN queue' = Append(queue, a) /\ UNCHANGED dropped
                ELSE NoteLogDrop(a) /\ UNCHANGED queue
           /\ UNCHANGED <<pc, cur>>
        \/ /\ pc' = [pc EXCEPT ![p] = "impl"]
           /\ cur' = [cur EXCEPT ![p] = a]
           /\ UNCHANGED <<queue, dropped>>
  /\ UNCHANGED <<fp, initLock, sock, delivered, closes, epoch, readEpoch>>

\* The queue's worker takes the oldest atom and writes it with
\* write_buffer_to_statsd_impl.
WorkerDequeue ==
  /\ UseQueue /\ pc[Worker] = "idle" /\ queue # <<>>
  /\ pc' = [pc EXCEPT ![Worker] = "impl"]
  /\ cur' = [cur EXCEPT ![Worker] = Head(queue)]
  /\ queue' = Tail(queue)
  /\ UNCHANGED <<fp, initLock, sock, issued, delivered, dropped, closes,
                 epoch, readEpoch>>

\* __write_to_statsd(vecs, 2): the unlocked read of the function pointer
\* (line 90, and line 154 after __write_to_statsd_init has unlocked).
ReadPointer(p) ==
  /\ pc[p] = "impl"
  /\ pc' = [pc EXCEPT ![p] = IF fp = "daemon" THEN "daemon_write" ELSE "init_lock"]
  /\ readEpoch' = [readEpoch EXCEPT ![p] = epoch]
  /\ UNCHANGED <<fp, initLock, sock, cur, queue, issued, delivered, dropped,
                 closes, epoch>>

\* Mutant of DaemonWrite: a failed write is noted and then retried.
DaemonWriteRetry(p) ==
  /\ pc[p] = "daemon_write"
  /\ \/ /\ sock = "open"
        /\ delivered' = [delivered EXCEPT ![cur[p]] = @ + 1]
        /\ Return(p)
        /\ UNCHANGED dropped
     \/ /\ NoteLogDrop(cur[p])
        /\ pc' = [pc EXCEPT ![p] = "impl"]
        /\ UNCHANGED <<cur, delivered>>
  /\ UNCHANGED <<fp, initLock, sock, queue, issued, closes, epoch, readEpoch>>

\* __write_to_stats_daemon: write to the transport; a negative result is
\* noted as a drop by write_buffer_to_statsd_impl.  A closed socket fails,
\* an open one may fail with EAGAIN.
DaemonWrite(p) ==
  /\ pc[p] = "daemon_write"
  /\ \/ /\ sock = "open"
        /\ delivered' = [delivered EXCEPT ![cur[p]] = @ + 1]
        /\ UNCHANGED dropped
     \/ /\ NoteLogDrop(cur[p])
        /\ UNCHANGED delivered
  /\ Return(p)
  /\ UNCHANGED <<fp, initLock, sock, queue, issued, closes, epoch, readEpoch>>

-----------------------------------------------------------------------------
(* __write_to_statsd_init.                                                 *)

InitLock(p) ==
  /\ pc[p] = "init_lock" /\ initLock = NoOwner
  /\ initLock' = p
  /\ pc' = [pc EXCEPT ![p] = "init_check"]
  /\ UNCHANGED <<fp, sock, cur, queue, issued, delivered, dropped, closes,
                 epoch, readEpoch>>

\* Mutant of InitCheck: the error path returns without noting the drop.
InitCheckNoNote(p) ==
  /\ pc[p] = "init_check"
  /\ IF fp # "init"
       THEN /\ pc' = [pc EXCEPT ![p] = "init_unlock"]
            /\ UNCHANGED <<fp, initLock, sock, cur, dropped>>
       ELSE \/ /\ sock' = "open" /\ fp' = "daemon"
               /\ pc' = [pc EXCEPT ![p] = "init_unlock"]
               /\ UNCHANGED <<initLock, cur, dropped>>
            \/ /\ HasClose /\ sock' = "closed" /\ initLock' = NoOwner
               /\ Return(p)
               /\ UNCHANGED <<fp, dropped>>
            \/ /\ ~HasClose /\ fp' = "daemon"
               /\ pc' = [pc EXCEPT ![p] = "init_unlock"]
               /\ UNCHANGED <<initLock, sock, cur, dropped>>
  /\ UNCHANGED <<queue, issued, delivered, closes, epoch, readEpoch>>

\* Mutant of InitCheck: the error path returns with the init lock held.
InitCheckKeepsLock(p) ==
  /\ pc[p] = "init_check"
  /\ IF fp # "init"
       THEN /\ pc' = [pc EXCEPT ![p] = "init_unlock"]
            /\ UNCHANGED <<fp, initLock, sock, cur, dropped>>
       ELSE \/ /\ sock' = "open" /\ fp' = "daemon"
               /\ pc' = [pc EXCEPT ![p] = "init_unlock"]
               /\ UNCHANGED <<initLock, cur, dropped>>
            \/ /\ HasClose /\ sock' = "closed"
               /\ NoteLogDrop(cur[p])
               /\ Return(p)
               /\ UNCHANGED <<fp, initLock>>
            \/ /\ ~HasClose /\ fp' = "daemon"
               /\ pc' = [pc EXCEPT ![p] = "init_unlock"]
               /\ UNCHANGED <<initLock, sock, cur, dropped>>
  /\ UNCHANGED <<queue, issued, delivered, closes, epoch, readEpoch>>

\* Mutant of InitCheck: the pointer is switched before open() has
\* succeeded.
InitCheckSwitchFirst(p) ==
  /\ pc[p] = "init_check"
  /\ IF fp # "init"
       THEN /\ pc' = [pc EXCEPT ![p] = "init_unlock"]
            /\ UNCHANGED <<fp, initLock, sock, cur, dropped>>
       ELSE /\ fp' = "daemon"
            /\ \/ /\ sock' = "open"
                  /\ pc' = [pc EXCEPT ![p] = "init_unlock"]
                  /\ UNCHANGED <<initLock, cur, dropped>>
               \/ /\ HasClose /\ sock' = "closed" /\ initLock' = NoOwner
                  /\ NoteLogDrop(cur[p])
                  /\ Return(p)
               \/ /\ ~HasClose
                  /\ pc' = [pc EXCEPT ![p] = "init_unlock"]
                  /\ UNCHANGED <<initLock, sock, cur, dropped>>
  /\ UNCHANGED <<queue, issued, delivered, closes, epoch, readEpoch>>

\* Under the lock: when the pointer is still init, run
\* __write_to_statsd_initialize_locked.  A failed open() with a close()
\* closes the transport and returns -ENODEV: unlock and return it (a drop
\* noted by the caller).  A failed open() without a close() returns 1 like a
\* successful one, and the pointer is switched to the daemon writer.
InitCheck(p) ==
  /\ pc[p] = "init_check"
  /\ IF fp # "init"
       THEN /\ pc' = [pc EXCEPT ![p] = "init_unlock"]
            /\ UNCHANGED <<fp, initLock, sock, cur, dropped>>
       ELSE \/ /\ sock' = "open"
               /\ fp' = "daemon"
               /\ pc' = [pc EXCEPT ![p] = "init_unlock"]
               /\ UNCHANGED <<initLock, cur, dropped>>
            \/ /\ HasClose
               /\ sock' = "closed"
               /\ initLock' = NoOwner
               /\ NoteLogDrop(cur[p])
               /\ Return(p)
               /\ UNCHANGED fp
            \/ /\ ~HasClose
               /\ fp' = "daemon"
               /\ pc' = [pc EXCEPT ![p] = "init_unlock"]
               /\ UNCHANGED <<initLock, sock, cur, dropped>>
  /\ UNCHANGED <<queue, issued, delivered, closes, epoch, readEpoch>>

\* Unlock, then call through the pointer again (line 154).
InitUnlock(p) ==
  /\ pc[p] = "init_unlock"
  /\ initLock' = NoOwner
  /\ pc' = [pc EXCEPT ![p] = "impl"]
  /\ UNCHANGED <<fp, sock, cur, queue, issued, delivered, dropped, closes,
                 epoch, readEpoch>>

-----------------------------------------------------------------------------
(* stats_log_close.                                                        *)

StatsLogClose(p) ==
  /\ p \in Writers /\ pc[p] = "idle" /\ closes < MaxCloses
  /\ pc' = [pc EXCEPT ![p] = "close_lock"]
  /\ closes' = closes + 1
  /\ UNCHANGED <<fp, initLock, sock, cur, queue, issued, delivered, dropped,
                 epoch, readEpoch>>

CloseLock(p) ==
  /\ pc[p] = "close_lock" /\ initLock = NoOwner
  /\ initLock' = p
  /\ pc' = [pc EXCEPT ![p] = "close_reset"]
  /\ UNCHANGED <<fp, sock, cur, queue, issued, delivered, dropped, closes,
                 epoch, readEpoch>>

\* Mutant of CloseReset: the pointer is not reset.
CloseResetKeepsPointer(p) ==
  /\ pc[p] = "close_reset"
  /\ epoch' = epoch + 1
  /\ pc' = [pc EXCEPT ![p] = "close_transport"]
  /\ UNCHANGED <<fp, initLock, sock, cur, queue, issued, delivered, dropped,
                 closes, readEpoch>>

\* __write_to_statsd = __write_to_statsd_init
CloseReset(p) ==
  /\ pc[p] = "close_reset"
  /\ fp' = "init"
  /\ epoch' = epoch + 1
  /\ pc' = [pc EXCEPT ![p] = "close_transport"]
  /\ UNCHANGED <<initLock, sock, cur, queue, issued, delivered, dropped,
                 closes, readEpoch>>

\* statsdLoggerWrite.close(), when there is one, then unlock.
CloseTransport(p) ==
  /\ pc[p] = "close_transport"
  /\ sock' = IF HasClose THEN "closed" ELSE sock
  /\ initLock' = NoOwner
  /\ pc' = [pc EXCEPT ![p] = "idle"]
  /\ UNCHANGED <<fp, cur, queue, issued, delivered, dropped, closes, epoch,
                 readEpoch>>

-----------------------------------------------------------------------------

\* A thread's own steps, once it is inside a call.
Step(p) ==
  \/ ReadPointer(p) \/ DaemonWrite(p)
  \/ InitLock(p) \/ InitCheck(p) \/ InitUnlock(p)
  \/ CloseLock(p) \/ CloseReset(p) \/ CloseTransport(p)

\* Every call was made and has returned.
Done ==
  /\ issued = MaxAtoms /\ closes = MaxCloses /\ queue = <<>>
  /\ \A p \in Procs : pc[p] = "idle"
  /\ UNCHANGED vars

Next ==
  \/ \E p \in Procs : WriteBufferToStatsd(p) \/ StatsLogClose(p) \/ Step(p)
  \/ WorkerDequeue
  \/ Done

\* Every runnable thread is eventually scheduled, the worker included.
Fairness ==
  /\ \A p \in Procs : WF_vars(Step(p))
  /\ WF_vars(WorkerDequeue)

Spec == Init /\ [][Next]_vars /\ Fairness

-----------------------------------------------------------------------------
(* Properties.                                                             *)

TypeOK ==
  /\ fp \in {"init", "daemon"} /\ initLock \in Procs \cup {NoOwner}
  /\ sock \in {"closed", "open"}
  /\ pc \in [Procs -> Steps] /\ cur \in [Procs -> 0 .. MaxAtoms]
  /\ queue \in Seq(Atoms) /\ Len(queue) <= QueueCap
  /\ issued \in 0 .. MaxAtoms /\ closes \in 0 .. MaxCloses
  /\ delivered \in [Atoms -> Nat] /\ dropped \in [Atoms -> Nat]

\* An atom is in flight while it waits in the queue or a thread writes it.
InFlight(a) == a \in Range(queue) \/ \E p \in Procs : cur[p] = a

\* Loss accounting (write_buffer_to_statsd, write_buffer_to_statsd_impl,
\* __write_to_statsd_init): every atom handed to the layer whose write has
\* finished was either written to the socket or noted as dropped, exactly
\* once, whichever path (queue overflow, failed lazy open, closed socket,
\* EAGAIN) it took and however writes and closes interleave.
ExactlyOnceAccounting ==
  \A a \in Atoms :
    delivered[a] + dropped[a] = IF a > issued \/ InFlight(a) THEN 0 ELSE 1

\* A write that goes to a closed socket read the daemon pointer before a
\* concurrent stats_log_close reset it: a thread that read the pointer
\* after the last reset never finds the socket closed (the lazy open under
\* the init lock happens before the pointer is switched, lines 141-150,
\* and close resets the pointer before closing, lines 57-60).
ClosedSocketOnlyAfterRace ==
  \A p \in Procs :
    pc[p] = "daemon_write" /\ sock = "closed" => readEpoch[p] < epoch

\* Lazy initialization (spec 4.B): the pointer is switched to the daemon
\* writer only while the transport is open, so a failed open leaves the
\* writer uninitialized and the next write retries it.
DaemonOnlyWhenOpen == fp = "daemon" => sock = "open"

\* Every write and close call returns: no path of
\* __write_to_statsd_init or stats_log_close keeps the init lock.
EveryCallReturns ==
  \A p \in Procs : pc[p] # "idle" ~> pc[p] = "idle"

\* The layer implements its contract: each atom is rejected at once or
\* eventually delivered or noted dropped, exactly once.
Contract == INSTANCE WriterContract WITH
  status <- [a \in Atoms |->
               IF delivered[a] > 0 THEN "delivered"
               ELSE IF dropped[a] > 0 THEN "dropped"
               ELSE IF a <= issued THEN "pending" ELSE "unused"]

ContractSpec == Contract!Spec
=============================================================================
