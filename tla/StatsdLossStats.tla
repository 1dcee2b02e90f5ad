--------------------------- MODULE StatsdLossStats ---------------------------
(***************************************************************************)
(* The store-wide bounded histories of StatsdStats                         *)
(* (src/statsd/src/guardrail/StatsdStats.cpp): logd loss records, socket   *)
(* loss reports with their per-uid overflow counters, system server        *)
(* restarts, restricted-metric queries, activation broadcast guardrail     *)
(* hits per uid, and the largest event queue size observed, with the part  *)
(* of resetInternalLocked that clears them; and the store-wide counters   *)
(* (registered alarm changes, subscription pull thread wakeups) with the   *)
(* mUidMapStats fields that no reset clears.  Each entry point holds mLock *)
(* for its whole body and is one action.                                   *)
(*                                                                         *)
(* A record is identified by the call's step number now.  Ghost fields     *)
(* (prefixed g) hold every record noted since the last reset.              *)
(***************************************************************************)
EXTENDS Integers, Sequences, SequencesExt, FiniteSets

CONSTANTS
  Uids,             \* uids reporting socket loss or hitting the guardrail
  OverflowCounts,   \* SocketLossInfo.overflowCounter values
  LoggerCap,        \* kMaxLoggerErrors
  SocketLossCap,    \* kMaxSocketLossStatsSize
  RestartCap,       \* kMaxSystemServerRestarts
  QueryCap,         \* kMaxRestrictedMetricQueryCount
  TsCap,            \* kMaxTimestampCount
  QueueSizes,       \* sizes passed to noteEventQueueSize
  StoreCounters,    \* store-wide counters that calls increment
  UidMapSettings,   \* mUidMapStats fields set to a value
  UidMapValues,     \* values passed to the setters
  MaxSteps          \* exploration bound on the number of calls

VARIABLES
  logLoss,          \* mLogLossStats
  socketLoss,       \* mSocketLossStats (uid of each report)
  overflow,         \* mSocketLossStatsOverflowCounters
  restarts,         \* mSystemServerRestartSec
  queries,          \* mRestrictedMetricQueryStats (ok: no invalid reason)
  guardrail,        \* mActivationBroadcastGuardrailStats
  queueMax,         \* mEventQueueMaxSizeObserved and its ElapsedNanos
  counters,         \* the store-wide counters, reset by resetInternalLocked
  uidMap,           \* deleted_apps, changes and bytes_used of mUidMapStats
  g, now

vars == <<logLoss, socketLoss, overflow, restarts, queries, guardrail, queueMax,
          counters, uidMap, g, now>>

\* The calls of this module that leave every history alone.
HistoriesUnchanged ==
  UNCHANGED <<logLoss, socketLoss, overflow, restarts, queries, guardrail, queueMax>>

Tick == now < MaxSteps /\ now' = now + 1

\* Mutant: the oldest entry popped only once the list exceeds cap.
PushCappedLate(q, cap, x) == Append(IF Len(q) > cap THEN Tail(q) ELSE q, x)

\* Mutant: the newest entry popped instead of the oldest.
PushCappedPopBack(q, cap, x) == Append(IF Len(q) = cap THEN Front(q) ELSE q, x)

\* The list q with x appended, the oldest entry popped when q holds cap.
PushCapped(q, cap, x) == Append(IF Len(q) = cap THEN Tail(q) ELSE q, x)

\* The map f with key x set to v.
Put(f, x, v) == [y \in DOMAIN f \cup {x} |-> IF y = x THEN v ELSE f[y]]

NoGhost ==
  [logLoss |-> <<>>, socketLoss |-> <<>>, overflow |-> [u \in Uids |-> 0],
   restarts |-> <<>>, queries |-> <<>>, guardrail |-> [u \in Uids |-> <<>>],
   queueSizes |-> <<>>]

Init ==
  /\ logLoss = <<>> /\ socketLoss = <<>> /\ overflow = <<>> /\ restarts = <<>>
  /\ queries = <<>> /\ guardrail = <<>>
  /\ queueMax = [size |-> 0, ts |-> 0]
  /\ counters = [c \in StoreCounters |-> 0]
  /\ uidMap = [f \in {"deleted_apps"} \cup UidMapSettings |-> 0]
  /\ g = NoGhost
  /\ now = 1

\* noteLogLost
NoteLogLost ==
  /\ Tick
  /\ logLoss' = PushCapped(logLoss, LoggerCap, now)
  /\ g' = [g EXCEPT !.logLoss = Append(@, now)]
  /\ UNCHANGED <<socketLoss, overflow, restarts, queries, guardrail, queueMax, counters, uidMap>>

\* Mutant: an existing uid's overflow counter overwritten, not accumulated.
NoteAtomSocketLossOverwrite(u, oc) ==
  /\ Tick
  /\ socketLoss' = PushCapped(socketLoss, SocketLossCap, <<now, u>>)
  /\ overflow' = CASE oc = 0 -> overflow
                   [] u \in DOMAIN overflow -> [overflow EXCEPT ![u] = oc]
                   [] Cardinality(DOMAIN overflow) < SocketLossCap -> Put(overflow, u, oc)
                   [] OTHER -> overflow
  /\ g' = [g EXCEPT !.socketLoss = Append(@, <<now, u>>), !.overflow[u] = @ + oc]
  /\ UNCHANGED <<logLoss, restarts, queries, guardrail, queueMax, counters, uidMap>>

\* noteAtomSocketLoss: the report goes to a capped list; a positive overflow
\* counter accumulates in the uid's entry, which is only created while the
\* map holds fewer than SocketLossCap uids.
NoteAtomSocketLoss(u, oc) ==
  /\ Tick
  /\ socketLoss' = PushCapped(socketLoss, SocketLossCap, <<now, u>>)
  /\ overflow' = CASE oc = 0 -> overflow
                   [] u \in DOMAIN overflow -> [overflow EXCEPT ![u] = @ + oc]
                   [] Cardinality(DOMAIN overflow) < SocketLossCap -> Put(overflow, u, oc)
                   [] OTHER -> overflow
  /\ g' = [g EXCEPT !.socketLoss = Append(@, <<now, u>>), !.overflow[u] = @ + oc]
  /\ UNCHANGED <<logLoss, restarts, queries, guardrail, queueMax, counters, uidMap>>

\* noteSystemServerRestart
NoteSystemServerRestart ==
  /\ Tick
  /\ restarts' = PushCapped(restarts, RestartCap, now)
  /\ g' = [g EXCEPT !.restarts = Append(@, now)]
  /\ UNCHANGED <<logLoss, socketLoss, overflow, queries, guardrail, queueMax, counters, uidMap>>

\* noteQueryRestrictedMetricSucceed (ok) and the two
\* noteQueryRestrictedMetricFailed overloads through
\* noteQueryRestrictedMetricFailedLocked (not ok).
NoteQueryRestrictedMetric(ok) ==
  /\ Tick
  /\ queries' = PushCapped(queries, QueryCap, <<now, ok>>)
  /\ g' = [g EXCEPT !.queries = Append(@, <<now, ok>>)]
  /\ UNCHANGED <<logLoss, socketLoss, overflow, restarts, guardrail, queueMax, counters, uidMap>>

\* noteActivationBroadcastGuardrailHit: a list of times per uid, each capped
\* at TsCap; the number of uids is not capped.
NoteActivationBroadcastGuardrailHit(u) ==
  /\ Tick
  /\ guardrail' = Put(guardrail, u,
                      PushCapped(IF u \in DOMAIN guardrail THEN guardrail[u] ELSE <<>>, TsCap, now))
  /\ g' = [g EXCEPT !.guardrail[u] = Append(@, now)]
  /\ UNCHANGED <<logLoss, socketLoss, overflow, restarts, queries, queueMax, counters, uidMap>>

\* Mutant: a size equal to the maximum restamps it.
NoteEventQueueSizeLe(size) ==
  /\ Tick
  /\ queueMax' = IF queueMax.size <= size THEN [size |-> size, ts |-> now] ELSE queueMax
  /\ g' = [g EXCEPT !.queueSizes = Append(@, <<now, size>>)]
  /\ UNCHANGED <<logLoss, socketLoss, overflow, restarts, queries, guardrail, counters, uidMap>>

\* noteEventQueueSize: the largest size, and the time of the call that
\* first observed it.
NoteEventQueueSize(size) ==
  /\ Tick
  /\ queueMax' = IF queueMax.size < size THEN [size |-> size, ts |-> now] ELSE queueMax
  /\ g' = [g EXCEPT !.queueSizes = Append(@, <<now, size>>)]
  /\ UNCHANGED <<logLoss, socketLoss, overflow, restarts, queries, guardrail, counters, uidMap>>

\* The part of resetInternalLocked that clears these histories.
ResetLossStatsLocked ==
  /\ Tick
  /\ logLoss' = <<>> /\ socketLoss' = <<>> /\ overflow' = <<>> /\ restarts' = <<>>
  /\ queries' = <<>> /\ guardrail' = <<>>
  /\ queueMax' = [size |-> 0, ts |-> 0]
  /\ counters' = [c \in StoreCounters |-> 0]
  /\ g' = NoGhost
  /\ UNCHANGED uidMap

\* noteRegisteredAnomalyAlarmChanged and noteRegisteredPeriodicAlarmChanged.
NoteStoreCounter(c) ==
  /\ Tick
  /\ counters' = [counters EXCEPT ![c] = @ + 1]
  /\ HistoriesUnchanged /\ UNCHANGED <<uidMap, g>>

\* noteUidMapAppDeletionDropped
NoteUidMapAppDeletionDropped ==
  /\ Tick
  /\ uidMap' = [uidMap EXCEPT !["deleted_apps"] = @ + 1]
  /\ HistoriesUnchanged /\ UNCHANGED <<counters, g>>

\* setUidMapChanges ("changes") and setCurrentUidMapMemory ("bytes_used").
SetUidMapStat(f, v) ==
  /\ Tick
  /\ uidMap' = [uidMap EXCEPT ![f] = v]
  /\ HistoriesUnchanged /\ UNCHANGED <<counters, g>>

Done == now = MaxSteps /\ UNCHANGED vars

Next ==
  \/ NoteLogLost
  \/ \E u \in Uids, oc \in OverflowCounts : NoteAtomSocketLoss(u, oc)
  \/ NoteSystemServerRestart
  \/ \E ok \in BOOLEAN : NoteQueryRestrictedMetric(ok)
  \/ \E u \in Uids : NoteActivationBroadcastGuardrailHit(u)
  \/ \E n \in QueueSizes : NoteEventQueueSize(n)
  \/ ResetLossStatsLocked
  \/ \E c \in StoreCounters : NoteStoreCounter(c)
  \/ NoteUidMapAppDeletionDropped
  \/ \E f \in UidMapSettings, v \in UidMapValues : SetUidMapStat(f, v)
  \/ Done

Spec == Init /\ [][Next]_vars

-----------------------------------------------------------------------------
(* Properties.                                                             *)

TypeOK ==
  /\ Len(logLoss) <= LoggerCap /\ Len(socketLoss) <= SocketLossCap
  /\ Len(restarts) <= RestartCap /\ Len(queries) <= QueryCap
  /\ DOMAIN overflow \subseteq Uids /\ Cardinality(DOMAIN overflow) <= SocketLossCap
  /\ DOMAIN guardrail \subseteq Uids
  /\ queueMax \in [size : QueueSizes \cup {0}, ts : 0 .. MaxSteps]
  /\ now \in 1 .. MaxSteps
  /\ counters \in [StoreCounters -> Nat]
  /\ uidMap \in [{"deleted_apps"} \cup UidMapSettings -> Nat]

\* The newest n elements of a sequence.
NewestN(q, n) == IF Len(q) <= n THEN q ELSE SubSeq(q, Len(q) - n + 1, Len(q))

\* noteLogLost, noteAtomSocketLoss, noteSystemServerRestart, the restricted
\* query notes and noteActivationBroadcastGuardrailHit: each bounded list
\* holds exactly the newest records noted since the last reset, in order.
HistoriesHoldNewest ==
  /\ logLoss = NewestN(g.logLoss, LoggerCap)
  /\ socketLoss = NewestN(g.socketLoss, SocketLossCap)
  /\ restarts = NewestN(g.restarts, RestartCap)
  /\ queries = NewestN(g.queries, QueryCap)
  /\ \A u \in Uids :
       IF u \in DOMAIN guardrail THEN guardrail[u] = NewestN(g.guardrail[u], TsCap)
       ELSE g.guardrail[u] = <<>>

\* noteAtomSocketLoss: a uid's overflow entry is the sum of the overflow
\* counters it reported since the last reset, and a uid that reported
\* overflow without an entry found the map full.
SocketLossOverflowFaithful ==
  \A u \in Uids :
    IF u \in DOMAIN overflow THEN overflow[u] = g.overflow[u]
    ELSE g.overflow[u] > 0 => Cardinality(DOMAIN overflow) = SocketLossCap

\* noteEventQueueSize: the recorded maximum is the largest size seen since
\* the last reset (0 if none is positive), stamped with the first call
\* that saw it.
QueueMaxIsFirstLargest ==
  LET q == g.queueSizes
      at == {i \in DOMAIN q : q[i][2] = queueMax.size}
  IN /\ \A i \in DOMAIN q : q[i][2] <= queueMax.size
     /\ queueMax.size > 0 =>
          /\ at # {}
          /\ queueMax.ts = q[CHOOSE i \in at : \A j \in at : i <= j][1]
=============================================================================
