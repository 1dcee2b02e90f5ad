------------------------ MODULE MCStatsBufferWriter ------------------------
(***************************************************************************)
(* Two client threads and the queue worker of the system process; three    *)
(* atoms, a queue of one slot (so the third queued atom overflows) and one *)
(* stats_log_close racing the writes.                                      *)
(***************************************************************************)
EXTENDS StatsBufferWriter

CONSTANTS w1, w2, w0

MCWriters == {w1, w2}
=============================================================================
