---------------------------- MODULE MCDispatcher ----------------------------
(* Model values and bounds for checking Dispatcher with TLC. *)
EXTENDS Dispatcher, TLC

CONSTANTS t1, t2, t3, t4, r0, r1

\* Three callers, one of them with a context that may be done at pick-up.
MCTasks == {t1, t2, t3}
MCExpiring == {t1}
\* The callers of t1 and t2 pass an OutCh; t3's caller does not want a result.
MCOutCh == {t1, t2}
\* Four callers against one worker, to overfill a small queue.
MCFourTasks == {t1, t2, t3, t4}
\* The Resource passed to GetDispatch and one replacement Check may return.
MCResources == {r0, r1}
MCOneResource == {r0}
=============================================================================
