--------------------------- MODULE MCDecenWorker ---------------------------
(* Migration by waiting proportion *)
EXTENDS DecenWorker

CONSTANT t1

(* One task that may migrate when it is woken *)
WaitingTask ==
  {[mechanism |-> "WAIT_PROP", tasks |-> {t1}, yielding |-> {}, prios |-> {0}]}
=============================================================================
