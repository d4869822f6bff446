----------------------------- MODULE MC_TxLink -----------------------------
(* Values for model-checking TxLink: two cooperative threads, the radio's   *)
(* with data and the work queue with STATS, the reader below the tx thread  *)
(* with replies and the batches it flushes, and a ring of a few bytes that  *)
(* fills, wraps and keeps a reserve.                                        *)
EXTENDS TxLink

MCThreads  == {"rx", "wq", "reader"}
MCPriority == [t \in MCThreads |->
                CASE t = "rx" -> 9 [] t = "wq" -> 8 [] OTHER -> 2]
MCControl  == {"reader", "wq"}
MCData     == {"rx", "reader"}
=============================================================================
