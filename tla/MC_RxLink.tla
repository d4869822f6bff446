----------------------------- MODULE MC_RxLink -----------------------------
(* Values for model-checking RxLink: headers of two bytes, payloads of none *)
(* to three, and buffers small enough to fill, wrap and overflow.  In       *)
(* MCStrange a header announces a payload longer than the wire format       *)
(* allows, and another one a payload rx_buf can never hold.                 *)
EXTENDS RxLink

Good(n) == [len |-> n, sent |-> n]

MCGood == {<<Good(1), Good(2), Good(0), Good(1)>>,
           <<Good(2), Good(0), Good(3)>>}

\* A frame that fits rx_buf, but not beside a chunk.
MCWide == {<<Good(4), Good(1), Good(0)>>}

MCStrange == {<<[len |-> 9, sent |-> 0], Good(1), Good(2)>>,
              <<Good(6), Good(1)>>,
              <<[len |-> 6, sent |-> 1], Good(2), Good(1)>>}

MCStreams == MCGood \cup MCWide \cup MCStrange
=============================================================================
