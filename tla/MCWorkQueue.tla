----------------------------- MODULE MCWorkQueue -----------------------------
(* WorkQueue with two threads that hand in jobs (the WLAN driver's and lwIP's
   timer) and fewer blocks than jobs, so that blocks are reused. *)
EXTENDS WorkQueue
==============================================================================
