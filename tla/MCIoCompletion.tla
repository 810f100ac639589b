--------------------------- MODULE MCIoCompletion ---------------------------
(* Small instances of IoCompletion for TLC. *)
EXTENDS IoCompletion, TLC

\* Two workloads: threads that contend for the mutex and the semaphore, sleep
\* and wait at a port nobody posts to; and threads that do I/O through the port.
MCWorkloads ==
  { ("t1" :> {"lock", "sem"} @@ "t2" :> {"lock", "sem", "port", "user"} @@ "t3" :> {"lock", "sleep", "user"}),
    ("t1" :> {"request", "user"} @@ "t2" :> {"port"} @@ "t3" :> {"port", "accept"}) }
=============================================================================
