-------------------------------- MODULE Pdnsd --------------------------------
(***************************************************************************)
(* pdnsd, the resolver the badvpn engine sends DNS queries to: the threads *)
(* its servers spawn and their limits (dns_answer.c), the read-write lock  *)
(* on the cache with its two condition variables and its suspension of     *)
(* readers (cache.c), and the way out on SIGTERM, which takes the same     *)
(* lock "softly" (main.c).                                                 *)
(*                                                                         *)
(* Answer threads are alike, so the state counts how many are at each      *)
(* place.  What a thread does under lock_mutex is one step; a thread that  *)
(* waits on a condition variable is at a waiting place until it is woken,  *)
(* and at a woken one until it has the mutex again.  The status socket is  *)
(* off in the configuration the app writes, and with it the timed lock.    *)
(***************************************************************************)
EXTENDS Naturals

CONSTANTS
  ProcLimit,    \* global.proc_limit
  ProcqLimit    \* global.procq_limit

ASSUME ProcAssumption == ProcLimit \in Nat \ {0} /\ ProcqLimit \in Nat

VARIABLES
  at,                        \* how many answer threads are at each place
  creating,                  \* which servers are about to create a thread
  procs, qprocs,             \* active and queued query processes
  cache_r_lock, cache_w_lock, r_pend, rw_pend, r_susp,
  exiting                    \* the main thread's place

lockVars  == <<cache_r_lock, cache_w_lock, r_pend, rw_pend, r_susp>>
procVars  == <<creating, procs, qprocs>>
pdnsdVars == <<at, procVars, lockVars, exiting>>

Servers == {"udp_server_thread", "tcp_server_thread"}
Active  == {"answers", "rWait", "rWoken", "reads", "wWait", "wWoken", "writes"}
Places  == Active \cup {"queued"}

PdnsdInit ==
  /\ at = [p \in Places |-> 0]
  /\ creating = {} /\ procs = 0 /\ qprocs = 0
  /\ cache_r_lock = 0 /\ cache_w_lock = FALSE
  /\ r_pend = 0 /\ rw_pend = 0 /\ r_susp = FALSE
  /\ exiting = "sigwait"

\* One thread goes from a place to another.
Moved(f, from, to) == [f EXCEPT ![from] = @ - 1, ![to] = @ + 1]

Here(p) == at[p] > 0 /\ exiting # "exited"

-----------------------------------------------------------------------------
(* Admission *)

\* A query arrives and is within the limits, or is dropped.
ServerTakes(s) ==
  /\ s \notin creating /\ exiting # "exited"
  /\ qprocs < ProcLimit + ProcqLimit
  /\ qprocs' = qprocs + 1
  /\ creating' = creating \cup {s}
  /\ UNCHANGED <<at, procs, lockVars, exiting>>

Mut_ServerCreates(s) ==
  /\ s \in creating /\ exiting # "exited"
  /\ creating' = creating \ {s}
  /\ \/ at' = [at EXCEPT !["queued"] = @ + 1]
     \/ UNCHANGED at
  /\ UNCHANGED <<procs, qprocs, lockVars, exiting>>

\* pthread_create, which may fail.
ServerCreates(s) ==
  /\ s \in creating /\ exiting # "exited"
  /\ creating' = creating \ {s}
  /\ \/ at' = [at EXCEPT !["queued"] = @ + 1] /\ UNCHANGED qprocs
     \/ qprocs' = qprocs - 1 /\ UNCHANGED at
  /\ UNCHANGED <<procs, lockVars, exiting>>

AnswerBegins ==
  /\ Here("queued") /\ procs < ProcLimit
  /\ procs' = procs + 1
  /\ at' = Moved(at, "queued", "answers")
  /\ UNCHANGED <<creating, qprocs, lockVars, exiting>>

\* decrease_procs, from the thread's clean-up handler.
AnswerEnds ==
  /\ Here("answers")
  /\ procs' = procs - 1 /\ qprocs' = qprocs - 1
  /\ at' = [at EXCEPT !["answers"] = @ - 1]
  /\ UNCHANGED <<creating, lockVars, exiting>>

-----------------------------------------------------------------------------
(* The cache lock *)

SUSP_THRESH(n) == n \div 2 + 2

\* The loop of lock_cache_r, entered with the thread counted in pend.
TryRead(from, pend) ==
  LET susp == r_susp \/ rw_pend > SUSP_THRESH(pend)
  IN  /\ r_susp' = susp
      /\ IF susp \/ cache_w_lock
           THEN /\ at' = Moved(at, from, "rWait")
                /\ r_pend' = pend
                /\ UNCHANGED cache_r_lock
           ELSE /\ at' = Moved(at, from, "reads")
                /\ r_pend' = pend - 1
                /\ cache_r_lock' = cache_r_lock + 1
      /\ UNCHANGED <<procVars, cache_w_lock, rw_pend, exiting>>

lock_cache_r == Here("answers") /\ TryRead("answers", r_pend + 1)
ReaderWoken  == Here("rWoken") /\ TryRead("rWoken", r_pend)

\* The loop of lock_cache_rw.
TryWrite(from, pend) ==
  /\ IF cache_w_lock \/ cache_r_lock > 0
       THEN /\ at' = Moved(at, from, "wWait")
            /\ rw_pend' = pend
            /\ UNCHANGED cache_w_lock
       ELSE /\ at' = Moved(at, from, "writes")
            /\ rw_pend' = pend - 1
            /\ cache_w_lock' = TRUE
  /\ UNCHANGED <<procVars, cache_r_lock, r_pend, r_susp, exiting>>

Mut_lock_cache_rw ==
  /\ Here("answers")
  /\ at' = Moved(at, "answers", IF cache_w_lock THEN "wWait" ELSE "writes")
  /\ rw_pend' = IF cache_w_lock THEN rw_pend + 1 ELSE rw_pend
  /\ cache_w_lock' = TRUE
  /\ UNCHANGED <<procVars, cache_r_lock, r_pend, r_susp, exiting>>

lock_cache_rw == Here("answers") /\ TryWrite("answers", rw_pend + 1)
WriterWoken   == Here("wWoken") /\ TryWrite("wWoken", rw_pend)

\* pthread_cond_signal and pthread_cond_broadcast.
SignalWriter(f) == IF f["wWait"] > 0 THEN Moved(f, "wWait", "wWoken") ELSE f
WakeReaders(f) ==
  [f EXCEPT !["rWait"] = 0, !["rWoken"] = f["rWoken"] + f["rWait"]]

unlock_cache_r ==
  /\ Here("reads")
  /\ cache_r_lock' = IF cache_r_lock > 0 THEN cache_r_lock - 1 ELSE cache_r_lock
  /\ at' = LET f == Moved(at, "reads", "answers")
           IN  IF cache_r_lock' = 0 THEN SignalWriter(f) ELSE f
  /\ UNCHANGED <<procVars, cache_w_lock, r_pend, rw_pend, r_susp, exiting>>

\* The suspension is not lifted: only a reader's own look would lift it.
Mut_unlock_cache_rw ==
  /\ Here("writes")
  /\ cache_w_lock' = FALSE
  /\ at' = LET f == Moved(at, "writes", "answers")
           IN  IF r_pend = 0 \/ rw_pend > SUSP_THRESH(r_pend) THEN SignalWriter(f)
               ELSE WakeReaders(f)
  /\ UNCHANGED <<procVars, cache_r_lock, r_pend, rw_pend, r_susp, exiting>>

\* Another writer, or else all waiting readers.
unlock_cache_rw ==
  /\ Here("writes")
  /\ cache_w_lock' = FALSE
  /\ r_susp' = FALSE
  /\ at' = LET f == Moved(at, "writes", "answers")
           IN  IF r_pend = 0 \/ rw_pend > SUSP_THRESH(r_pend) THEN SignalWriter(f)
               ELSE WakeReaders(f)
  /\ UNCHANGED <<procVars, cache_r_lock, r_pend, rw_pend, exiting>>

-----------------------------------------------------------------------------
(* The main thread after sigwait: write_disk_cache and destroy_cache *)

Signal ==
  /\ exiting = "sigwait"
  /\ exiting' = "softlock_rw"
  /\ UNCHANGED <<at, procVars, lockVars>>

\* softlock_cache_rw and softlock_cache_r: the lock, or nothing after
\* SOFTLOCK_MAXTRIES at it or at its mutex.
Mut_SoftLock(from, held, failed) ==
  /\ exiting = from
  /\ IF held = "r" THEN ~cache_w_lock ELSE ~cache_w_lock /\ cache_r_lock = 0
  /\ exiting' = held
  /\ IF held = "r" THEN cache_r_lock' = cache_r_lock + 1 /\ UNCHANGED cache_w_lock
                   ELSE cache_w_lock' = TRUE /\ UNCHANGED cache_r_lock
  /\ UNCHANGED <<at, procVars, r_pend, rw_pend, r_susp>>

SoftLock(from, held, failed) ==
  /\ exiting = from
  /\ \/ /\ ~cache_w_lock /\ (held # "r" => cache_r_lock = 0)
        /\ exiting' = held
        /\ IF held = "r"
             THEN cache_r_lock' = cache_r_lock + 1 /\ UNCHANGED cache_w_lock
             ELSE cache_w_lock' = TRUE /\ UNCHANGED cache_r_lock
     \/ exiting' = failed /\ UNCHANGED <<cache_r_lock, cache_w_lock>>
  /\ UNCHANGED <<at, procVars, r_pend, rw_pend, r_susp>>

\* softunlock_cache_rw and softunlock_cache_r wake nobody.  One whose mutex
\* cannot be had leaves the lock as it is: after the purge that ends the
\* write, after the write it is not looked at.
SoftUnlock ==
  /\ \/ /\ exiting = "w"
        /\ \/ cache_w_lock' = FALSE /\ exiting' = "softlock_r"
           \/ UNCHANGED cache_w_lock /\ exiting' = "destroy"
        /\ UNCHANGED cache_r_lock
     \/ /\ exiting = "r"
        /\ cache_r_lock' \in {cache_r_lock - 1, cache_r_lock}
        /\ exiting' = "destroy"
        /\ UNCHANGED cache_w_lock
  /\ UNCHANGED <<at, procVars, r_pend, rw_pend, r_susp>>

\* destroy_cache, which keeps the lock, and the end of the process.
Exit ==
  /\ exiting = "destroyed"
  /\ exiting' = "exited"
  /\ UNCHANGED <<at, procVars, lockVars>>

Main ==
  \/ SoftLock("softlock_rw", "w", "destroy") \/ SoftLock("softlock_r", "r", "destroy")
  \/ SoftLock("destroy", "destroyed", "exited")
  \/ SoftUnlock \/ Exit

PdnsdNext ==
  \/ \E s \in Servers : ServerTakes(s) \/ ServerCreates(s)
  \/ AnswerBegins \/ AnswerEnds
  \/ lock_cache_r \/ ReaderWoken \/ unlock_cache_r
  \/ lock_cache_rw \/ WriterWoken \/ unlock_cache_rw
  \/ Signal \/ Main

PdnsdFairness == WF_pdnsdVars(Main)

PdnsdSpec == PdnsdInit /\ [][PdnsdNext]_pdnsdVars /\ PdnsdFairness

-----------------------------------------------------------------------------
\* How many threads are at the places of S.
Threads(S) ==
  LET n(p) == IF p \in S THEN at[p] ELSE 0
  IN  n("queued") + n("answers") + n("rWait") + n("rWoken") + n("reads")
        + n("wWait") + n("wWoken") + n("writes")

\* Every thread holds its slots and no slot outlives its thread, whether its
\* creation failed or its answer ended: the limits never lock pdnsd up.
PdnsdTypeOK ==
  /\ at \in [Places -> 0..ProcLimit + ProcqLimit]
  /\ creating \subseteq Servers
  /\ procs = Threads(Active) /\ procs <= ProcLimit
  /\ qprocs = Threads(Places)
       + (IF creating = {} THEN 0 ELSE IF creating = Servers THEN 2 ELSE 1)
  /\ qprocs <= ProcLimit + ProcqLimit
  /\ cache_w_lock \in BOOLEAN /\ r_susp \in BOOLEAN
  /\ r_pend = at["rWait"] + at["rWoken"] /\ rw_pend = at["wWait"] + at["wWoken"]

\* A writer is alone, also beside the main thread's purge, write and
\* destruction of the cache on the way out.
CacheExclusive ==
  LET writers == at["writes"] + (IF exiting \in {"w", "destroyed"} THEN 1 ELSE 0)
      readers == at["reads"] + (IF exiting = "r" THEN 1 ELSE 0)
  IN  writers <= 1 /\ (writers = 1 => readers = 0)

\* Until the signal comes, nobody waits for a lock that is free: whoever last
\* gave it up has woken a thread that can take it, in spite of the suspended
\* readers and of those who overtake the woken.
NoLostWakeup ==
  /\ exiting = "sigwait" /\ ~cache_w_lock /\ cache_r_lock = 0
  /\ at["rWoken"] = 0 /\ at["wWoken"] = 0
  => at["rWait"] = 0 /\ at["wWait"] = 0

\* pdnsd ends once it is told to, whatever locks its threads hold.
KilledExits == exiting # "sigwait" ~> exiting = "exited"
=============================================================================
