----------------------------- MODULE PdnsdProofs -----------------------------
(***************************************************************************)
(* pdnsd's cache lock and its thread limits, for any proc_limit and        *)
(* procq_limit: the counters are the threads there are, a writer is alone, *)
(* and nobody waits for a lock that is free.                               *)
(***************************************************************************)
EXTENDS Pdnsd, TLAPS

-----------------------------------------------------------------------------
(***************************************************************************)
(* The lock.  Whoever writes holds cache_w_lock, and whoever reads is in   *)
(* cache_r_lock; on the way out either may be left behind without a        *)
(* holder, so they need not say that somebody is there.                    *)
(***************************************************************************)
Exits == {"sigwait", "softlock_rw", "w", "softlock_r", "r", "destroy",
          "destroyed", "exited"}

Writers == at["writes"] + (IF exiting \in {"w", "destroyed"} THEN 1 ELSE 0)
Readers == at["reads"] + (IF exiting = "r" THEN 1 ELSE 0)

LockInv ==
  /\ exiting \in Exits
  /\ cache_r_lock \in Nat /\ Readers <= cache_r_lock
  /\ Writers <= 1
  /\ Writers > 0 => cache_w_lock
  /\ cache_w_lock => cache_r_lock = 0

(***************************************************************************)
(* The waiting.  Without a writer in the cache, readers are suspended or   *)
(* wait only behind pending writers; and while the lock is free a pending  *)
(* writer is woken, or a reader is that will not find itself suspended.    *)
(***************************************************************************)
WaitInv ==
  exiting = "sigwait" /\ ~cache_w_lock =>
    /\ r_susp => rw_pend > 0
    /\ at["rWait"] > 0 => rw_pend > 0
    /\ cache_r_lock = 0 /\ rw_pend > 0 =>
         \/ at["wWoken"] > 0
         \/ at["rWoken"] > 0 /\ ~r_susp /\ rw_pend <= SUSP_THRESH(r_pend)

PdnsdInv == PdnsdTypeOK /\ LockInv /\ WaitInv

-----------------------------------------------------------------------------
(* Counting threads *)

\* The threads at each place of f, added up over the active places.
Sum(f) ==
  f["answers"] + f["rWait"] + f["rWoken"] + f["reads"]
    + f["wWait"] + f["wWoken"] + f["writes"]

Creators(S) == IF S = {} THEN 0 ELSE IF S = Servers THEN 2 ELSE 1

Limit == ProcLimit + ProcqLimit

\* PdnsdTypeOK says how many threads there are, in sums.
Counts(f, active, queued, making, reading, writing) ==
  /\ f \in [Places -> Nat]
  /\ making \subseteq Servers
  /\ active = Sum(f) /\ active <= ProcLimit
  /\ queued = f["queued"] + Sum(f) + Creators(making) /\ queued <= Limit
  /\ reading = f["rWait"] + f["rWoken"] /\ writing = f["wWait"] + f["wWoken"]

\* The limits on pdnsd's threads are naturals, and so is their sum.
LEMMA LimitNat == ProcLimit \in Nat /\ ProcqLimit \in Nat /\ Limit \in Nat
BY ProcAssumption DEF Limit

\* The threads past the queue are counted by a natural that bounds the count
\* at each of their places.
LEMMA SumNat ==
  ASSUME NEW f \in [Places -> Nat]
  PROVE  /\ Sum(f) \in Nat
         /\ \A p \in Active : f[p] <= Sum(f)
BY DEF Sum, Places, Active

\* At most the two server threads are creating an answer thread.
LEMMA CreatorsNat == \A S \in SUBSET Servers : Creators(S) \in 0..2
BY DEF Creators

\* A server thread that begins or ends a creation counts for one.
LEMMA CreatorsFacts ==
  ASSUME NEW S \in SUBSET Servers, NEW s \in Servers
  PROVE  /\ s \notin S => Creators(S \cup {s}) = Creators(S) + 1
         /\ s \in S => Creators(S \ {s}) = Creators(S) - 1
<1>. PICK t \in Servers : t # s /\ Servers = {s, t} BY DEF Servers
<1>1. S \in {{}, {s}, {t}, Servers} OBVIOUS
<1>2. /\ {s} # {} /\ {t} # {} /\ Servers # {} /\ {s} # Servers /\ {t} # Servers
      /\ {t} \cup {s} = Servers /\ Servers \ {s} = {t} /\ {s} \ {s} = {}
      /\ {} \cup {s} = {s}
  OBVIOUS
<1>3. /\ Creators({}) = 0 /\ Creators({s}) = 1 /\ Creators({t}) = 1
      /\ Creators(Servers) = 2
  BY <1>2 DEF Creators
<1>. QED BY <1>1, <1>2, <1>3

\* The two ways of saying it are the same.
LEMMA TypeIsCounts ==
  PdnsdTypeOK <=>
    /\ Counts(at, procs, qprocs, creating, r_pend, rw_pend)
    /\ cache_w_lock \in BOOLEAN /\ r_susp \in BOOLEAN
<1>1. ASSUME at \in [Places -> Nat]
      PROVE  Threads(Active) = Sum(at) /\ Threads(Places) = at["queued"] + Sum(at)
  BY <1>1 DEF Threads, Sum, Places, Active
<1>2. ASSUME PdnsdTypeOK
      PROVE  /\ Counts(at, procs, qprocs, creating, r_pend, rw_pend)
             /\ cache_w_lock \in BOOLEAN /\ r_susp \in BOOLEAN
  <2>1. at \in [Places -> Nat] BY <1>2, LimitNat DEF PdnsdTypeOK, Limit
  <2>. QED BY <1>1, <1>2, <2>1 DEF PdnsdTypeOK, Counts, Creators, Limit
<1>3. ASSUME Counts(at, procs, qprocs, creating, r_pend, rw_pend),
             cache_w_lock \in BOOLEAN, r_susp \in BOOLEAN
      PROVE  PdnsdTypeOK
  <2>1. at \in [Places -> Nat] BY <1>3 DEF Counts
  <2>2. \A p \in Places : at[p] <= Limit
    <3>1. at["queued"] \in Nat /\ Creators(creating) \in Nat
      BY <2>1, <1>3, CreatorsNat DEF Places, Counts
    <3>2. at["queued"] + Sum(at) <= Limit
      BY <3>1, <1>3, <2>1, SumNat, LimitNat DEF Counts
    <3>3. \A p \in Active : at[p] <= Sum(at) /\ at[p] \in Nat
      BY <2>1, SumNat DEF Places
    <3>. QED BY <3>1, <3>2, <3>3, <2>1, SumNat, LimitNat DEF Places
  <2>3. at \in [Places -> 0..ProcLimit + ProcqLimit]
    BY <2>1, <2>2, LimitNat DEF Limit
  <2>. QED BY <1>1, <1>3, <2>1, <2>3 DEF PdnsdTypeOK, Counts, Creators, Limit
<1>. QED BY <1>2, <1>3

\* A thread that moves is taken from one place and added to another.
LEMMA MovedFacts ==
  ASSUME NEW f \in [Places -> Nat], NEW from \in Places, NEW to \in Places,
         from # to, f[from] > 0
  PROVE  /\ Moved(f, from, to) \in [Places -> Nat]
         /\ Moved(f, from, to)[from] = f[from] - 1
         /\ Moved(f, from, to)[to] = f[to] + 1
         /\ \A p \in Places \ {from, to} : Moved(f, from, to)[p] = f[p]
BY DEF Moved

\* Among the active places a move changes no sum.
LEMMA MovedSum ==
  ASSUME NEW f \in [Places -> Nat], NEW from \in Active, NEW to \in Active,
         from # to, f[from] > 0
  PROVE  Sum(Moved(f, from, to)) = Sum(f)
<1>1. \A p \in Active : Moved(f, from, to)[p] =
        IF p = from THEN f[p] - 1 ELSE IF p = to THEN f[p] + 1 ELSE f[p]
  BY DEF Moved, Places
<1>. QED BY <1>1 DEF Sum, Active, Places

\* pthread_cond_signal moves one waiting writer, or nobody.
LEMMA SignalFacts ==
  ASSUME NEW f \in [Places -> Nat]
  PROVE  LET g == SignalWriter(f)
         IN  /\ g \in [Places -> Nat] /\ Sum(g) = Sum(f)
             /\ g["wWait"] + g["wWoken"] = f["wWait"] + f["wWoken"]
             /\ f["wWait"] + f["wWoken"] > 0 => g["wWoken"] > 0
             /\ \A p \in Places \ {"wWait", "wWoken"} : g[p] = f[p]
<1>1. CASE f["wWait"] > 0
  <2>1. "wWait" \in Active /\ "wWoken" \in Active /\ Active \subseteq Places
    BY DEF Active, Places
  <2>2. f["wWait"] \in Nat /\ f["wWoken"] \in Nat BY <2>1
  <2>. QED BY <1>1, <2>1, <2>2, MovedFacts, MovedSum DEF SignalWriter
<1>2. CASE ~(f["wWait"] > 0)
  BY <1>2 DEF SignalWriter, Active, Places
<1>. QED BY <1>1, <1>2

\* pthread_cond_broadcast moves all waiting readers.
LEMMA WakeFacts ==
  ASSUME NEW f \in [Places -> Nat]
  PROVE  LET g == WakeReaders(f)
         IN  /\ g \in [Places -> Nat] /\ Sum(g) = Sum(f)
             /\ g["rWait"] = 0 /\ g["rWoken"] = f["rWait"] + f["rWoken"]
             /\ \A p \in Places \ {"rWait", "rWoken"} : g[p] = f[p]
BY DEF WakeReaders, Sum, Places, Active

-----------------------------------------------------------------------------
\* pdnsd starts with the invariant.
LEMMA PdnsdInvInit == PdnsdInit => PdnsdInv
<1>. SUFFICES ASSUME PdnsdInit PROVE PdnsdInv OBVIOUS
<1>. USE DEF PdnsdInit
<1>1. Counts(at, procs, qprocs, creating, r_pend, rw_pend)
  BY LimitNat DEF Counts, Sum, Creators, Places, Active
<1>2. PdnsdTypeOK BY <1>1, TypeIsCounts
<1>3. LockInv BY DEF LockInv, Readers, Writers, Exits, Places, Active
<1>4. WaitInv BY DEF WaitInv, Places, Active
<1>. QED BY <1>2, <1>3, <1>4 DEF PdnsdInv

\* Threads come and go without the lock.
LEMMA AdmissionStep ==
  ASSUME PdnsdInv,
         \/ \E s \in Servers : ServerTakes(s) \/ ServerCreates(s)
         \/ AnswerBegins \/ AnswerEnds
  PROVE  PdnsdInv'
<1>. DEFINE Same == /\ UNCHANGED <<lockVars, exiting>>
                    /\ \A p \in Active \ {"answers"} : at'[p] = at[p]
<1>0. Counts(at, procs, qprocs, creating, r_pend, rw_pend)
      /\ cache_w_lock \in BOOLEAN /\ r_susp \in BOOLEAN
  BY TypeIsCounts DEF PdnsdInv
<1>a. /\ at \in [Places -> Nat] /\ procs \in Nat /\ qprocs \in Nat
      /\ Sum(at) \in Nat /\ Creators(creating) \in Nat
      /\ at["queued"] \in Nat
  <2>1. at \in [Places -> Nat] /\ creating \subseteq Servers BY <1>0 DEF Counts
  <2>2. Sum(at) \in Nat /\ Creators(creating) \in Nat /\ at["queued"] \in Nat
    BY <2>1, SumNat, CreatorsNat DEF Places
  <2>. QED BY <2>1, <2>2, <1>0 DEF Counts
<1>1. ASSUME NEW s \in Servers, ServerTakes(s)
      PROVE  Counts(at', procs', qprocs', creating', r_pend', rw_pend') /\ Same
  <2>1. Creators(creating') = Creators(creating) + 1
    BY <1>1, <1>0, CreatorsFacts DEF ServerTakes, Counts
  <2>. QED BY <2>1, <1>0, <1>1, <1>a, LimitNat DEF ServerTakes, Counts, lockVars, Limit
<1>2. ASSUME NEW s \in Servers, ServerCreates(s)
      PROVE  Counts(at', procs', qprocs', creating', r_pend', rw_pend') /\ Same
  <2>1. Creators(creating') = Creators(creating) - 1
    BY <1>2, <1>0, CreatorsFacts DEF ServerCreates, Counts
  <2>2. CASE at' = [at EXCEPT !["queued"] = @ + 1] /\ UNCHANGED qprocs
    <3>1. at' \in [Places -> Nat] /\ at'["queued"] = at["queued"] + 1
          /\ \A p \in Active : at'[p] = at[p]
      BY <2>2, <1>a DEF Places, Active
    <3>2. Sum(at') = Sum(at) BY <3>1 DEF Sum, Active
    <3>. QED BY <2>1, <2>2, <3>1, <3>2, <1>0, <1>2, <1>a, LimitNat
             DEF ServerCreates, Counts, lockVars, Active
  <2>3. CASE qprocs' = qprocs - 1 /\ UNCHANGED at
    <3>. QED BY <2>1, <2>3, <1>0, <1>2, <1>a, LimitNat DEF ServerCreates, Counts, lockVars
  <2>. QED BY <2>2, <2>3, <1>2 DEF ServerCreates
<1>3. ASSUME AnswerBegins
      PROVE  Counts(at', procs', qprocs', creating', r_pend', rw_pend') /\ Same
  <2>1. at' \in [Places -> Nat] /\ at'["queued"] = at["queued"] - 1
        /\ at'["answers"] = at["answers"] + 1
        /\ \A p \in Active \ {"answers"} : at'[p] = at[p]
    BY <1>3, <1>a DEF AnswerBegins, Here, Moved, Places, Active
  <2>2. Sum(at') = Sum(at) + 1 BY <2>1, <1>a DEF Sum, Active, Places
  <2>. QED BY <2>1, <2>2, <1>0, <1>3, <1>a, LimitNat
           DEF AnswerBegins, Counts, lockVars, Active
<1>4. ASSUME AnswerEnds
      PROVE  Counts(at', procs', qprocs', creating', r_pend', rw_pend') /\ Same
  <2>1. at' \in [Places -> Nat] /\ at'["queued"] = at["queued"]
        /\ at'["answers"] = at["answers"] - 1
        /\ \A p \in Active \ {"answers"} : at'[p] = at[p]
    BY <1>4, <1>a DEF AnswerEnds, Here, Places, Active
  <2>2. Sum(at') = Sum(at) - 1 BY <2>1, <1>a DEF Sum, Active, Places
  <2>. QED BY <2>1, <2>2, <1>0, <1>4, <1>a, LimitNat
           DEF AnswerEnds, Counts, lockVars, Active
<1>5. Counts(at', procs', qprocs', creating', r_pend', rw_pend') /\ Same
  BY <1>1, <1>2, <1>3, <1>4
<1>6. PdnsdTypeOK'
  <2>1. (/\ Counts(at, procs, qprocs, creating, r_pend, rw_pend)
         /\ cache_w_lock \in BOOLEAN /\ r_susp \in BOOLEAN)'
    BY <1>5, <1>0 DEF lockVars
  <2>. QED BY <2>1, TypeIsCounts, PTL
<1>7. LockInv' BY <1>5 DEF PdnsdInv, LockInv, Readers, Writers, lockVars, Active
<1>8. WaitInv' BY <1>5 DEF PdnsdInv, WaitInv, lockVars, Active
<1>. QED BY <1>6, <1>7, <1>8 DEF PdnsdInv

-----------------------------------------------------------------------------
(* The lock *)

\* A step among the active places keeps the counters right if it keeps r_pend
\* and rw_pend so.
LEMMA LockKeepsCounts ==
  ASSUME PdnsdTypeOK, UNCHANGED procVars,
         at' \in [Places -> Nat], Sum(at') = Sum(at), at'["queued"] = at["queued"],
         r_pend' = at'["rWait"] + at'["rWoken"],
         rw_pend' = at'["wWait"] + at'["wWoken"],
         cache_w_lock' \in BOOLEAN, r_susp' \in BOOLEAN
  PROVE  PdnsdTypeOK'
<1>1. Counts(at, procs, qprocs, creating, r_pend, rw_pend)
  BY TypeIsCounts
<1>2. (/\ Counts(at, procs, qprocs, creating, r_pend, rw_pend)
       /\ cache_w_lock \in BOOLEAN /\ r_susp \in BOOLEAN)'
  BY <1>1 DEF Counts, procVars
<1>. QED BY <1>2, TypeIsCounts, PTL

\* What the lock's own steps start from.
LEMMA LockFacts ==
  ASSUME PdnsdInv
  PROVE  /\ at \in [Places -> Nat] /\ \A p \in Places : at[p] \in Nat
         /\ r_pend = at["rWait"] + at["rWoken"] /\ rw_pend = at["wWait"] + at["wWoken"]
         /\ r_pend \in Nat /\ rw_pend \in Nat
         /\ cache_w_lock \in BOOLEAN /\ r_susp \in BOOLEAN
<1>1. at \in [Places -> Nat] BY TypeIsCounts DEF PdnsdInv, Counts
<1>2. \A p \in Places : at[p] \in Nat BY <1>1
<1>3. r_pend = at["rWait"] + at["rWoken"] /\ rw_pend = at["wWait"] + at["wWoken"]
      /\ cache_w_lock \in BOOLEAN /\ r_susp \in BOOLEAN
  BY DEF PdnsdInv, PdnsdTypeOK
<1>. QED BY <1>1, <1>2, <1>3 DEF Places, Active

\* Where an answer thread past the queue can be.
LEMMA ActivePlaces ==
  /\ {"answers", "rWait", "rWoken", "reads", "wWait", "wWoken", "writes"} \subseteq Active
  /\ Active \subseteq Places /\ "queued" \in Places /\ "queued" \notin Active
BY DEF Places, Active

\* lock_cache_r and the loop a woken reader goes on with.
LEMMA ReadStep ==
  ASSUME PdnsdInv, lock_cache_r \/ ReaderWoken
  PROVE  PdnsdInv'
<1>. PICK from \in {"answers", "rWoken"}, n \in Nat :
       /\ Here(from) /\ TryRead(from, n)
       /\ n = IF from = "answers" THEN r_pend + 1 ELSE r_pend
  BY LockFacts DEF lock_cache_r, ReaderWoken
<1>. DEFINE susp == r_susp \/ rw_pend > SUSP_THRESH(n)
<1>. USE LockFacts
<1>0. at[from] > 0 /\ exiting # "exited" /\ from \in Active
  BY ActivePlaces DEF Here
<1>1. CASE susp \/ cache_w_lock
  <2>1. at' = Moved(at, from, "rWait") /\ r_susp' = susp /\ r_pend' = n
        /\ UNCHANGED <<procVars, cache_r_lock, cache_w_lock, rw_pend, exiting>>
    BY <1>1 DEF TryRead
  <2>2. /\ at' \in [Places -> Nat] /\ Sum(at') = Sum(at)
        /\ at'[from] = at[from] - 1 /\ at'["rWait"] = at["rWait"] + 1
        /\ \A p \in Places \ {from, "rWait"} : at'[p] = at[p]
    BY <2>1, <1>0, ActivePlaces, MovedFacts, MovedSum
  <2>3. PdnsdTypeOK'
    BY <2>1, <2>2, <1>0, LockKeepsCounts, ActivePlaces DEF PdnsdInv
  <2>4. LockInv'
    BY <2>1, <2>2, ActivePlaces DEF PdnsdInv, LockInv, Readers, Writers
  <2>5. WaitInv'
    <3>. SUFFICES ASSUME exiting = "sigwait", ~cache_w_lock
                  PROVE  /\ rw_pend > 0
                         /\ cache_r_lock = 0 => at["wWoken"] > 0
      BY <2>1, <2>2, ActivePlaces DEF WaitInv
    <3>1. n \div 2 \in Nat /\ (from = "answers" => r_pend \div 2 <= n \div 2)
      OBVIOUS
    <3>2. susp BY <1>1
    <3>3. rw_pend > 0 BY <3>1, <3>2 DEF PdnsdInv, WaitInv, SUSP_THRESH
    <3>. QED BY <3>1, <3>2, <3>3 DEF PdnsdInv, WaitInv, SUSP_THRESH
  <2>. QED BY <2>3, <2>4, <2>5 DEF PdnsdInv
<1>2. CASE ~(susp \/ cache_w_lock)
  <2>1. at' = Moved(at, from, "reads") /\ r_susp' = susp /\ r_pend' = n - 1
        /\ cache_r_lock' = cache_r_lock + 1
        /\ UNCHANGED <<procVars, cache_w_lock, rw_pend, exiting>>
    BY <1>2 DEF TryRead
  <2>2. /\ at' \in [Places -> Nat] /\ Sum(at') = Sum(at)
        /\ at'[from] = at[from] - 1 /\ at'["reads"] = at["reads"] + 1
        /\ \A p \in Places \ {from, "reads"} : at'[p] = at[p]
    BY <2>1, <1>0, ActivePlaces, MovedFacts, MovedSum
  <2>3. PdnsdTypeOK'
    BY <2>1, <2>2, <1>0, LockKeepsCounts, ActivePlaces DEF PdnsdInv
  <2>4. LockInv'
    BY <1>2, <2>1, <2>2, ActivePlaces DEF PdnsdInv, LockInv, Readers, Writers
  <2>5. WaitInv'
    BY <1>2, <2>1, <2>2, ActivePlaces DEF PdnsdInv, WaitInv, LockInv
  <2>. QED BY <2>3, <2>4, <2>5 DEF PdnsdInv
<1>. QED BY <1>1, <1>2

\* lock_cache_rw and the loop a woken writer goes on with.
LEMMA WriteStep ==
  ASSUME PdnsdInv, lock_cache_rw \/ WriterWoken
  PROVE  PdnsdInv'
<1>. PICK from \in {"answers", "wWoken"}, n \in Nat :
       /\ Here(from) /\ TryWrite(from, n)
       /\ n = IF from = "answers" THEN rw_pend + 1 ELSE rw_pend
  BY LockFacts DEF lock_cache_rw, WriterWoken
<1>. USE LockFacts
<1>0. at[from] > 0 /\ exiting # "exited" /\ from \in Active
  BY ActivePlaces DEF Here
<1>1. CASE cache_w_lock \/ cache_r_lock > 0
  <2>1. at' = Moved(at, from, "wWait") /\ rw_pend' = n
        /\ UNCHANGED <<procVars, cache_r_lock, cache_w_lock, r_pend, r_susp, exiting>>
    BY <1>1 DEF TryWrite
  <2>2. /\ at' \in [Places -> Nat] /\ Sum(at') = Sum(at)
        /\ at'[from] = at[from] - 1 /\ at'["wWait"] = at["wWait"] + 1
        /\ \A p \in Places \ {from, "wWait"} : at'[p] = at[p]
    BY <2>1, <1>0, ActivePlaces, MovedFacts, MovedSum
  <2>3. PdnsdTypeOK'
    BY <2>1, <2>2, <1>0, LockKeepsCounts, ActivePlaces DEF PdnsdInv
  <2>4. LockInv'
    BY <2>1, <2>2, ActivePlaces DEF PdnsdInv, LockInv, Readers, Writers
  <2>5. WaitInv'
    BY <1>1, <2>1, <2>2, ActivePlaces DEF PdnsdInv, WaitInv, LockInv
  <2>. QED BY <2>3, <2>4, <2>5 DEF PdnsdInv
<1>2. CASE ~(cache_w_lock \/ cache_r_lock > 0)
  <2>1. at' = Moved(at, from, "writes") /\ rw_pend' = n - 1 /\ cache_w_lock' = TRUE
        /\ UNCHANGED <<procVars, cache_r_lock, r_pend, r_susp, exiting>>
    BY <1>2 DEF TryWrite
  <2>2. /\ at' \in [Places -> Nat] /\ Sum(at') = Sum(at)
        /\ at'[from] = at[from] - 1 /\ at'["writes"] = at["writes"] + 1
        /\ \A p \in Places \ {from, "writes"} : at'[p] = at[p]
    BY <2>1, <1>0, ActivePlaces, MovedFacts, MovedSum
  <2>3. PdnsdTypeOK'
    BY <2>1, <2>2, <1>0, LockKeepsCounts, ActivePlaces DEF PdnsdInv
  <2>4. LockInv'
    BY <1>2, <2>1, <2>2, ActivePlaces DEF PdnsdInv, LockInv, Readers, Writers
  <2>5. WaitInv' BY <2>1 DEF WaitInv
  <2>. QED BY <2>3, <2>4, <2>5 DEF PdnsdInv
<1>. QED BY <1>1, <1>2

\* unlock_cache_r: the last reader wakes a writer.
LEMMA UnlockReadStep ==
  ASSUME PdnsdInv, unlock_cache_r
  PROVE  PdnsdInv'
<1>. DEFINE f == Moved(at, "reads", "answers")
<1>. USE LockFacts
<1>0. at["reads"] > 0 /\ exiting # "exited" BY DEF unlock_cache_r, Here
<1>1. /\ cache_r_lock \in Nat /\ cache_r_lock > 0 /\ cache_r_lock' = cache_r_lock - 1
      /\ UNCHANGED <<procVars, cache_w_lock, r_pend, rw_pend, r_susp, exiting>>
  BY <1>0, ActivePlaces DEF unlock_cache_r, PdnsdInv, LockInv, Readers
<1>2. at' = IF cache_r_lock' = 0 THEN SignalWriter(f) ELSE f
  BY DEF unlock_cache_r
<1>3. /\ f \in [Places -> Nat] /\ Sum(f) = Sum(at)
      /\ f["reads"] = at["reads"] - 1
      /\ \A p \in Places \ {"reads", "answers"} : f[p] = at[p]
  BY <1>0, ActivePlaces, MovedFacts, MovedSum
<1>. HIDE DEF f
<1>4. /\ at' \in [Places -> Nat] /\ Sum(at') = Sum(at)
      /\ at'["wWait"] + at'["wWoken"] = at["wWait"] + at["wWoken"]
      /\ at'["reads"] = at["reads"] - 1
      /\ \A p \in Places \ {"reads", "answers", "wWait", "wWoken"} : at'[p] = at[p]
      /\ cache_r_lock' = 0 /\ rw_pend > 0 => at'["wWoken"] > 0
  BY <1>2, <1>3, SignalFacts, ActivePlaces
<1>5. PdnsdTypeOK'
  BY <1>1, <1>4, LockKeepsCounts, ActivePlaces DEF PdnsdInv
<1>6. LockInv'
  BY <1>1, <1>4, ActivePlaces DEF PdnsdInv, LockInv, Readers, Writers
<1>7. WaitInv'
  BY <1>1, <1>4, ActivePlaces DEF PdnsdInv, WaitInv
<1>. QED BY <1>5, <1>6, <1>7 DEF PdnsdInv

\* unlock_cache_rw: a writer is woken, or else all readers are, who will find
\* themselves free to read.
LEMMA UnlockWriteStep ==
  ASSUME PdnsdInv, unlock_cache_rw
  PROVE  PdnsdInv'
<1>. DEFINE f == Moved(at, "writes", "answers")
            Another == r_pend = 0 \/ rw_pend > SUSP_THRESH(r_pend)
<1>. USE LockFacts
<1>0. at["writes"] > 0 /\ exiting # "exited" BY DEF unlock_cache_rw, Here
<1>1. /\ cache_w_lock' = FALSE /\ r_susp' = FALSE
      /\ UNCHANGED <<procVars, cache_r_lock, r_pend, rw_pend, exiting>>
  BY DEF unlock_cache_rw
<1>2. at' = IF Another THEN SignalWriter(f) ELSE WakeReaders(f)
  BY DEF unlock_cache_rw
<1>3. /\ f \in [Places -> Nat] /\ Sum(f) = Sum(at)
      /\ f["writes"] = at["writes"] - 1
      /\ \A p \in Places \ {"writes", "answers"} : f[p] = at[p]
  BY <1>0, ActivePlaces, MovedFacts, MovedSum
<1>. HIDE DEF f
<1>4. /\ at' \in [Places -> Nat] /\ Sum(at') = Sum(at)
      /\ at'["wWait"] + at'["wWoken"] = at["wWait"] + at["wWoken"]
      /\ at'["rWait"] + at'["rWoken"] = at["rWait"] + at["rWoken"]
      /\ at'["writes"] = at["writes"] - 1 /\ at'["reads"] = at["reads"]
      /\ at'["queued"] = at["queued"]
  BY <1>2, <1>3, SignalFacts, WakeFacts, ActivePlaces
<1>5. PdnsdTypeOK' BY <1>1, <1>4, LockKeepsCounts DEF PdnsdInv
<1>6. LockInv'
  BY <1>0, <1>1, <1>4, ActivePlaces DEF PdnsdInv, LockInv, Readers, Writers
<1>7. WaitInv'
  <2>1. CASE Another
    <3>1. at'["rWait"] = at["rWait"] /\ (rw_pend > 0 => at'["wWoken"] > 0)
      BY <2>1, <1>2, <1>3, SignalFacts, ActivePlaces
    <3>2. at["rWait"] > 0 => rw_pend > 0
      BY <2>1, ActivePlaces DEF SUSP_THRESH
    <3>. QED BY <3>1, <3>2, <1>1 DEF WaitInv
  <2>2. CASE ~Another
    <3>1. at'["rWait"] = 0 /\ at'["rWoken"] > 0
      BY <2>2, <1>2, <1>3, WakeFacts, ActivePlaces
    <3>2. SUSP_THRESH(r_pend) \in Nat BY DEF SUSP_THRESH
    <3>. QED BY <3>1, <3>2, <2>2, <1>1 DEF WaitInv
  <2>. QED BY <2>1, <2>2
<1>. QED BY <1>5, <1>6, <1>7 DEF PdnsdInv

\* The signal, and the main thread on its way out.  It takes the lock only when
\* it is free; what it may leave locked nobody takes any more.
LEMMA MainStep ==
  ASSUME PdnsdInv, Signal \/ Main
  PROVE  PdnsdInv'
<1>. USE LockFacts
<1>0. at["writes"] \in Nat /\ at["reads"] \in Nat BY ActivePlaces
<1>1. /\ UNCHANGED <<at, procVars, r_pend, rw_pend, r_susp>>
      /\ cache_w_lock' \in BOOLEAN /\ exiting' # "sigwait"
  BY DEF Signal, Main, SoftLock, SoftUnlock, Exit, lockVars
<1>2. PdnsdTypeOK'
  BY <1>1, LockKeepsCounts DEF PdnsdInv, PdnsdTypeOK
<1>3. LockInv'
  <2>. USE <1>0, <1>1 DEF PdnsdInv, LockInv, Readers, Writers, Exits
  <2>1. CASE Signal \/ Exit BY <2>1 DEF Signal, Exit, lockVars
  <2>2. CASE SoftLock("softlock_rw", "w", "destroy") BY <2>2 DEF SoftLock
  <2>3. CASE SoftLock("softlock_r", "r", "destroy") BY <2>3 DEF SoftLock
  <2>4. CASE SoftLock("destroy", "destroyed", "exited") BY <2>4 DEF SoftLock
  <2>5. CASE SoftUnlock BY <2>5 DEF SoftUnlock
  <2>. QED BY <2>1, <2>2, <2>3, <2>4, <2>5 DEF Main
<1>4. WaitInv' BY <1>1 DEF WaitInv
<1>. QED BY <1>2, <1>3, <1>4 DEF PdnsdInv

-----------------------------------------------------------------------------
\* Every step keeps the invariant.
LEMMA PdnsdStep == PdnsdInv /\ [PdnsdNext]_pdnsdVars => PdnsdInv'
<1>. SUFFICES ASSUME PdnsdInv, [PdnsdNext]_pdnsdVars PROVE PdnsdInv'
  OBVIOUS
<1>1. CASE PdnsdNext
  BY <1>1, AdmissionStep, ReadStep, UnlockReadStep, WriteStep, UnlockWriteStep,
     MainStep DEF PdnsdNext
<1>2. CASE UNCHANGED pdnsdVars
  <2>. USE <1>2 DEF pdnsdVars, procVars, lockVars, PdnsdInv
  <2>1. PdnsdTypeOK' BY DEF PdnsdTypeOK, Threads
  <2>2. LockInv' BY DEF LockInv, Readers, Writers
  <2>3. WaitInv' BY DEF WaitInv
  <2>. QED BY <2>1, <2>2, <2>3
<1>. QED BY <1>1, <1>2

\* The invariant gives the two properties of the lock.
LEMMA PdnsdInvImplies == PdnsdInv => CacheExclusive /\ NoLostWakeup
<1>. SUFFICES ASSUME PdnsdInv PROVE CacheExclusive /\ NoLostWakeup OBVIOUS
<1>. USE LockFacts, ActivePlaces
<1>1. CacheExclusive BY DEF PdnsdInv, LockInv, Readers, Writers, CacheExclusive
<1>2. NoLostWakeup BY DEF PdnsdInv, WaitInv, NoLostWakeup
<1>. QED BY <1>1, <1>2

\* The invariant holds in every state of pdnsd.
LEMMA PdnsdInvHolds == PdnsdSpec => []PdnsdInv
BY PdnsdInvInit, PdnsdStep, PTL DEF PdnsdSpec

\* procs and qprocs are the answer threads there are, whatever became of their
\* creation, and r_pend and rw_pend those that wait: the counters never let
\* the limits be passed and never lock a server out.
THEOREM PdnsdTypeCorrect == PdnsdSpec => []PdnsdTypeOK
<1>1. PdnsdInv => PdnsdTypeOK BY DEF PdnsdInv
<1>. QED BY <1>1, PdnsdInvHolds, PTL

\* Between lock_cache_rw and unlock_cache_rw, and while the main thread purges
\* or destroys the cache on the way out, nobody else is in the cache.
THEOREM CacheCorrect == PdnsdSpec => []CacheExclusive
BY PdnsdInvHolds, PdnsdInvImplies, PTL

\* No thread is left on rw_cond or r_cond with the cache lock free and nobody
\* woken: the suspension of readers never swallows a wake-up.
THEOREM WakeupCorrect == PdnsdSpec => []NoLostWakeup
BY PdnsdInvHolds, PdnsdInvImplies, PTL
=============================================================================
