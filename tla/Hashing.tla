------------------------------- MODULE Hashing -------------------------------
(***************************************************************************)
(* The limit on concurrent Argon2 hashes (src/auth/password.rs): a fair    *)
(* semaphore of Permits permits in front of the blocking thread pool.      *)
(*                                                                         *)
(* A request takes a permit, or queues for one in order of arrival; with   *)
(* it, it starts a blocking task and waits for the result; the permit is   *)
(* released as hash or verify returns - or as the request is dropped by    *)
(* its client.  A blocking task cannot be stopped: when its request has    *)
(* gone it runs on, without a permit.                                      *)
(***************************************************************************)
EXTENDS Naturals, Sequences, FiniteSets, SequencesExt

CONSTANTS
  Request,     \* requests in progress at once
  Permits,     \* available_parallelism()
  MaxOrphans   \* bound: abandoned hashes that run at once

ASSUME HashingAssumption == Permits \in Nat \ {0} /\ MaxOrphans \in Nat

VARIABLES
  waiting,   \* requests queued at the semaphore, first come first
  holding,   \* requests that have been given a permit
  running,   \* those of them whose hash is being computed
  orphans    \* how many hashes are being computed for no request

hashVars == <<waiting, holding, running, orphans>>

HashTypeOK ==
  /\ waiting \in Seq(Request)
  /\ running \subseteq holding
  /\ holding \subseteq Request
  /\ orphans \in 0..MaxOrphans

HashInit == waiting = <<>> /\ holding = {} /\ running = {} /\ orphans = 0

Queued(r) == Contains(waiting, r)

-----------------------------------------------------------------------------
(* acquire().await: no permit is given past a queue. *)
Acquire(r) ==
  /\ IF Cardinality(holding) < Permits
     THEN holding' = holding \cup {r} /\ UNCHANGED waiting
     ELSE waiting' = Append(waiting, r) /\ UNCHANGED holding
  /\ UNCHANGED <<running, orphans>>

(* Mutant: a released permit is not handed on. *)
ReleaseOnly(r) == holding' = holding \ {r} /\ UNCHANGED waiting

(* A released permit goes to the head of the queue. *)
Release(r) ==
  IF waiting = <<>>
  THEN holding' = holding \ {r} /\ UNCHANGED waiting
  ELSE /\ holding' = (holding \ {r}) \cup {Head(waiting)}
       /\ waiting' = Tail(waiting)

(* Mutant: `let _ = ...acquire()' drops the permit where it is bound. *)
StartReleased(r) ==
  /\ r \in holding \ running
  /\ running' = running \cup {r}
  /\ Release(r)
  /\ UNCHANGED orphans

(* spawn_blocking *)
StartHash(r) ==
  /\ r \in holding \ running
  /\ running' = running \cup {r}
  /\ UNCHANGED <<waiting, holding, orphans>>

(* The task is done: hash or verify returns. *)
EndHash(r) ==
  /\ r \in running
  /\ running' = running \ {r}
  /\ Release(r)
  /\ UNCHANGED orphans

(* The request is dropped before it had a permit ... *)
LeaveQueue(r) ==
  /\ \E n \in DOMAIN waiting : waiting[n] = r /\ waiting' = RemoveAt(waiting, n)
  /\ UNCHANGED <<holding, running, orphans>>

(* Mutant: the permit is given back by a call after the await, not by a guard. *)
DropHashAlone(r) ==
  /\ r \in holding
  /\ running' = running \ {r}
  /\ IF r \in running THEN orphans < MaxOrphans /\ orphans' = orphans + 1
                      ELSE UNCHANGED orphans
  /\ UNCHANGED <<waiting, holding>>

(* ... or with it: the permit lives in the request, not in its task. *)
DropHash(r) ==
  /\ r \in holding
  /\ running' = running \ {r}
  /\ IF r \in running THEN orphans < MaxOrphans /\ orphans' = orphans + 1
                      ELSE UNCHANGED orphans
  /\ Release(r)

EndOrphan ==
  /\ orphans > 0
  /\ orphans' = orphans - 1
  /\ UNCHANGED <<waiting, holding, running>>

-----------------------------------------------------------------------------
(* No more hashes are computed for requests than there are permits, in     *)
(* whatever order requests arrive, finish and are dropped.  Hashes whose   *)
(* requests have been dropped come on top.                                 *)
HashThreadsBounded == Cardinality(running) <= Permits

(* The throughput the module head promises: nobody queues while a permit   *)
(* is free, and nobody queues twice or queues holding a permit.            *)
NoIdlePermit ==
  /\ waiting # <<>> => Cardinality(holding) = Permits
  /\ IsInjective(waiting)
  /\ ToSet(waiting) \cap holding = {}
=============================================================================
