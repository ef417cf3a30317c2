------------------------------ MODULE Recurring ------------------------------
(***************************************************************************)
(* Recurring invoices: the templates and their handlers                    *)
(* (src/modules/recurring_invoice/mod.rs), the scanner and the job that    *)
(* turns a due template into an invoice (src/jobs/recurring.rs).           *)
(*                                                                         *)
(* The job is a sequence of SQL statements without a transaction; it may   *)
(* fail between any two and is then run again from the start, at most      *)
(* MaxAttempts times.  Jobs of one template can run at the same time, as   *)
(* the scanner queues one per tick for as long as the template is due.     *)
(* update and resume hold the row lock from their read to their commit, so *)
(* that each is one step for every other writer and reader.                *)
(*                                                                         *)
(* Of the invoices only the generated numbers INV-{year}-{n} matter here;  *)
(* a user can take one for an invoice of their own.  A job forgets what it *)
(* will not read again, which keeps the number of states down.             *)
(***************************************************************************)
EXTENDS Calendar, FiniteSets

CONSTANTS
  Template,
  Job,           \* jobs that can be queued or running at once
  Offered,       \* the frequencies, start and end dates that users choose
  Start,
  End,
  Instant,       \* the days on which anything happens, in any number
  LoopBound,     \* no search for the next run has to pass over more dates
  MaxAttempts,   \* 1 + the retries of the worker
  MaxNumber,     \* invoice numbers
  None

Number == 1..MaxNumber

ASSUME RecurringAssumption ==
  /\ Offered \subseteq Frequency /\ Start # {} /\ Template # {}
  /\ \A x \in Start \cup End \cup Instant : IsDate(x)
  /\ LoopBound \in Nat /\ MaxAttempts \in Nat \ {0} /\ MaxNumber \in Nat
  /\ {"free", "user"} \cap Template = {}
  /\ None \notin Date

VARIABLES
  now,
  template,   \* the rows
  job,        \* queued and running jobs, with the template as they read it
  number      \* who has an invoice with that number

vars == <<now, template, job, number>>

TemplateStatus == {"absent", "active", "paused", "cancelled"}
JobPC == {"free", "queued", "loaded", "numbered", "made", "advanced"}
NoJob == [pc |-> "free", tpl |-> CHOOSE t \in Template : TRUE, attempt |-> 1,
          frequency |-> "weekly", end |-> None, n |-> 0]

RecurringTypeOK ==
  /\ now \in Instant
  /\ template \in [Template -> [status : TemplateStatus, frequency : Frequency,
                                start : Start, end : End \cup {None},
                                next : Date \cup {None}]]
  /\ \A t \in Template : template[t].next = None \/ IsDate(template[t].next)
  /\ job \in [Job -> [pc : JobPC, tpl : Template, attempt : 1..MaxAttempts,
                      frequency : Frequency, end : End \cup {None},
                      n : 0..MaxNumber + 1]]
  /\ number \in [Number -> {"free", "user"} \cup Template]

Init ==
  /\ now \in {x \in Instant : \A y \in Instant : ~Before(y, x)}
  /\ template = [t \in Template |-> [status |-> "absent", frequency |-> "weekly",
                                    start |-> CHOOSE x \in Start : TRUE,
                                    end |-> None, next |-> None]]
  /\ job = [j \in Job |-> NoJob]
  /\ number = [n \in Number |-> "free"]

-----------------------------------------------------------------------------
(* compute_next_run_at: a round of the loop, next after n rounds, and      *)
(* whether the loop comes to its end.                                      *)
NextRun(from, frequency) ==
  LET round == [x \in Date |-> IF Before(now, x) THEN x ELSE Advance(x, frequency)]
      next[n \in 0..LoopBound] == IF n = 0 THEN from ELSE round[next[n - 1]]
  IN  next[LoopBound]

Ends(from, frequency) == Before(now, NextRun(from, frequency))

(* POST /recurring-invoices *)
CreateTemplate(t) ==
  /\ template[t].status = "absent"
  /\ \E f \in Offered, x \in Start, e \in End \cup {None} :
       /\ Ends(x, f)
       /\ template' = [template EXCEPT
                         ![t] = [status |-> "active", frequency |-> f,
                                 start |-> x, end |-> e, next |-> NextRun(x, f)]]
  /\ UNCHANGED <<now, job, number>>

(* PATCH /recurring-invoices/{id}: the schedule is recomputed when the     *)
(* frequency changes, and written back as it was read when it does not.    *)
UpdateTemplate(t) ==
  /\ template[t].status \in {"active", "paused"}
  /\ \E f \in Offered \cup {template[t].frequency},
        e \in End \cup {template[t].end} :
       /\ f # template[t].frequency => Ends(template[t].start, f)
       /\ template' = [template EXCEPT
                         ![t].frequency = f, ![t].end = e,
                         ![t].next = IF f # template[t].frequency
                                     THEN NextRun(template[t].start, f) ELSE @]
  /\ UNCHANGED <<now, job, number>>

Pause(t) ==
  /\ template[t].status = "active"
  /\ template' = [template EXCEPT ![t].status = "paused"]
  /\ UNCHANGED <<now, job, number>>

Resume(t) ==
  /\ template[t].status = "paused"
  /\ Ends(template[t].start, template[t].frequency)
  /\ template' = [template EXCEPT
                    ![t].status = "active",
                    ![t].next = NextRun(template[t].start, template[t].frequency)]
  /\ UNCHANGED <<now, job, number>>

CancelTemplate(t) ==
  /\ template[t].status \in {"active", "paused"}
  /\ template' = [template EXCEPT ![t].status = "cancelled", ![t].next = None]
  /\ UNCHANGED <<now, job, number>>

(* POST /invoices with a number of the generated form (external user).     *)
TakeNumber(n) ==
  /\ number[n] = "free"
  /\ number' = [number EXCEPT ![n] = "user"]
  /\ UNCHANGED <<now, template, job>>

-----------------------------------------------------------------------------
Due(t) ==
  /\ template[t].status = "active"
  /\ template[t].next # None
  /\ ~Before(now, template[t].next)

(* Mutant: a run that was missed is not looked for. *)
ScanOnTheDay(t, j) ==
  /\ Due(t) /\ template[t].next = now
  /\ job[j].pc = "free"
  /\ job' = [job EXCEPT ![j] = [NoJob EXCEPT !.pc = "queued", !.tpl = t]]
  /\ UNCHANGED <<now, template, number>>

(* The scanner, every 15 minutes: one job per due template.                *)
Scan(t, j) ==
  /\ Due(t)
  /\ job[j].pc = "free"
  /\ job' = [job EXCEPT ![j] = [NoJob EXCEPT !.pc = "queued", !.tpl = t]]
  /\ UNCHANGED <<now, template, number>>

(* Mutant: the template is read whatever its status. *)
LoadAny(j) ==
  LET x == template[job[j].tpl] IN
  /\ job[j].pc = "queued"
  /\ job' = [job EXCEPT ![j].pc = "loaded", ![j].frequency = x.frequency,
                        ![j].end = x.end]
  /\ UNCHANGED <<now, template, number>>

(* The job reads its template, unless it is no longer active ...           *)
Load(j) ==
  LET x == template[job[j].tpl] IN
  /\ job[j].pc = "queued"
  /\ job' = [job EXCEPT
               ![j] = IF x.status = "active"
                      THEN [@ EXCEPT !.pc = "loaded", !.frequency = x.frequency,
                                     !.end = x.end]
                      ELSE NoJob]
  /\ UNCHANGED <<now, template, number>>

Expired(j) == job[j].end # None /\ Before(job[j].end, now)

(* ... cancels it when its end date has passed ...                         *)
Expire(j) ==
  /\ job[j].pc = "loaded"
  /\ Expired(j)
  /\ template' = [template EXCEPT ![job[j].tpl].status = "cancelled",
                                  ![job[j].tpl].next = None]
  /\ job' = [job EXCEPT ![j] = NoJob]
  /\ UNCHANGED <<now, number>>

NextNumber == Cardinality({n \in Number : number[n] # "free"}) + 1

(* ... counts the numbers in use (generate_invoice_number) ...             *)
CountNumbers(j) ==
  /\ job[j].pc = "loaded"
  /\ ~Expired(j)
  /\ job' = [job EXCEPT ![j].pc = "numbered", ![j].end = None,
                        ![j].n = NextNumber]
  /\ UNCHANGED <<now, template, number>>

(* ... inserts the invoice, if nobody has taken the number ...             *)
InsertInvoice(j) ==
  /\ job[j].pc = "numbered"
  /\ job[j].n \in Number
  /\ number[job[j].n] = "free"
  /\ number' = [number EXCEPT ![job[j].n] = job[j].tpl]
  /\ job' = [job EXCEPT ![j].pc = "made", ![j].n = 0]
  /\ UNCHANGED <<now, template>>

(* Mutant: the search begins at the day of the run. *)
AdvanceFromToday(j) ==
  LET t == job[j].tpl IN
  /\ job[j].pc = "made"
  /\ Ends(now, job[j].frequency)
  /\ template' = [template EXCEPT ![t].next = NextRun(now, job[j].frequency)]
  /\ job' = [job EXCEPT ![j] = [NoJob EXCEPT !.pc = "advanced", !.tpl = t]]
  /\ UNCHANGED <<now, number>>

(* ... advances the schedule, by id alone, from what it has read ...       *)
AdvanceSchedule(j) ==
  LET t == job[j].tpl IN
  /\ job[j].pc = "made"
  /\ Ends(template[t].start, job[j].frequency)
  /\ template' = [template EXCEPT
                    ![t].next = NextRun(template[t].start, job[j].frequency)]
  /\ job' = [job EXCEPT ![j] = [NoJob EXCEPT !.pc = "advanced", !.tpl = t]]
  /\ UNCHANGED <<now, number>>

(* ... and dispatches invoice.created.                                     *)
FinishJob(j) ==
  /\ job[j].pc = "advanced"
  /\ job' = [job EXCEPT ![j] = NoJob]
  /\ UNCHANGED <<now, template, number>>

(* Mutant: one attempt too many. *)
FailJobOnceMore(j) ==
  /\ job[j].pc \in {"queued", "loaded", "numbered", "made"}
  /\ job' = [job EXCEPT
               ![j] = IF @.attempt <= MaxAttempts
                      THEN [NoJob EXCEPT !.pc = "queued", !.tpl = job[j].tpl,
                                         !.attempt = job[j].attempt + 1]
                      ELSE NoJob]
  /\ UNCHANGED <<now, template, number>>

(* A statement fails, or the number was taken: another attempt, if any is  *)
(* left.  The search for the next run does not fail; it may never end.     *)
FailJob(j) ==
  /\ job[j].pc \in {"queued", "loaded", "numbered", "made"}
  /\ job[j].pc = "made" => Ends(template[job[j].tpl].start, job[j].frequency)
  /\ job' = [job EXCEPT
               ![j] = IF @.attempt < MaxAttempts
                      THEN [NoJob EXCEPT !.pc = "queued", !.tpl = job[j].tpl,
                                         !.attempt = job[j].attempt + 1]
                      ELSE NoJob]
  /\ UNCHANGED <<now, template, number>>

(* The process stops, and the job with it. *)
LoseJob(j) ==
  /\ job[j].pc # "free"
  /\ job' = [job EXCEPT ![j] = NoJob]
  /\ UNCHANGED <<now, template, number>>

TimePasses ==
  /\ \E x \in Instant : Before(now, x) /\ now' = x
  /\ UNCHANGED <<template, job, number>>

JobStep(j) ==
  \/ Load(j) \/ Expire(j) \/ CountNumbers(j) \/ InsertInvoice(j)
  \/ AdvanceSchedule(j) \/ FinishJob(j) \/ FailJob(j) \/ LoseJob(j)

Next ==
  \/ TimePasses
  \/ \E t \in Template : \/ CreateTemplate(t) \/ UpdateTemplate(t) \/ Pause(t)
                         \/ Resume(t) \/ CancelTemplate(t)
                         \/ \E j \in Job : Scan(t, j)
  \/ \E n \in Number : TakeNumber(n)
  \/ \E j \in Job : JobStep(j)

Spec == Init /\ [][Next]_vars

(* The cron worker and the queue worker keep running.                      *)
Fairness ==
  /\ \A t \in Template : WF_vars(\E j \in Job : Scan(t, j))
  /\ \A j \in Job : WF_vars(JobStep(j))

FairSpec == Spec /\ Fairness

-----------------------------------------------------------------------------
(* A cancelled template goes quiet for good once the jobs that had read it *)
(* before are over: no handler and no late job bills for it again.         *)
Quiet(t) ==
  /\ template[t].status = "cancelled"
  /\ \A j \in Job : job[j].tpl = t => job[j].pc \in {"free", "queued"}

CancelledGoesQuiet ==
  [][\A t \in Template : Quiet(t) =>
       Quiet(t)' /\ \A n \in Number : number'[n] = t => number[n] = t]_vars

(* Billing never stops silently and never drifts: a template that is not   *)
(* cancelled keeps a next run, else the scanner would never find it again, *)
(* and "if scanner was late, we still land on the canonical cadence" of    *)
(* its start date, by one of the frequencies: a job may still write the    *)
(* one before an update.                                                   *)
ScheduleIsKept ==
  \A t \in Template :
    /\ template[t].status \in {"active", "paused"} => template[t].next # None
    /\ template[t].next # None =>
         \E f \in Frequency : OnCadence(template[t].next, template[t].start, f)

(* A due template is dealt with - billed and advanced, paused or cancelled *)
(* - as long as jobs do not keep failing and the next generated number is  *)
(* not one a user has taken.                                               *)
NumberFree == NextNumber \in Number /\ number[NextNumber] = "free"

DueIsServed ==
  \/ \A t \in Template : Due(t) ~> (~Due(t) \/ ~NumberFree)
  \/ []<><<\E j \in Job : FailJob(j) \/ LoseJob(j)>>_vars

(* jobs/recurring.rs, scan: "even if we enqueue the same job twice, the    *)
(* create handler advances next_run_at atomically and the second attempt   *)
(* no-ops" - one that follows the advance makes no other invoice.          *)
SecondAttemptNoOps ==
  [][\A j, k \in Job :
       (/\ job[k].pc = "advanced" /\ job[j].tpl = job[k].tpl
        /\ ~Due(job[j].tpl))
         => ~(job[j].pc = "numbered" /\ job'[j].pc = "made")]_vars

(* compute_next_run_at "advances `from` repeatedly by `frequency` until    *)
(* the result is strictly in the future", and add_months clamps at the end *)
(* of a month ("March 31 + 1 month -> April 30"): it returns, for every    *)
(* template there is.                                                      *)
SearchEnds ==
  \A t \in Template :
    template[t].status # "absent" => Ends(template[t].start, template[t].frequency)
=============================================================================
