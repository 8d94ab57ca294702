------------------------------ MODULE IngestJob ------------------------------
(***************************************************************************)
(* The time limits of one ingest job (StreamConsumer._handle and _publish, *)
(* Deadline, Watchdog): the main thread of a consumer, the timer threads   *)
(* of its watchdog, and the idle time Redis keeps for the entry.           *)
(*                                                                         *)
(* Time is discrete.  A thread that can run runs before time passes: only  *)
(* a call, a step of the job and a sleep take time.                        *)
(***************************************************************************)
EXTENDS Naturals

CONSTANTS
    JobTimeout, WatchdogGrace, MinIdle,     \* [rag.consumer]
    CallTimeout,        \* what one publish attempt may take (attempt_bound)
    RetryDelay,         \* the pause between two attempts
    PublishAttempts,
    Dispatch,           \* from the delivery in Redis to the start of the job
    MaxJobs             \* bound: jobs of the process

(* Config._check_timing, and what the settings' types say. *)
ASSUME TimingAssumption ==
    /\ JobTimeout \in Nat \ {0} /\ WatchdogGrace \in Nat \ {0} /\ MinIdle \in Nat
    /\ JobTimeout + WatchdogGrace < MinIdle
    /\ CallTimeout \in Nat /\ RetryDelay \in Nat /\ Dispatch \in Nat
    /\ PublishAttempts \in Nat \ {0}
    /\ MaxJobs \in Nat

VARIABLES
    stage,      \* of the main thread
    jobs,       \* how many jobs it has begun
    idle,       \* how long Redis has not seen the entry delivered or renewed
    elapsed,    \* time since `started`
    stretch,    \* time since the last deadline check
    busy,       \* time in the current call or pause; of the dispatch while the job runs
    tries,      \* publish attempts that failed
    generation, \* of the watchdog
    timer,      \* the generation of _timer, or 0 for None
    threads     \* the timer threads that have not ended

main == <<stage, jobs, idle, elapsed, stretch, busy, tries>>
watchdog == <<generation, timer, threads>>
vars == <<main, watchdog>>

-----------------------------------------------------------------------------
Limit == JobTimeout + WatchdogGrace

Stage == {"ready", "dispatch", "job", "returned", "publish", "pause", "held", "exited"}
Thread == [generation : 1 .. 2 * MaxJobs, at : {"waiting", "firing", "acting"}]
Timer(g, at) == [generation |-> g, at |-> at]

(* Clocks run no further than anything compares them. *)
Horizon == MinIdle + CallTimeout
Later(clock) == IF clock < Horizon THEN clock + 1 ELSE clock

(* Types; _timer is set exactly while the job runs, and then no thread of  *)
(* an earlier job still waits.                                             *)
TypeOK ==
    /\ stage \in Stage
    /\ jobs \in 0 .. MaxJobs
    /\ {idle, elapsed, stretch, busy} \subseteq 0 .. Horizon
    /\ tries \in 0 .. PublishAttempts
    /\ generation \in 0 .. 2 * MaxJobs
    /\ timer \in {0, generation}
    /\ threads \subseteq Thread
    /\ stage # "exited" => (timer # 0 <=> stage \in {"job", "returned"})
    /\ \A t \in threads : t.at = "waiting" => t.generation = timer

Init ==
    /\ stage = "ready" /\ jobs = 0
    /\ idle = 0 /\ elapsed = 0 /\ stretch = 0 /\ busy = 0 /\ tries = 0
    /\ generation = 0 /\ timer = 0 /\ threads = {}

-----------------------------------------------------------------------------
(* The main thread.                                                        *)

(* Redis executes XREADGROUP or XAUTOCLAIM.  The reply, the parsing and,   *)
(* for a claimed entry, XPENDING come before the job.                      *)
Deliver ==
    /\ stage = "ready"
    /\ jobs < MaxJobs
    /\ stage' = "dispatch"
    /\ jobs' = jobs + 1
    /\ idle' = 0 /\ busy' = 0 /\ tries' = 0
    /\ UNCHANGED <<elapsed, stretch, watchdog>>

(* Variant: the timer gets the generation before this one. *)
Armed_Stale == generation

(* The generation that arm moves on to, and the new timer's. *)
Armed == generation + 1

(* The timer thread of an earlier arm, cancelled unless it is past that.   *)
Cancelled == threads \ {Timer(timer, "waiting")}

(* started, Deadline.after, Watchdog.arm.                                  *)
Start ==
    /\ stage = "dispatch"
    /\ stage' = "job"
    /\ elapsed' = 0 /\ stretch' = 0
    /\ generation' = generation + 1
    /\ timer' = generation'
    /\ threads' = Cancelled \cup {Timer(Armed, "waiting")}
    /\ UNCHANGED <<jobs, idle, busy, tries>>

DeadlinePassed == elapsed >= JobTimeout

(* Between two steps of the job: it ends with JOB_TIMEOUT past the         *)
(* deadline.                                                               *)
CheckDeadline ==
    /\ stage = "job"
    /\ stage' = IF DeadlinePassed THEN "returned" ELSE "job"
    /\ stretch' = IF DeadlinePassed THEN stretch ELSE 0
    /\ UNCHANGED <<jobs, idle, elapsed, busy, tries, watchdog>>

(* A job that ends for any other reason, its last step included.  One that *)
(* is stuck in a step does not.                                            *)
Return ==
    /\ stage = "job"
    /\ stage' = "returned"
    /\ UNCHANGED <<jobs, idle, elapsed, stretch, busy, tries, watchdog>>

(* Watchdog.disarm, in the finally block; the first publish attempt.       *)
Disarm ==
    /\ stage = "returned"
    /\ stage' = "publish"
    /\ busy' = 0
    /\ generation' = generation + 1
    /\ timer' = 0
    /\ threads' = Cancelled
    /\ UNCHANGED <<jobs, idle, elapsed, stretch, tries>>

(* The status is added, the entry acknowledged. *)
Publish ==
    /\ stage \in {"publish", "held"}
    /\ stage' = "ready"
    /\ UNCHANGED <<jobs, idle, elapsed, stretch, busy, tries, watchdog>>

PublishFails ==
    /\ stage = "publish"
    /\ tries' = tries + 1
    /\ stage' = IF tries' < PublishAttempts THEN "pause" ELSE "held"
    /\ busy' = 0
    /\ UNCHANGED <<jobs, idle, elapsed, stretch, watchdog>>

(* Variant: another attempt begins while min_idle is not over. *)
AttemptFits_Begins == elapsed < MinIdle

(* `_clock() + call_timeout < started + min_idle`. *)
AttemptFits == elapsed + CallTimeout < MinIdle

Retry ==
    /\ stage = "pause"
    /\ busy >= RetryDelay
    /\ stage' = IF AttemptFits THEN "publish" ELSE "held"
    /\ busy' = 0
    /\ UNCHANGED <<jobs, idle, elapsed, stretch, tries, watchdog>>

-----------------------------------------------------------------------------
(* The timer threads.  _fire holds the lock for the comparison only.       *)

Fire(t) ==
    /\ t \in threads
    /\ t.at = "waiting"
    /\ elapsed >= Limit
    /\ threads' = (threads \ {t}) \cup {Timer(t.generation, "firing")}
    /\ UNCHANGED <<main, generation, timer>>

(* Variant: a timer acts although it was disarmed. *)
StillCurrent_Always(t) == TRUE

StillCurrent(t) == t.generation = generation

Compare(t) ==
    /\ t \in threads
    /\ t.at = "firing"
    /\ threads' = (threads \ {t}) \cup
                    (IF StillCurrent(t) THEN {Timer(t.generation, "acting")} ELSE {})
    /\ UNCHANGED <<main, generation, timer>>

(* exit_fn: the end of the process, wherever its main thread is. *)
Exit(t) ==
    /\ t \in threads
    /\ t.at = "acting"
    /\ stage' = "exited"
    /\ threads' = {}
    /\ UNCHANGED <<jobs, idle, elapsed, stretch, busy, tries, generation, timer>>

TimerDue == \E t \in threads : t.at # "waiting" \/ elapsed >= Limit

MayWait ==
    \/ stage = "job"
    \/ stage = "dispatch" /\ busy < Dispatch
    \/ stage = "publish" /\ busy < CallTimeout
    \/ stage = "pause" /\ busy < RetryDelay

Tick ==
    /\ ~ TimerDue
    /\ MayWait
    /\ idle' = Later(idle) /\ elapsed' = Later(elapsed)
    /\ stretch' = Later(stretch)
    /\ busy' = IF stage = "job" THEN busy ELSE Later(busy)
    /\ UNCHANGED <<stage, jobs, tries, watchdog>>

-----------------------------------------------------------------------------
MainStep ==
    \/ Deliver \/ Start \/ CheckDeadline \/ Return \/ Disarm
    \/ Publish \/ PublishFails \/ Retry

Next ==
    \/ stage # "exited" /\ MainStep
    \/ \E t \in threads : Fire(t) \/ Compare(t) \/ Exit(t)
    \/ Tick

Spec == Init /\ [][Next]_vars

-----------------------------------------------------------------------------
(* Safety.                                                                 *)

(* L15: "job_timeout + watchdog_grace < min_idle guarantees" that a live   *)
(* job is never reclaimed: the entry does not reach min_idle while its job *)
(* could still be running, whatever the configured times, unless what came *)
(* between its delivery and the start of this job (`busy`) used up all     *)
(* that min_idle has beyond job_timeout + watchdog_grace.                  *)
LiveJobNotReclaimable ==
    stage \in {"job", "returned"} /\ busy + Limit < MinIdle => idle < MinIdle

(* A further publish attempt is over before the entry could have become    *)
(* reclaimable, counted from the start of the job (_publish).              *)
RetriesEndInTime == (stage = "publish" /\ tries > 0) => elapsed < MinIdle

(* The watchdog decides to end the process only while the job it was armed *)
(* for has not been disarmed, and only when the job went longer than       *)
(* watchdog_grace without a deadline check: slow jobs that keep checking   *)
(* end with JOB_TIMEOUT instead.                                           *)
ExitsAreEarned ==
    [][\A t \in Thread :
         (t.at = "acting" /\ t \in threads' \ threads) =>
           stage \in {"job", "returned"} /\ stretch > WatchdogGrace]_vars

=============================================================================
