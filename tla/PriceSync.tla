----------------------------- MODULE PriceSync -----------------------------
(***************************************************************************)
(* Synchronisation of dynamic prices: PriceSyncService with its lock and    *)
(* repositories, called by the jobs of the worker, by the API and from the  *)
(* command line at the same time.                                           *)
(*                                                                          *)
(* A synchronisation is a thread; a step is one call that leaves it: a      *)
(* query or commit of PostgreSQL, or a request to the provider.  A day of   *)
(* the provider fits one page of its answer, so a request is one step.      *)
(***************************************************************************)
EXTENDS Integers, Sequences, FiniteSetsExt

CONSTANTS
    Syncs,         \* the threads that synchronise
    Jobs,          \* those of them that only fill gaps: the worker's jobs
    Processes,     \* the threads of each process: a partition of Syncs
    Days,          \* business dates
    FirstDay,      \* the date on which a behaviour begins
    CatchupDays,   \* CATCHUP_DAYS
    ChunkDays,     \* BACKFILL_CHUNK_DAYS, and the longest range of the API
    Quarters,      \* the intervals of a day
    Publications,  \* what the provider publishes of a day, in order: the
                   \* quarters it has prices for
    MaxAttempts,   \* max_attempts of RetryingPriceProvider
    NoOne,
    MaxSyncs, MaxFaults   \* bounds of a behaviour: crashes are faults too

ASSUME ProcessesAssumption == UNION Processes = Syncs /\ NoOne \notin Syncs /\ Jobs \subseteq Syncs
ASSUME DaysAssumption ==
    /\ Days \subseteq Nat /\ FirstDay \in Days
    /\ \A a, b \in Days : a .. b \subseteq Days
ASSUME LimitsAssumption ==
    /\ {CatchupDays, MaxSyncs, MaxFaults} \subseteq Nat
    /\ {ChunkDays, MaxAttempts} \subseteq Nat \ {0}
\* A publication corrects and completes the one before: it takes no quarter back.
ASSUME PublicationsAssumption ==
    /\ Publications \in Seq((SUBSET Quarters) \ {{}})
    /\ \A i, j \in DOMAIN Publications : i <= j => Publications[i] \subseteq Publications[j]

VARIABLES
    today,      \* the date in Warsaw
    published,  \* of each day: the publication the provider answers now
    stored,     \* rce_price_observations: of a quarter of a day, the
                \* publication its price is from, 0 for none
    runs,       \* price_sync_runs: the status of each row, in order of id
    lock,       \* who holds the advisory lock
    job,        \* what each synchronisation is at
    count       \* synchronisations and faults so far

vars == <<today, published, stored, runs, lock, job, count>>

----------------------------------------------------------------------------
PublishedRange == 0 .. Len(Publications)
QuartersOf(n) == IF n = 0 THEN {} ELSE Publications[n]

\* days: still to fetch; rest: later chunks of a backfill; window and seen:
\* the days asked about, and what was published of them, at the beginning.
NoJob ==
    [pc |-> "idle", days |-> {}, rest |-> {}, requested |-> {}, window |-> {},
     seen |-> [d \in Days |-> 0], attempt |-> 1, answer |-> 0, saved |-> {},
     errors |-> FALSE, row |-> 0]

At(s, pc) == job[s].pc = pc
Goes(s, updates) == job' = [job EXCEPT ![s] = updates]
WithLock == {"start", "fetch", "write", "finish", "failed", "unlock"}

Fault ==
    /\ count.faults < MaxFaults
    /\ count' = [count EXCEPT !.faults = @ + 1]

Init ==
    /\ today = FirstDay
    /\ published = [d \in Days |-> 0]
    /\ stored = [d \in Days |-> [q \in Quarters |-> 0]]
    /\ runs = <<>>
    /\ lock = NoOne
    /\ job = [s \in Syncs |-> NoJob]
    /\ count = [syncs |-> 0, faults |-> 0]

----------------------------------------------------------------------------
(* The world: midnight, and the provider, which publishes a day from the   *)
(* day before on and may publish it again.                                 *)

Midnight ==
    /\ today + 1 \in Days
    /\ today' = today + 1
    /\ UNCHANGED <<published, stored, runs, lock, job, count>>

Publish(d) ==
    /\ d <= today + 1 /\ published[d] < Len(Publications)
    /\ published' = [published EXCEPT ![d] = @ + 1]
    /\ UNCHANGED <<today, stored, runs, lock, job, count>>

----------------------------------------------------------------------------
(* The beginning: which days to fetch, decided without the lock.           *)

\* A day of which there are some prices taken for a complete one.
NoRows(d) == \A q \in Quarters : stored[d][q] = 0

\* count_by_business_date below expected_intervals.
Incomplete(d) == \E q \in Quarters : stored[d][q] = 0

Begin(s, days, rest, window) ==
    /\ At(s, "idle") /\ count.syncs < MaxSyncs
    /\ count' = [count EXCEPT !.syncs = @ + 1]
    /\ Goes(s, [NoJob EXCEPT !.pc = "lock", !.days = days, !.requested = days, !.rest = rest,
                             !.window = window, !.seen = published])
    /\ UNCHANGED <<today, published, stored, runs, lock>>

\* sync_missing: the job of the worker, "once", or the API without a range.
SyncMissing(s) ==
    LET window == Days \intersect (today - CatchupDays .. today + 1)
    IN  Begin(s, {d \in window : Incomplete(d)}, {}, window)

\* split_into_chunks: the first of them; one for the API.
Chunk(days) == {d \in days : d < Min(days) + ChunkDays}

\* sync_range by the API, and run_backfill by the command line.
SyncRange(s, from, to) ==
    /\ s \notin Jobs
    /\ LET days == from .. to
       IN  Begin(s, Chunk(days), days \ Chunk(days), Chunk(days))

----------------------------------------------------------------------------
(* _run and _run_locked                                                    *)

\* pg_try_advisory_lock whose answer is not looked at.
AcquireAnyway(s) ==
    /\ At(s, "lock")
    /\ lock' = s /\ Goes(s, [job[s] EXCEPT !.pc = "start"])
    /\ UNCHANGED <<today, published, stored, runs, count>>

\* pg_try_advisory_lock; whoever does not get it gives up, a backfill with
\* all its later chunks.
Acquire(s) ==
    /\ At(s, "lock")
    /\ \/ /\ lock = NoOne
          /\ lock' = s /\ Goes(s, [job[s] EXCEPT !.pc = "start"])
       \/ /\ lock # NoOne
          /\ Goes(s, NoJob) /\ UNCHANGED lock
    /\ UNCHANGED <<today, published, stored, runs, count>>

\* run_repository.start commits a row of its own.
StartRun(s) ==
    /\ At(s, "start")
    /\ runs' = Append(runs, "running")
    /\ Goes(s, [job[s] EXCEPT !.pc = IF job[s].days = {} THEN "finish" ELSE "fetch",
                              !.row = Len(runs) + 1])
    /\ UNCHANGED <<today, published, stored, lock, count>>

\* The next day, or the end of the loop.
NextDay(j) ==
    LET left == j.days \ {Min(j.days)}
    IN  [j EXCEPT !.days = left, !.attempt = 1, !.answer = 0,
                  !.pc = IF left = {} THEN "finish" ELSE "fetch"]

\* fetch_day answers, or has no data for the day, which is left out.
FetchDay(s) ==
    LET answer == published[Min(job[s].days)]
    IN  /\ At(s, "fetch")
        /\ Goes(s, IF answer = 0 THEN NextDay(job[s])
                   ELSE [job[s] EXCEPT !.pc = "write", !.answer = answer])
        /\ UNCHANGED <<today, published, stored, runs, lock, count>>

\* A provider's error: one that may pass is tried again, up to max_attempts;
\* otherwise the day is left out.
FetchFails(s) ==
    /\ At(s, "fetch") /\ Fault
    /\ \/ job[s].attempt < MaxAttempts /\ Goes(s, [job[s] EXCEPT !.attempt = @ + 1])
       \/ Goes(s, [NextDay(job[s]) EXCEPT !.errors = TRUE])
    /\ UNCHANGED <<today, published, stored, runs, lock>>

\* upsert_many: prices of quarters the answer does not have stay.
WriteDay(s) ==
    LET day == Min(job[s].days)
        Price(q) == IF q \in QuartersOf(job[s].answer) THEN job[s].answer ELSE stored[day][q]
    IN  /\ At(s, "write")
        /\ stored' = [stored EXCEPT ![day] = [q \in Quarters |-> Price(q)]]
        /\ Goes(s, [NextDay(job[s]) EXCEPT !.saved = @ \union {day}])
        /\ UNCHANGED <<today, published, runs, lock, count>>

\* It raises: the days that remain are not fetched.
WriteFails(s) ==
    /\ At(s, "write") /\ Fault
    /\ Goes(s, [job[s] EXCEPT !.pc = "failed"])
    /\ UNCHANGED <<today, published, stored, runs, lock>>

\* A status that does not look at the errors when a day is missing.
MissingFirst(j) ==
    IF j.saved = j.requested THEN "success"
    ELSE IF j.saved # {} THEN "partial" ELSE "no_data"

\* _resolve_status; days_synced counts the days that are saved.
ResolveStatus(j) ==
    CASE j.saved = j.requested -> "success"
      [] j.saved # {} /\ j.saved # j.requested -> "partial"
      [] j.saved = {} /\ j.requested # {} /\ j.errors -> "failed"
      [] OTHER -> "no_data"

FinishRun(s) ==
    /\ job[s].pc \in {"finish", "failed"}
    /\ runs' = [runs EXCEPT ![job[s].row] =
                   IF At(s, "failed") THEN "failed" ELSE ResolveStatus(job[s])]
    /\ Goes(s, [job[s] EXCEPT !.pc = "unlock", !.rest = IF At(s, "failed") THEN {} ELSE @])
    /\ UNCHANGED <<today, published, stored, lock, count>>

\* The commit of start or of finish raises, and nothing writes the status.
CommitFails(s) ==
    /\ job[s].pc \in {"start", "finish", "failed"} /\ Fault
    /\ Goes(s, [job[s] EXCEPT !.pc = "unlock", !.rest = {}])
    /\ UNCHANGED <<today, published, stored, runs, lock>>

\* The lock of a session that goes back to the pool as it is.
KeepLock(s) == UNCHANGED lock

ReleaseLock(s) == lock' = NoOne

\* pg_advisory_unlock, whatever happened; a backfill goes on with its next
\* chunk.
Unlock(s) ==
    /\ At(s, "unlock")
    /\ ReleaseLock(s)
    /\ Goes(s, IF job[s].rest = {} THEN NoJob
               ELSE LET next == Chunk(job[s].rest)
                    IN  [NoJob EXCEPT !.pc = "lock", !.days = next, !.requested = next, !.window = next,
                                      !.rest = job[s].rest \ next, !.seen = published])
    /\ UNCHANGED <<today, published, stored, runs, count>>

\* A process ends, and the server ends its sessions with the lock they have.
Crash(process) ==
    /\ Fault
    /\ job' = [s \in Syncs |-> IF s \in process THEN NoJob ELSE job[s]]
    /\ lock' = IF lock \in process THEN NoOne ELSE lock
    /\ UNCHANGED <<today, published, stored, runs>>

----------------------------------------------------------------------------
\* What a synchronisation does next when nothing fails.
Step(s) ==
    \/ Acquire(s) \/ StartRun(s) \/ FetchDay(s) \/ WriteDay(s) \/ FinishRun(s) \/ Unlock(s)

Next ==
    \/ Midnight
    \/ \E d \in Days : Publish(d)
    \/ \E s \in Syncs : \/ SyncMissing(s)
                        \/ \E from, to \in Days : from <= to /\ SyncRange(s, from, to)
                        \/ Step(s) \/ FetchFails(s) \/ WriteFails(s) \/ CommitFails(s)
    \/ \E process \in Processes : Crash(process)

\* A thread goes on: the server answers, and a request to the provider ends
\* after HTTP_TIMEOUT_SECONDS at the latest.
Spec == Init /\ [][Next]_vars /\ \A s \in Syncs : WF_vars(Step(s))

----------------------------------------------------------------------------
(* Properties.                                                             *)

\* The tables keep their types, and the lock is held by the one synchronisation
\* that is between Acquire and Unlock.
TypeOK ==
    /\ today \in Days
    /\ published \in [Days -> PublishedRange]
    /\ stored \in [Days -> [Quarters -> PublishedRange]]
    /\ runs \in Seq({"running", "success", "partial", "no_data", "failed"})
    /\ \A s \in Syncs : job[s].pc \in WithLock <=> lock = s

\* "API i worker nie synchronizuja jednoczesnie": an answer that was fetched
\* before a price was published again never overwrites the newer price, in
\* whatever order the threads fetch and write.
PricesNeverGoBack ==
    [][\A d \in Days, q \in Quarters : stored'[d][q] >= stored[d][q]]_stored

\* Of a run that has just written its status.
Finished(s, status) == At(s, "unlock") /\ job[s].row # 0 /\ runs[job[s].row] = status

Holds(d, n) == \A q \in QuartersOf(n) : stored[d][q] >= n

\* The status is what the table of docs/dynamic-prices.md says: success, all
\* requested days have the prices published when the run began; partial, some
\* but not all were written; no_data, none of them was published yet.
StatusIsTrue ==
    \A s \in Syncs :
        LET j == job[s]
        IN  /\ Finished(s, "success") => \A d \in j.requested : Holds(d, j.seen[d])
            /\ Finished(s, "partial") => j.saved # {} /\ j.requested \ j.saved # {}
            /\ Finished(s, "no_data") => /\ j.requested # {}
                                         /\ \A d \in j.requested : j.seen[d] = 0

\* A successful run leaves no gap in its days, although it chose them before
\* it had the lock, days were published and midnight passed meanwhile: every
\* quarter that was published when it began has a price.
GapsAreFilled ==
    \A s \in Syncs : Finished(s, "success") =>
        \A d \in job[s].window, q \in Quarters :
            q \in QuartersOf(job[s].seen[d]) => stored[d][q] > 0

\* The lock always comes free: after errors of the provider, of a write and of
\* the commits, and after a crash of the process that has it.
LockIsFreed == (lock # NoOne) ~> (lock = NoOne)

=============================================================================
