-------------------------- MODULE PriceSyncProofs --------------------------
(***************************************************************************)
(* Theorems about PriceSync, for any threads, days, publications and       *)
(* bounds of a behaviour.                                                  *)
(***************************************************************************)
EXTENDS PriceSync, SequenceTheorems, WellFoundedInduction, TLAPS

Job ==
    [pc : {"idle", "lock"} \union WithLock,
     days : SUBSET Days, rest : SUBSET Days, requested : SUBSET Days, window : SUBSET Days,
     seen : [Days -> PublishedRange], attempt : Int, answer : PublishedRange,
     saved : SUBSET Days, errors : BOOLEAN, row : Nat]

Statuses == {"running", "success", "partial", "no_data", "failed"}

Typed == TypeOK /\ job \in [Syncs -> Job] /\ lock \in Syncs \union {NoOne}

\* Prices come from what was published.
StoredIsPublished == \A d \in Days, q \in Quarters : stored[d][q] <= published[d]

\* What a synchronisation saw is not newer than what is published.
SeenIsPublished(s) == \A d \in Days : job[s].seen[d] <= published[d]

\* The answer about to be written is at least as new as every price of its
\* day: nobody else writes while the lock is held.
AnswerIsNewest(s) ==
    At(s, "write") =>
        LET day == Min(job[s].days)
        IN  /\ 0 < job[s].answer /\ job[s].answer <= published[day]
            /\ job[s].seen[day] <= job[s].answer
            /\ \A q \in Quarters : stored[day][q] <= job[s].answer

\* Every requested day is still to fetch, or saved with what was published of
\* it, or left out: because it was not published, unless there was an error.
DaysAreAccounted(s) ==
    LET j == job[s]
    IN  /\ j.pc \in {"idle", "lock", "start"} =>
              j.days = j.requested /\ j.saved = {} /\ ~j.errors /\ j.row = 0
        /\ j.pc \in {"fetch", "write"} => j.days # {}
        /\ j.pc \in {"fetch", "write", "finish"} =>
              /\ j.days \union j.saved \subseteq j.requested
              /\ ~j.errors => \A d \in j.requested \ (j.days \union j.saved) : j.seen[d] = 0
        /\ At(s, "finish") => j.days = {}
        /\ \A d \in j.saved : Holds(d, j.seen[d])

\* The days of the window that are not requested were complete.
OthersAreComplete(s) ==
    ~At(s, "idle") =>
        \A d \in job[s].window \ job[s].requested, q \in Quarters : stored[d][q] > 0

\* The row of a run is its own, and running until it is finished.
RowIsRunning(s) ==
    LET j == job[s]
    IN  /\ j.row # 0 => j.row \in DOMAIN runs
        /\ j.pc \in {"fetch", "write", "finish", "failed"} =>
              j.row # 0 /\ (j.row # 0 => runs[j.row] = "running")

\* What the status that was just written says.
StatusOf(s) ==
    LET j == job[s]
    IN  /\ Finished(s, "success") => j.saved = j.requested
        /\ Finished(s, "partial") => j.saved # {} /\ j.requested \ j.saved # {}
        /\ Finished(s, "no_data") => j.requested # {} /\ \A d \in j.requested : j.seen[d] = 0

JobInv(s) ==
    /\ SeenIsPublished(s)
    /\ AnswerIsNewest(s)
    /\ DaysAreAccounted(s)
    /\ OthersAreComplete(s)
    /\ RowIsRunning(s)
    /\ StatusOf(s)

IInv == Typed /\ StoredIsPublished /\ \A s \in Syncs : JobInv(s)

----------------------------------------------------------------------------
(* Days, publications and rows.                                            *)

\* Dates are counted from a first one, so some days have an earliest one.
LEMMA MinIsIn ==
    ASSUME NEW S \in SUBSET Days, S # {}
    PROVE  Min(S) \in S
<1> DEFINE R == {ss \in Nat \X Nat : ss[1] < ss[2]}
<1>1. IsWellFoundedOn(R, Nat)
  <2>1. R = OpToRel(<, Nat)
    BY Zenon DEF OpToRel
  <2>2. QED
    BY <2>1, NatLessThanWellFounded, Zenon
<1>2. S \subseteq Nat
  BY DaysAssumption
<1>3. PICK x \in S : \A y \in S : ~(<<y, x>> \in R)
  <2> HIDE DEF R
  <2>1. QED
    BY <1>1, <1>2, WFMin
<1>4. \A y \in S : y \in Nat /\ x \in Nat /\ ~(y < x)
  BY <1>2, <1>3
<1>5. \A y \in S : x =< y
  BY <1>4
<1>6. QED
  BY <1>5 DEF Min

\* Of two publications of a day, the later has the quarters of the earlier.
LEMMA QuartersGrow ==
    ASSUME NEW m \in PublishedRange, NEW n \in PublishedRange, m <= n
    PROVE  QuartersOf(m) \subseteq QuartersOf(n) /\ QuartersOf(n) \subseteq Quarters
<1>1. Len(Publications) \in Nat /\ DOMAIN Publications = 1 .. Len(Publications)
  BY PublicationsAssumption, LenProperties
<1>2. \A i \in 1 .. Len(Publications) : Publications[i] \subseteq Quarters
  BY <1>1, PublicationsAssumption, ElementOfSeq
<1>3. CASE m = 0
  BY <1>1, <1>2, <1>3 DEF QuartersOf, PublishedRange
<1>4. CASE m # 0
  BY <1>1, <1>2, <1>4, PublicationsAssumption DEF QuartersOf, PublishedRange
<1>5. QED
  BY <1>3, <1>4

\* What changes in the tables when a synchronisation other than the one that
\* has the lock takes a step: prices and publications only grow.
TablesGrow ==
    /\ published' \in [Days -> PublishedRange]
    /\ stored' \in [Days -> [Quarters -> PublishedRange]]
    /\ \A d \in Days : published[d] <= published'[d]
    /\ \A d \in Days, q \in Quarters : stored[d][q] <= stored'[d][q]

LEMMA RangesAreIntegers == PublishedRange \subseteq Int
BY PublicationsAssumption, LenProperties DEF PublishedRange

LEMMA TablesStay ==
    ASSUME Typed, UNCHANGED <<published, stored>>
    PROVE  TablesGrow
<1>1. \A d \in Days : published[d] \in Int /\ \A q \in Quarters : stored[d][q] \in Int
  BY RangesAreIntegers DEF Typed, TypeOK
<1>2. QED
  BY <1>1 DEF TablesGrow, Typed, TypeOK

\* Prices that are there stay.
LEMMA HoldsOn ==
    ASSUME Typed, TablesGrow, NEW d \in Days, NEW n \in PublishedRange, Holds(d, n)
    PROVE  Holds(d, n)'
<1>1. \A q \in QuartersOf(n) : q \in Quarters /\ stored[d][q] >= n
  BY RangesAreIntegers, QuartersGrow DEF Holds
<1>2. \A q \in Quarters : stored[d][q] \in Int /\ stored'[d][q] \in Int
  BY RangesAreIntegers DEF Typed, TypeOK, TablesGrow
<1>3. n \in Int
  BY RangesAreIntegers
<1>4. QED
  BY <1>1, <1>2, <1>3 DEF TablesGrow, Holds

\* The invariant of a job that takes no step: while it has the lock, nobody
\* else writes prices or rows.
LEMMA OtherJobs ==
    ASSUME IInv, TablesGrow, NEW t \in Syncs, job'[t] = job[t],
           At(t, "write") => stored' = stored,
           job[t].pc \in WithLock => runs' = runs
    PROVE  JobInv(t)'
<1> USE RangesAreIntegers
<1>1. job[t] \in Job
  BY DEF IInv, Typed
<1>2. \A d \in Days, n \in PublishedRange : Holds(d, n) => Holds(d, n)'
  BY HoldsOn DEF IInv
<1>3. SeenIsPublished(t)'
  <2>1. \A d \in Days : /\ job[t].seen[d] \in Int /\ published[d] \in Int /\ published'[d] \in Int
                        /\ job[t].seen[d] <= published[d] /\ published[d] <= published'[d]
    BY <1>1 DEF IInv, JobInv, SeenIsPublished, TablesGrow, Typed, TypeOK, Job
  <2>2. QED
    BY <2>1 DEF SeenIsPublished
<1>4. AnswerIsNewest(t)'
  <2> SUFFICES ASSUME At(t, "write")' PROVE AnswerIsNewest(t)'
    BY DEF AnswerIsNewest
  <2> DEFINE day == Min(job[t].days)
  <2>1. At(t, "write") /\ stored' = stored
    BY DEF At
  <2>2. day \in Days
    BY <1>1, <2>1, MinIsIn DEF IInv, JobInv, DaysAreAccounted, At, Job
  <2>3. /\ published[day] \in Int /\ published'[day] \in Int /\ job[t].answer \in Int
        /\ published[day] <= published'[day]
    BY <1>1, <2>2 DEF IInv, Typed, TypeOK, TablesGrow, Job
  <2>4. /\ 0 < job[t].answer /\ job[t].answer <= published[day]
        /\ job[t].seen[day] <= job[t].answer
        /\ \A q \in Quarters : stored[day][q] <= job[t].answer
    BY <2>1 DEF IInv, JobInv, AnswerIsNewest
  <2> HIDE DEF day
  <2>5. job[t].answer <= published'[day]
    BY <2>3, <2>4
  <2>6. QED
    BY <2>1, <2>4, <2>5 DEF AnswerIsNewest, day
<1>5. DaysAreAccounted(t)'
  <2>1. \A d \in job[t].saved : d \in Days /\ job[t].seen[d] \in PublishedRange
    BY <1>1 DEF Job
  <2>2. \A d \in job[t].saved : Holds(d, job[t].seen[d])'
    BY <1>2, <2>1 DEF IInv, JobInv, DaysAreAccounted, Holds
  <2>3. QED
    BY <2>2 DEF IInv, JobInv, DaysAreAccounted, At
<1>6. OthersAreComplete(t)'
  <2>1. \A d \in Days, q \in Quarters :
           stored[d][q] \in Int /\ stored'[d][q] \in Int /\ stored[d][q] <= stored'[d][q]
    BY DEF IInv, Typed, TypeOK, TablesGrow
  <2>2. \A d \in Days, q \in Quarters : stored[d][q] > 0 => stored'[d][q] > 0
    BY <2>1
  <2>3. job[t].window \subseteq Days
    BY <1>1 DEF Job
  <2>4. QED
    BY <2>2, <2>3 DEF IInv, JobInv, OthersAreComplete, At
<1>7. RowIsRunning(t)' /\ StatusOf(t)'
  <2>1. CASE job[t].pc \in WithLock
    BY <2>1 DEF IInv, JobInv, RowIsRunning, StatusOf, Finished, At, WithLock
  <2>2. CASE job[t].pc \notin WithLock
    <3>1. job[t].row = 0
      BY <1>1, <2>2 DEF IInv, JobInv, DaysAreAccounted, Job
    <3>2. QED
      BY <2>2, <3>1 DEF RowIsRunning, StatusOf, Finished, At, WithLock
  <2>3. QED
    BY <2>1, <2>2
<1>8. QED
  BY <1>3, <1>4, <1>5, <1>6, <1>7 DEF JobInv

\* A step of one synchronisation, for what it leaves to the others: only who
\* has the lock writes prices and rows.
LEMMA OneJobSteps ==
    ASSUME IInv, NEW s \in Syncs, NEW j \in Job, job' = [job EXCEPT ![s] = j],
           TablesGrow, today' \in Days, runs' \in Seq(Statuses),
           \/ lock' = lock /\ (j.pc \in WithLock <=> job[s].pc \in WithLock)
           \/ lock = NoOne /\ lock' = s /\ j.pc \in WithLock
           \/ lock = s /\ lock' = NoOne /\ j.pc \notin WithLock,
           job[s].pc \in WithLock \/ UNCHANGED <<stored, runs>>,
           StoredIsPublished', JobInv(s)'
    PROVE  IInv'
<1>1. job'[s] = j /\ \A t \in Syncs \ {s} : job'[t] = job[t]
  BY DEF IInv, Typed
<1>2. \A t \in Syncs : job[t].pc \in WithLock <=> lock = t
  BY DEF IInv, Typed, TypeOK
<1>3. Typed'
  <2>1. job' \in [Syncs -> Job]
    BY DEF IInv, Typed
  <2>2. lock' \in Syncs \union {NoOne}
    BY DEF IInv, Typed
  <2>3. \A t \in Syncs : job'[t].pc \in WithLock <=> lock' = t
    BY <1>1, <1>2, ProcessesAssumption
  <2>4. QED
    BY <2>1, <2>2, <2>3 DEF Typed, TypeOK, TablesGrow, Statuses
<1>4. ASSUME NEW t \in Syncs \ {s} PROVE JobInv(t)'
  <2>1. job[s].pc \in WithLock => job[t].pc \notin WithLock
    BY <1>2
  <2>2. At(t, "write") => job[t].pc \in WithLock
    BY DEF At, WithLock
  <2>3. QED
    BY <1>1, <2>1, <2>2, OtherJobs
<1>5. QED
  BY <1>3, <1>4 DEF IInv

\* The tables that a step of one synchronisation may leave alone.
LEMMA JobStepAlone ==
    ASSUME IInv, NEW s \in Syncs, NEW j \in Job, job' = [job EXCEPT ![s] = j],
           UNCHANGED <<today, published, stored, runs>>,
           \/ lock' = lock /\ (j.pc \in WithLock <=> job[s].pc \in WithLock)
           \/ lock = NoOne /\ lock' = s /\ j.pc \in WithLock
           \/ lock = s /\ lock' = NoOne /\ j.pc \notin WithLock,
           JobInv(s)'
    PROVE  IInv'
<1>1. TablesGrow
  BY TablesStay DEF IInv
<1>2. StoredIsPublished'
  BY DEF IInv, StoredIsPublished
<1>3. today' \in Days /\ runs' \in Seq(Statuses)
  BY DEF IInv, Typed, TypeOK, Statuses
<1>4. QED
  BY <1>1, <1>2, <1>3, OneJobSteps

----------------------------------------------------------------------------
(* The steps.                                                              *)

LEMMA NoJobIsJob == NoJob \in Job
BY PublicationsAssumption, LenProperties DEF NoJob, Job, PublishedRange

\* A job that has not begun, and one that ended.
LEMMA IdleInv ==
    ASSUME NEW s \in Syncs, job[s] = NoJob, published \in [Days -> PublishedRange]
    PROVE  JobInv(s)
<1>1. \A d \in Days : published[d] \in PublishedRange /\ 0 <= published[d]
  BY DEF PublishedRange
<1>2. QED
  BY <1>1 DEF NoJob, JobInv, SeenIsPublished, AnswerIsNewest, DaysAreAccounted, OthersAreComplete,
       RowIsRunning, StatusOf, Finished, At

LEMMA EndedInv ==
    ASSUME NEW s \in Syncs, job'[s] = NoJob, published' \in [Days -> PublishedRange]
    PROVE  JobInv(s)'
<1>1. \A d \in Days : published'[d] \in PublishedRange /\ 0 <= published'[d]
  BY DEF PublishedRange
<1>2. QED
  BY <1>1 DEF NoJob, JobInv, SeenIsPublished, AnswerIsNewest, DaysAreAccounted, OthersAreComplete,
       RowIsRunning, StatusOf, Finished, At

LEMMA InitInv == Init => IInv
<1> SUFFICES ASSUME Init PROVE IInv
  OBVIOUS
<1>1. 0 \in PublishedRange
  BY PublicationsAssumption, LenProperties DEF PublishedRange
<1>2. runs \in Seq(Statuses)
  BY EmptySeq DEF Init
<1>3. Typed
  BY <1>1, <1>2, NoJobIsJob, DaysAssumption, ProcessesAssumption
     DEF Init, Typed, TypeOK, NoJob, WithLock, Statuses
<1>4. StoredIsPublished
  BY DEF Init, StoredIsPublished
<1>5. \A s \in Syncs : JobInv(s)
  BY <1>3, IdleInv DEF Init, Typed, TypeOK
<1>6. QED
  BY <1>3, <1>4, <1>5 DEF IInv

\* A job as Begin and Unlock make it.
LEMMA BegunInv ==
    ASSUME IInv, NEW s \in Syncs, job[s].pc \notin WithLock \/ lock' = NoOne,
           lock' = IF job[s].pc \in WithLock THEN NoOne ELSE lock,
           NEW days \in SUBSET Days, NEW rest \in SUBSET Days, NEW window \in SUBSET Days,
           \A d \in window \ days, q \in Quarters : stored[d][q] > 0,
           job' = [job EXCEPT ![s] =
                      [NoJob EXCEPT !.pc = "lock", !.days = days, !.requested = days,
                                    !.rest = rest, !.window = window, !.seen = published]],
           UNCHANGED <<today, published, stored, runs>>
    PROVE  IInv'
<1> DEFINE j == [NoJob EXCEPT !.pc = "lock", !.days = days, !.requested = days,
                              !.rest = rest, !.window = window, !.seen = published]
<1>1. j \in Job
  BY NoJobIsJob DEF Job, IInv, Typed, TypeOK
<1>2. /\ j.pc = "lock" /\ j.days = days /\ j.requested = days /\ j.window = window
      /\ j.seen = published /\ j.saved = {} /\ j.errors = FALSE /\ j.row = 0
  BY DEF NoJob
<1>3. job' = [job EXCEPT ![s] = j]
  OBVIOUS
<1> HIDE DEF j
<1>4. job'[s] = j
  BY <1>3 DEF IInv, Typed
<1>5. JobInv(s)'
  <2>1. SeenIsPublished(s)'
    <3>1. \A d \in Days : published[d] \in Int
      BY RangesAreIntegers DEF IInv, Typed, TypeOK
    <3>2. QED
      BY <1>2, <1>4, <3>1 DEF SeenIsPublished
  <2>2. AnswerIsNewest(s)' /\ DaysAreAccounted(s)' /\ OthersAreComplete(s)'
    BY <1>2, <1>4 DEF AnswerIsNewest, DaysAreAccounted, OthersAreComplete, At
  <2>3. RowIsRunning(s)' /\ StatusOf(s)'
    BY <1>2, <1>4 DEF RowIsRunning, StatusOf, Finished, At
  <2>4. QED
    BY <2>1, <2>2, <2>3 DEF JobInv
<1>6. QED
  <2>1. j.pc \notin WithLock
    BY <1>2 DEF WithLock
  <2>2. job[s].pc \in WithLock => lock = s
    BY DEF IInv, Typed, TypeOK
  <2>3. QED
    BY <1>1, <1>3, <1>5, <2>1, <2>2, JobStepAlone

LEMMA SyncMissingInv ==
    ASSUME IInv, NEW s \in Syncs, SyncMissing(s)
    PROVE  IInv'
<1> DEFINE window == Days \intersect (today - CatchupDays .. today + 1)
<1> DEFINE days == {d \in window : Incomplete(d)}
<1>1. Begin(s, days, {}, window)
  BY DEF SyncMissing
<1>2. \A d \in window \ days, q \in Quarters : stored[d][q] > 0
  <2>1. \A d \in Days, q \in Quarters : stored[d][q] # 0 => stored[d][q] > 0
    BY PublicationsAssumption, LenProperties DEF IInv, Typed, TypeOK, PublishedRange
  <2>2. QED
    BY <2>1 DEF Incomplete
<1>3. days \in SUBSET Days /\ window \in SUBSET Days /\ {} \in SUBSET Days
  OBVIOUS
<1> HIDE DEF window, days
<1>4. QED
  BY <1>1, <1>2, <1>3, BegunInv DEF Begin, Goes, At, WithLock

LEMMA SyncRangeInv ==
    ASSUME IInv, NEW s \in Syncs, NEW from \in Days, NEW to \in Days, SyncRange(s, from, to)
    PROVE  IInv'
<1> DEFINE days == from .. to
<1>1. Begin(s, Chunk(days), days \ Chunk(days), Chunk(days))
  BY DEF SyncRange
<1>2. days \subseteq Days
  BY DaysAssumption
<1>3. Chunk(days) \subseteq Days
  BY <1>2 DEF Chunk
<1> HIDE DEF days
<1>4. QED
  BY <1>1, <1>2, <1>3, BegunInv DEF Begin, Goes, At, WithLock

LEMMA UnlockInv ==
    ASSUME IInv, NEW s \in Syncs, Unlock(s)
    PROVE  IInv'
<1>1. job[s] \in Job /\ lock = s /\ job[s].pc = "unlock"
  BY DEF IInv, Typed, TypeOK, Unlock, At, WithLock
<1>2. lock' = NoOne /\ UNCHANGED <<today, published, stored, runs>>
  BY DEF Unlock, ReleaseLock
<1>3. CASE job[s].rest = {}
  <2>1. job' = [job EXCEPT ![s] = NoJob]
    BY <1>3 DEF Unlock, Goes
  <2>2. job'[s] = NoJob
    BY <2>1 DEF IInv, Typed
  <2>3. JobInv(s)'
    BY <1>2, <2>2, EndedInv DEF IInv, Typed, TypeOK
  <2>4. QED
    BY <1>1, <1>2, <2>1, <2>3, NoJobIsJob, JobStepAlone DEF NoJob, WithLock
<1>4. CASE job[s].rest # {}
  <2> DEFINE next == Chunk(job[s].rest)
  <2>1. next \in SUBSET Days /\ job[s].rest \ next \in SUBSET Days
    BY <1>1 DEF Chunk, Job
  <2>2. job' = [job EXCEPT ![s] =
                   [NoJob EXCEPT !.pc = "lock", !.days = next, !.requested = next, !.window = next,
                                 !.rest = job[s].rest \ next, !.seen = published]]
    BY <1>4 DEF Unlock, Goes
  <2>3. job' = [job EXCEPT ![s] =
                   [NoJob EXCEPT !.pc = "lock", !.days = next, !.requested = next,
                                 !.rest = job[s].rest \ next, !.window = next, !.seen = published]]
    BY <2>2 DEF NoJob
  <2>4. PICK days \in SUBSET Days : days = next
    BY <2>1
  <2>5. PICK rest \in SUBSET Days : rest = job[s].rest \ next
    BY <2>1
  <2> HIDE DEF next
  <2>6. job' = [job EXCEPT ![s] =
                   [NoJob EXCEPT !.pc = "lock", !.days = days, !.requested = days,
                                 !.rest = rest, !.window = days, !.seen = published]]
    BY <2>3, <2>4, <2>5
  <2>7. job[s].pc \in WithLock
    BY <1>1 DEF WithLock
  <2>8. QED
    BY <1>1, <1>2, <2>1, <2>6, <2>7, BegunInv
<1>5. QED
  BY <1>3, <1>4

LEMMA AcquireInv ==
    ASSUME IInv, NEW s \in Syncs, Acquire(s)
    PROVE  IInv'
<1>1. job[s] \in Job /\ At(s, "lock")
  BY DEF IInv, Typed, Acquire
<1>2. CASE lock = NoOne
  <2> DEFINE j == [job[s] EXCEPT !.pc = "start"]
  <2>1. job' = [job EXCEPT ![s] = j] /\ lock' = s
    BY <1>2 DEF Acquire, Goes
  <2>2. j \in Job
    BY <1>1 DEF Job, WithLock
  <2>3. JobInv(s)'
    BY <1>1, <2>1 DEF IInv, Typed, Acquire, JobInv, SeenIsPublished, AnswerIsNewest, DaysAreAccounted,
         OthersAreComplete, RowIsRunning, StatusOf, Finished, At, Holds, Job
  <2>4. j.pc = "start"
    BY <1>1 DEF Job
  <2> HIDE DEF j
  <2>5. QED
    BY <1>2, <2>1, <2>2, <2>3, <2>4, JobStepAlone DEF Acquire, WithLock
<1>3. CASE lock # NoOne
  <2>1. job' = [job EXCEPT ![s] = NoJob] /\ lock' = lock
    BY <1>3 DEF Acquire, Goes
  <2>2. job'[s] = NoJob
    BY <2>1 DEF IInv, Typed
  <2>3. JobInv(s)'
    BY <2>2, EndedInv DEF IInv, Typed, TypeOK, Acquire
  <2>4. QED
    BY <1>1, <2>1, <2>3, NoJobIsJob, JobStepAlone DEF NoJob, WithLock, Acquire, At
<1>4. QED
  BY <1>2, <1>3

\* The rows of the other runs, and their statuses, stay.
LEMMA RowsAreTyped ==
    ASSUME IInv
    PROVE  /\ runs \in Seq(Statuses) /\ Len(runs) \in Nat /\ DOMAIN runs = 1 .. Len(runs)
BY LenProperties DEF IInv, Typed, TypeOK, Statuses

LEMMA StartRunInv ==
    ASSUME IInv, NEW s \in Syncs, StartRun(s)
    PROVE  IInv'
<1> DEFINE j == [job[s] EXCEPT !.pc = IF job[s].days = {} THEN "finish" ELSE "fetch",
                               !.row = Len(runs) + 1]
<1>1. job[s] \in Job /\ At(s, "start") /\ UNCHANGED <<today, published, stored, lock>>
  BY DEF IInv, Typed, StartRun
<1>2. job' = [job EXCEPT ![s] = j]
  BY DEF StartRun, Goes
<1>3. /\ j \in Job
      /\ j.pc = IF job[s].days = {} THEN "finish" ELSE "fetch"
      /\ j.row = Len(runs) + 1
      /\ j.days = job[s].days /\ j.requested = job[s].requested /\ j.saved = job[s].saved
      /\ j.errors = job[s].errors /\ j.seen = job[s].seen /\ j.window = job[s].window
  <2> DEFINE pc == IF job[s].days = {} THEN "finish" ELSE "fetch"
  <2>1. pc \in {"idle", "lock"} \union WithLock /\ Len(runs) + 1 \in Nat
    BY RowsAreTyped DEF WithLock
  <2> HIDE DEF pc
  <2>2. j = [job[s] EXCEPT !.pc = pc, !.row = Len(runs) + 1]
    BY DEF pc
  <2>3. j \in Job /\ j.pc = pc
    BY <1>1, <2>1, <2>2 DEF Job
  <2>4. QED
    BY <1>1, <2>2, <2>3 DEF Job, pc
<1> HIDE DEF j
<1>4. job'[s] = j
  BY <1>2 DEF IInv, Typed
<1>5. /\ runs' \in Seq(Statuses)
      /\ Len(runs) + 1 \in DOMAIN runs' /\ runs'[Len(runs) + 1] = "running"
  BY RowsAreTyped, AppendProperties DEF StartRun, Statuses
<1>6. JobInv(s)'
  <2>1. SeenIsPublished(s)' /\ AnswerIsNewest(s)'
    BY <1>1, <1>3, <1>4 DEF IInv, JobInv, SeenIsPublished, AnswerIsNewest, At
  <2>2. DaysAreAccounted(s)'
    BY <1>1, <1>3, <1>4 DEF IInv, JobInv, DaysAreAccounted, At, Holds
  <2>3. OthersAreComplete(s)'
    BY <1>1, <1>3, <1>4 DEF IInv, JobInv, OthersAreComplete, At
  <2>4. RowIsRunning(s)' /\ StatusOf(s)'
    BY <1>3, <1>4, <1>5, RowsAreTyped DEF RowIsRunning, StatusOf, Finished, At
  <2>5. QED
    BY <2>1, <2>2, <2>3, <2>4 DEF JobInv
<1>7. TablesGrow /\ StoredIsPublished' /\ today' \in Days
  BY <1>1, TablesStay DEF IInv, StoredIsPublished, Typed, TypeOK
<1>8. QED
  BY <1>1, <1>2, <1>3, <1>5, <1>6, <1>7, OneJobSteps DEF At, WithLock

\* The first of the days is done, in one way or another.
LEMMA NextDayIs ==
    ASSUME NEW j \in Job, j.days # {}
    PROVE  /\ NextDay(j) \in Job
           /\ Min(j.days) \in j.days /\ Min(j.days) \in Days
           /\ NextDay(j).days = j.days \ {Min(j.days)}
           /\ NextDay(j).pc = IF NextDay(j).days = {} THEN "finish" ELSE "fetch"
           /\ NextDay(j).requested = j.requested /\ NextDay(j).window = j.window
           /\ NextDay(j).seen = j.seen /\ NextDay(j).saved = j.saved
           /\ NextDay(j).errors = j.errors /\ NextDay(j).row = j.row
<1>1. Min(j.days) \in j.days /\ Min(j.days) \in Days
  BY MinIsIn DEF Job
<1>2. 0 \in PublishedRange
  BY PublicationsAssumption, LenProperties DEF PublishedRange
<1> DEFINE left == j.days \ {Min(j.days)}
<1> DEFINE pc == IF left = {} THEN "finish" ELSE "fetch"
<1>3. NextDay(j) = [j EXCEPT !.days = left, !.attempt = 1, !.answer = 0, !.pc = pc]
  BY DEF NextDay
<1>4. left \in SUBSET Days /\ pc \in {"idle", "lock"} \union WithLock
  BY DEF Job, WithLock
<1> HIDE DEF left, pc
<1> DEFINE k == [j EXCEPT !.days = left, !.pc = pc]
<1>5. k \in Job /\ k.days = left /\ k.pc = pc
  BY <1>4 DEF Job
<1>6. NextDay(j) = [k EXCEPT !.attempt = 1, !.answer = 0]
  BY <1>3 DEF Job
<1>7. /\ k.requested = j.requested /\ k.window = j.window /\ k.seen = j.seen
      /\ k.saved = j.saved /\ k.errors = j.errors /\ k.row = j.row
  BY DEF Job
<1> HIDE DEF k
<1>8. NextDay(j) \in Job /\ NextDay(j).days = left /\ NextDay(j).pc = pc
  <2> DEFINE m == [k EXCEPT !.attempt = 1]
  <2>1. m \in Job /\ m.days = left /\ m.pc = pc
    BY <1>5 DEF Job
  <2>2. NextDay(j) = [m EXCEPT !.answer = 0]
    BY <1>5, <1>6 DEF Job
  <2> HIDE DEF m
  <2>3. [m EXCEPT !.answer = 0] \in Job
    BY <1>2, <2>1 DEF Job
  <2>4. QED
    BY <1>2, <2>1, <2>2, <2>3 DEF Job
<1>9. QED
  BY <1>1, <1>5, <1>6, <1>7, <1>8 DEF Job, left, pc

\* The day is left out: it was not published, or there was an error.
LEMMA LeaveOutInv ==
    ASSUME IInv, NEW s \in Syncs, At(s, "fetch"),
           NEW errors \in BOOLEAN, job[s].errors => errors,
           errors \/ published[Min(job[s].days)] = 0,
           job' = [job EXCEPT ![s] = [NextDay(job[s]) EXCEPT !.errors = errors]],
           UNCHANGED <<today, published, stored, runs, lock>>
    PROVE  IInv'
<1> DEFINE j == [NextDay(job[s]) EXCEPT !.errors = errors]
<1> DEFINE day == Min(job[s].days)
<1>1. job[s] \in Job /\ job[s].days # {} /\ job[s].pc = "fetch"
  BY DEF IInv, Typed, JobInv, DaysAreAccounted, At
<1>2. /\ j \in Job
      /\ day \in job[s].days /\ day \in Days
      /\ j.days = job[s].days \ {day}
      /\ j.pc = IF j.days = {} THEN "finish" ELSE "fetch"
      /\ j.requested = job[s].requested /\ j.window = job[s].window
      /\ j.seen = job[s].seen /\ j.saved = job[s].saved
      /\ j.errors = errors /\ j.row = job[s].row
  BY <1>1, NextDayIs DEF Job
<1>3. job' = [job EXCEPT ![s] = j]
  OBVIOUS
<1>4. errors \/ job[s].seen[day] = 0
  <2>1. /\ job[s].seen[day] \in PublishedRange /\ published[day] \in PublishedRange
        /\ job[s].seen[day] <= published[day]
    BY <1>1, <1>2 DEF IInv, JobInv, SeenIsPublished, Job, Typed, TypeOK
  <2>2. \A n \in PublishedRange : n <= 0 => n = 0
    BY PublicationsAssumption, LenProperties DEF PublishedRange
  <2>3. QED
    BY <2>1, <2>2
<1> HIDE DEF j, day
<1>5. job'[s] = j
  BY <1>3 DEF IInv, Typed
<1>6. JobInv(s)'
  <2>1. SeenIsPublished(s)' /\ AnswerIsNewest(s)'
    BY <1>2, <1>5 DEF IInv, JobInv, SeenIsPublished, AnswerIsNewest, At
  <2>2. DaysAreAccounted(s)'
    <3>1. job[s].days \union job[s].saved \subseteq job[s].requested
      BY <1>1 DEF IInv, JobInv, DaysAreAccounted
    <3>2. ~errors => \A d \in j.requested \ (j.days \union j.saved) : j.seen[d] = 0
      BY <1>1, <1>2, <1>4 DEF IInv, JobInv, DaysAreAccounted
    <3>3. \A d \in j.saved : Holds(d, j.seen[d])
      BY <1>2 DEF IInv, JobInv, DaysAreAccounted
    <3>4. \A d \in job'[s].saved : Holds(d, job[s].seen[d])'
      BY <1>5, <3>3 DEF Holds
    <3>5. QED
      BY <1>2, <1>5, <3>1, <3>2, <3>4 DEF DaysAreAccounted, At
  <2>3. OthersAreComplete(s)'
    BY <1>1, <1>2, <1>5 DEF IInv, JobInv, OthersAreComplete, At
  <2>4. RowIsRunning(s)' /\ StatusOf(s)'
    BY <1>1, <1>2, <1>5 DEF IInv, JobInv, RowIsRunning, StatusOf, Finished, At
  <2>5. QED
    BY <2>1, <2>2, <2>3, <2>4 DEF JobInv
<1>7. QED
  BY <1>1, <1>2, <1>3, <1>6, JobStepAlone DEF WithLock

LEMMA FetchDayInv ==
    ASSUME IInv, NEW s \in Syncs, FetchDay(s)
    PROVE  IInv'
<1> DEFINE day == Min(job[s].days)
<1>1. /\ At(s, "fetch") /\ UNCHANGED <<today, published, stored, runs, lock>>
      /\ job[s] \in Job /\ job[s].days # {} /\ job[s].pc = "fetch"
  BY DEF IInv, Typed, JobInv, DaysAreAccounted, At, FetchDay
<1>2. day \in job[s].days /\ day \in Days
  BY <1>1, MinIsIn DEF Job
<1>3. CASE published[day] = 0
  <2>1. job' = [job EXCEPT ![s] = NextDay(job[s])]
    BY <1>3 DEF FetchDay, Goes
  <2>2. NextDay(job[s]) = [NextDay(job[s]) EXCEPT !.errors = job[s].errors]
    BY <1>1, NextDayIs DEF Job
  <2>3. job[s].errors \in BOOLEAN
    BY <1>1 DEF Job
  <2>4. QED
    BY <1>1, <1>3, <2>1, <2>2, <2>3, LeaveOutInv
<1>4. CASE published[day] # 0
  <2> DEFINE j == [job[s] EXCEPT !.pc = "write", !.answer = published[day]]
  <2>1. job' = [job EXCEPT ![s] = j]
    BY <1>4 DEF FetchDay, Goes
  <2>2. published[day] \in PublishedRange /\ 0 < published[day]
    BY <1>2, <1>4, PublicationsAssumption, LenProperties DEF IInv, Typed, TypeOK, PublishedRange
  <2>3. /\ j \in Job /\ j.pc = "write" /\ j.answer = published[day]
        /\ j.days = job[s].days /\ j.requested = job[s].requested /\ j.saved = job[s].saved
        /\ j.errors = job[s].errors /\ j.seen = job[s].seen /\ j.window = job[s].window
        /\ j.row = job[s].row
    BY <1>1, <2>2 DEF Job, WithLock
  <2> HIDE DEF j
  <2>4. job'[s] = j
    BY <2>1 DEF IInv, Typed
  <2>5. SeenIsPublished(s)'
    BY <1>1, <2>3, <2>4 DEF IInv, JobInv, SeenIsPublished
  <2>6. AnswerIsNewest(s)'
    <3>1. job[s].seen[day] <= published[day] /\ \A q \in Quarters : stored[day][q] <= published[day]
      BY <1>1, <1>2 DEF IInv, JobInv, SeenIsPublished, StoredIsPublished
    <3>2. published[day] \in Int
      BY <2>2, RangesAreIntegers
    <3>3. day = Min(j.days)
      BY <2>3
    <3> HIDE DEF day
    <3>4. QED
      BY <1>1, <2>2, <2>3, <2>4, <3>1, <3>2, <3>3 DEF AnswerIsNewest
  <2>7. DaysAreAccounted(s)'
    <3>1. \A d \in job'[s].saved : Holds(d, job[s].seen[d])'
      BY <1>1, <2>3, <2>4 DEF IInv, JobInv, DaysAreAccounted, Holds
    <3>2. QED
      BY <1>1, <2>3, <2>4, <3>1 DEF IInv, JobInv, DaysAreAccounted, At
  <2>8. OthersAreComplete(s)'
    BY <1>1, <2>3, <2>4 DEF IInv, JobInv, OthersAreComplete, At
  <2>9. RowIsRunning(s)' /\ StatusOf(s)'
    BY <1>1, <2>3, <2>4 DEF IInv, JobInv, RowIsRunning, StatusOf, Finished, At
  <2>10. QED
    BY <1>1, <2>1, <2>3, <2>5, <2>6, <2>7, <2>8, <2>9, JobStepAlone DEF JobInv, WithLock
<1>5. QED
  BY <1>3, <1>4

LEMMA FetchFailsInv ==
    ASSUME IInv, NEW s \in Syncs, FetchFails(s)
    PROVE  IInv'
<1>1. /\ At(s, "fetch") /\ UNCHANGED <<today, published, stored, runs, lock>>
      /\ job[s] \in Job /\ job[s].pc = "fetch"
  BY DEF IInv, Typed, At, FetchFails
<1>2. CASE Goes(s, [job[s] EXCEPT !.attempt = @ + 1])
  <2> DEFINE j == [job[s] EXCEPT !.attempt = @ + 1]
  <2>1. job' = [job EXCEPT ![s] = j]
    BY <1>2 DEF Goes
  <2>2. /\ j \in Job /\ j.pc = "fetch"
        /\ j.days = job[s].days /\ j.requested = job[s].requested /\ j.saved = job[s].saved
        /\ j.errors = job[s].errors /\ j.seen = job[s].seen /\ j.window = job[s].window
        /\ j.row = job[s].row
    BY <1>1 DEF Job
  <2> HIDE DEF j
  <2>3. job'[s] = j
    BY <2>1 DEF IInv, Typed
  <2>4. SeenIsPublished(s)' /\ AnswerIsNewest(s)'
    BY <1>1, <2>2, <2>3 DEF IInv, JobInv, SeenIsPublished, AnswerIsNewest, At
  <2>5. DaysAreAccounted(s)'
    <3>1. \A d \in job'[s].saved : Holds(d, job[s].seen[d])'
      BY <1>1, <2>2, <2>3 DEF IInv, JobInv, DaysAreAccounted, Holds
    <3>2. QED
      BY <1>1, <2>2, <2>3, <3>1 DEF IInv, JobInv, DaysAreAccounted, At
  <2>6. OthersAreComplete(s)' /\ RowIsRunning(s)' /\ StatusOf(s)'
    BY <1>1, <2>2, <2>3 DEF IInv, JobInv, OthersAreComplete, RowIsRunning, StatusOf, Finished, At
  <2>7. QED
    BY <1>1, <2>1, <2>2, <2>4, <2>5, <2>6, JobStepAlone DEF JobInv
<1>3. CASE Goes(s, [NextDay(job[s]) EXCEPT !.errors = TRUE])
  BY <1>1, <1>3, LeaveOutInv DEF Goes
<1>4. QED
  BY <1>2, <1>3 DEF FetchFails

\* What a write does: the answer replaces older prices and takes none away.
LEMMA WriteIsNewer ==
    ASSUME IInv, NEW s \in Syncs, WriteDay(s)
    PROVE  LET day == Min(job[s].days)
           IN  /\ day \in Days /\ day \in job[s].days
               /\ TablesGrow /\ StoredIsPublished'
               /\ \A q \in QuartersOf(job[s].seen[day]) : stored'[day][q] >= job[s].seen[day]
<1> DEFINE day == Min(job[s].days)
<1> DEFINE j == job[s]
<1>1. j \in Job /\ j.days # {} /\ At(s, "write")
  BY DEF IInv, Typed, JobInv, DaysAreAccounted, At, WriteDay
<1>2. day \in j.days /\ day \in Days
  BY <1>1, MinIsIn DEF Job
<1>3. /\ j.answer \in PublishedRange /\ j.seen[day] \in PublishedRange
      /\ 0 < j.answer /\ j.answer <= published[day] /\ j.seen[day] <= j.answer
      /\ \A q \in Quarters : stored[day][q] <= j.answer
  BY <1>1, <1>2 DEF IInv, JobInv, AnswerIsNewest, Job
<1>4. \A q \in Quarters : stored'[day][q] = IF q \in QuartersOf(j.answer) THEN j.answer ELSE stored[day][q]
  BY <1>2 DEF WriteDay, IInv, Typed, TypeOK
<1>5. \A d \in Days \ {day} : stored'[d] = stored[d]
  BY DEF WriteDay, IInv, Typed, TypeOK
<1>6. stored' \in [Days -> [Quarters -> PublishedRange]]
  BY <1>1, <1>2, <1>3 DEF WriteDay, IInv, Typed, TypeOK
<1>7. published' = published
  BY DEF WriteDay
<1>8. \A d \in Days : /\ published[d] \in Int
                      /\ \A q \in Quarters : stored[d][q] \in Int /\ stored[d][q] <= published[d]
  BY RangesAreIntegers DEF IInv, Typed, TypeOK, StoredIsPublished
<1>9. j.answer \in Int
  BY <1>3, RangesAreIntegers
<1> HIDE DEF day, j
<1>10. \A d \in Days, q \in Quarters : stored[d][q] <= stored'[d][q] /\ stored'[d][q] <= published[d]
  BY <1>2, <1>3, <1>4, <1>5, <1>8, <1>9
<1>11. TablesGrow /\ StoredIsPublished'
  BY <1>6, <1>7, <1>8, <1>10 DEF TablesGrow, StoredIsPublished, IInv, Typed, TypeOK
<1>12. \A q \in QuartersOf(j.seen[day]) : stored'[day][q] >= j.seen[day]
  <2>1. QuartersOf(j.seen[day]) \subseteq QuartersOf(j.answer) /\ QuartersOf(j.answer) \subseteq Quarters
    BY <1>3, QuartersGrow
  <2>2. \A q \in QuartersOf(j.seen[day]) : stored'[day][q] = j.answer
    BY <1>4, <2>1
  <2>3. QED
    BY <1>3, <2>2, RangesAreIntegers
<1>13. QED
  BY <1>2, <1>11, <1>12 DEF day, j

LEMMA WriteDayInv ==
    ASSUME IInv, NEW s \in Syncs, WriteDay(s)
    PROVE  IInv'
<1> DEFINE day == Min(job[s].days)
<1> DEFINE j == [NextDay(job[s]) EXCEPT !.saved = @ \union {day}]
<1>1. /\ At(s, "write") /\ UNCHANGED <<today, published, runs, lock>>
      /\ job[s] \in Job /\ job[s].days # {} /\ job[s].pc = "write"
      /\ job' = [job EXCEPT ![s] = j]
  BY DEF IInv, Typed, JobInv, DaysAreAccounted, At, WriteDay, Goes
<1>2. /\ day \in Days /\ day \in job[s].days
      /\ TablesGrow /\ StoredIsPublished'
      /\ \A q \in QuartersOf(job[s].seen[day]) : stored'[day][q] >= job[s].seen[day]
  BY WriteIsNewer
<1>3. /\ j \in Job /\ j.days = job[s].days \ {day}
      /\ j.pc = IF j.days = {} THEN "finish" ELSE "fetch"
      /\ j.requested = job[s].requested /\ j.window = job[s].window
      /\ j.seen = job[s].seen /\ j.saved = job[s].saved \union {day}
      /\ j.errors = job[s].errors /\ j.row = job[s].row
  BY <1>1, <1>2, NextDayIs DEF Job
<1> HIDE DEF j, day
<1>4. job'[s] = j
  BY <1>1 DEF IInv, Typed
<1>5. SeenIsPublished(s)' /\ AnswerIsNewest(s)'
  BY <1>1, <1>3, <1>4 DEF IInv, JobInv, SeenIsPublished, AnswerIsNewest, At
<1>6. DaysAreAccounted(s)'
  <2>1. ASSUME NEW d \in j.saved PROVE Holds(d, job[s].seen[d])'
    <3>1. CASE d = day
      BY <1>2, <1>3, <1>4, <3>1 DEF Holds
    <3>2. CASE d # day
      <4>1. d \in job[s].saved /\ d \in Days /\ job[s].seen[d] \in PublishedRange
        BY <1>1, <1>3, <3>2 DEF Job
      <4>2. \A n \in PublishedRange : Holds(d, n) => Holds(d, n)'
        BY <1>2, <4>1, HoldsOn DEF IInv
      <4>3. \A q \in QuartersOf(job[s].seen[d]) : stored'[d][q] >= job[s].seen[d]
        BY <4>1, <4>2 DEF IInv, JobInv, DaysAreAccounted, Holds
      <4>4. QED
        BY <1>3, <1>4, <4>3 DEF Holds
    <3>3. QED
      BY <3>1, <3>2
  <2>2. \A d \in job'[s].saved : Holds(d, job[s].seen[d])'
    BY <1>4, <2>1
  <2>3. /\ job[s].days \union job[s].saved \subseteq job[s].requested
        /\ ~job[s].errors => \A d \in job[s].requested \ (job[s].days \union job[s].saved) :
                                job[s].seen[d] = 0
    BY <1>1 DEF IInv, JobInv, DaysAreAccounted
  <2>4. QED
    BY <1>2, <1>3, <1>4, <2>2, <2>3 DEF DaysAreAccounted, At
<1>7. OthersAreComplete(s)'
  <2>1. \A d \in Days, q \in Quarters :
           stored[d][q] \in Int /\ stored'[d][q] \in Int /\ stored[d][q] <= stored'[d][q]
    BY <1>2, RangesAreIntegers DEF IInv, Typed, TypeOK, TablesGrow
  <2>2. \A d \in Days, q \in Quarters : stored[d][q] > 0 => stored'[d][q] > 0
    BY <2>1
  <2>3. \A d \in job[s].window \ job[s].requested, q \in Quarters : d \in Days /\ stored[d][q] > 0
    BY <1>1 DEF IInv, JobInv, OthersAreComplete, At, Job
  <2>4. QED
    BY <1>3, <1>4, <2>2, <2>3 DEF OthersAreComplete
<1>8. RowIsRunning(s)' /\ StatusOf(s)'
  BY <1>1, <1>3, <1>4 DEF IInv, JobInv, RowIsRunning, StatusOf, Finished, At
<1>9. runs' \in Seq(Statuses) /\ today' \in Days
  BY <1>1, RowsAreTyped DEF IInv, Typed, TypeOK
<1>10. QED
  BY <1>1, <1>2, <1>3, <1>5, <1>6, <1>7, <1>8, <1>9, OneJobSteps DEF JobInv, WithLock

\* A run that ends before its time keeps what it saved.
LEMMA GiveUpInv ==
    ASSUME IInv, NEW s \in Syncs, NEW pc \in {"failed", "unlock"}, NEW rest \in SUBSET Days,
           job[s].pc \in {"start", "write", "finish", "failed"},
           job' = [job EXCEPT ![s] = [job[s] EXCEPT !.pc = pc, !.rest = rest]],
           pc = "failed" => job[s].pc = "write",
           UNCHANGED <<today, published, stored, runs, lock>>
    PROVE  IInv'
<1> DEFINE j == [job[s] EXCEPT !.pc = pc, !.rest = rest]
<1>1. /\ job[s] \in Job /\ job' = [job EXCEPT ![s] = j]
  BY DEF IInv, Typed
<1>2. /\ j \in Job /\ j.pc = pc
      /\ j.days = job[s].days /\ j.requested = job[s].requested /\ j.saved = job[s].saved
      /\ j.errors = job[s].errors /\ j.seen = job[s].seen /\ j.window = job[s].window
      /\ j.row = job[s].row
  BY <1>1 DEF Job, WithLock
<1> HIDE DEF j
<1>3. job'[s] = j
  BY <1>1 DEF IInv, Typed
<1>4. SeenIsPublished(s)' /\ AnswerIsNewest(s)'
  BY <1>2, <1>3 DEF IInv, JobInv, SeenIsPublished, AnswerIsNewest, At
<1>5. DaysAreAccounted(s)'
  <2>1. \A d \in job'[s].saved : Holds(d, job[s].seen[d])'
    BY <1>2, <1>3 DEF IInv, JobInv, DaysAreAccounted, Holds
  <2>2. QED
    BY <1>2, <1>3, <2>1 DEF DaysAreAccounted, At
<1>6. OthersAreComplete(s)'
  BY <1>2, <1>3 DEF IInv, JobInv, OthersAreComplete, At
<1>7. RowIsRunning(s)'
  BY <1>2, <1>3 DEF IInv, JobInv, RowIsRunning
<1>8. job[s].row # 0 => runs[job[s].row] = "running"
  BY DEF IInv, JobInv, RowIsRunning, DaysAreAccounted
<1>9. StatusOf(s)'
  BY <1>2, <1>3, <1>8 DEF StatusOf, Finished, At
<1>10. QED
  BY <1>1, <1>2, <1>4, <1>5, <1>6, <1>7, <1>9, JobStepAlone DEF JobInv, WithLock

LEMMA WriteFailsInv ==
    ASSUME IInv, NEW s \in Syncs, WriteFails(s)
    PROVE  IInv'
<1>1. /\ job[s] \in Job /\ job[s].pc = "write"
      /\ job' = [job EXCEPT ![s] = [job[s] EXCEPT !.pc = "failed"]]
      /\ UNCHANGED <<today, published, stored, runs, lock>>
  BY DEF IInv, Typed, WriteFails, Goes, At
<1>2. /\ job[s].rest \in SUBSET Days
      /\ [job[s] EXCEPT !.pc = "failed"] = [job[s] EXCEPT !.pc = "failed", !.rest = job[s].rest]
  BY <1>1 DEF Job
<1>3. QED
  BY <1>1, <1>2, GiveUpInv

LEMMA CommitFailsInv ==
    ASSUME IInv, NEW s \in Syncs, CommitFails(s)
    PROVE  IInv'
<1>1. /\ job[s].pc \in {"start", "finish", "failed"}
      /\ job' = [job EXCEPT ![s] = [job[s] EXCEPT !.pc = "unlock", !.rest = {}]]
      /\ UNCHANGED <<today, published, stored, runs, lock>>
  BY DEF CommitFails, Goes
<1>2. "unlock" \in {"failed", "unlock"} /\ {} \in SUBSET Days
  OBVIOUS
<1>3. QED
  BY <1>1, <1>2, GiveUpInv

\* The status written at the end: success when every day is saved, and
\* no_data only when no day was published and nothing failed.
LEMMA FinishRunInv ==
    ASSUME IInv, NEW s \in Syncs, FinishRun(s)
    PROVE  IInv'
<1> DEFINE rest == IF At(s, "failed") THEN {} ELSE job[s].rest
<1> DEFINE status == IF At(s, "failed") THEN "failed" ELSE ResolveStatus(job[s])
<1> DEFINE j == [job[s] EXCEPT !.pc = "unlock", !.rest = rest]
<1>1. /\ job[s] \in Job /\ job[s].pc \in {"finish", "failed"}
      /\ job' = [job EXCEPT ![s] = j]
      /\ runs' = [runs EXCEPT ![job[s].row] = status]
      /\ UNCHANGED <<today, published, stored, lock>>
  BY DEF IInv, Typed, FinishRun, Goes, Job
<1>2. rest \in SUBSET Days
  BY <1>1 DEF Job
<1> HIDE DEF rest
<1>3. /\ j \in Job /\ j.pc = "unlock"
      /\ j.days = job[s].days /\ j.requested = job[s].requested /\ j.saved = job[s].saved
      /\ j.errors = job[s].errors /\ j.seen = job[s].seen /\ j.window = job[s].window
      /\ j.row = job[s].row
  BY <1>1, <1>2 DEF Job, WithLock
<1> HIDE DEF j
<1>4. job'[s] = j
  BY <1>1 DEF IInv, Typed
<1>5. status \in Statuses
  BY DEF ResolveStatus, Statuses
<1>6. /\ status = "success" => job[s].saved = job[s].requested
      /\ status = "partial" => job[s].saved # {} /\ job[s].requested \ job[s].saved # {}
      /\ status = "no_data" => /\ job[s].requested # {}
                               /\ \A d \in job[s].requested : job[s].seen[d] = 0
  <2>1. CASE At(s, "failed")
    BY <2>1
  <2>2. CASE At(s, "finish")
    <3>1. /\ job[s].days = {} /\ job[s].saved \subseteq job[s].requested
          /\ ~job[s].errors => \A d \in job[s].requested \ job[s].saved : job[s].seen[d] = 0
      BY <2>2 DEF IInv, JobInv, DaysAreAccounted, At
    <3>2. status = ResolveStatus(job[s])
      BY <2>2 DEF At
    <3> HIDE DEF status
    <3>3. status = "success" => job[s].saved = job[s].requested
      BY <3>2 DEF ResolveStatus
    <3>4. status = "partial" => job[s].saved # {} /\ job[s].saved # job[s].requested
      BY <3>2 DEF ResolveStatus
    <3>5. status = "no_data" => job[s].saved = {} /\ job[s].requested # {} /\ ~job[s].errors
      BY <3>2 DEF ResolveStatus
    <3>6. QED
      BY <3>1, <3>3, <3>4, <3>5
  <2>3. QED
    BY <1>1, <2>1, <2>2 DEF At
<1>7. job[s].row # 0 /\ job[s].row \in DOMAIN runs
  BY <1>1 DEF IInv, JobInv, RowIsRunning
<1>8. /\ runs' \in Seq(Statuses) /\ DOMAIN runs' = DOMAIN runs /\ runs'[job[s].row] = status
  <2> HIDE DEF status
  <2>1. runs' \in Seq(Statuses)
    BY <1>1, <1>5, <1>7, RowsAreTyped, ExceptSeq
  <2>2. runs = [i \in 1 .. Len(runs) |-> runs[i]]
    BY RowsAreTyped, SeqDef
  <2>3. QED
    BY <1>1, <1>7, <2>1, <2>2, RowsAreTyped
<1> HIDE DEF status
<1>9. JobInv(s)'
  <2>1. SeenIsPublished(s)' /\ AnswerIsNewest(s)'
    BY <1>1, <1>3, <1>4 DEF IInv, JobInv, SeenIsPublished, AnswerIsNewest, At
  <2>2. DaysAreAccounted(s)'
    <3>1. \A d \in job'[s].saved : Holds(d, job[s].seen[d])'
      BY <1>1, <1>3, <1>4 DEF IInv, JobInv, DaysAreAccounted, Holds
    <3>2. QED
      BY <1>3, <1>4, <3>1 DEF DaysAreAccounted, At
  <2>3. OthersAreComplete(s)'
    BY <1>1, <1>3, <1>4 DEF IInv, JobInv, OthersAreComplete, At
  <2>4. RowIsRunning(s)'
    BY <1>3, <1>4, <1>7, <1>8 DEF RowIsRunning
  <2>5. StatusOf(s)'
    BY <1>3, <1>4, <1>6, <1>8 DEF StatusOf, Finished, At
  <2>6. QED
    BY <2>1, <2>2, <2>3, <2>4, <2>5 DEF JobInv
<1>10. TablesGrow /\ StoredIsPublished' /\ today' \in Days
  BY <1>1, TablesStay DEF IInv, StoredIsPublished, Typed, TypeOK
<1>11. QED
  BY <1>1, <1>3, <1>8, <1>9, <1>10, OneJobSteps DEF WithLock

LEMMA PublishInv ==
    ASSUME IInv, NEW d \in Days, Publish(d)
    PROVE  IInv'
<1>1. /\ UNCHANGED <<today, stored, runs, lock, job>>
      /\ published' = [published EXCEPT ![d] = @ + 1]
      /\ published[d] < Len(Publications)
  BY DEF Publish
<1>2. published[d] + 1 \in PublishedRange
  BY <1>1, PublicationsAssumption, LenProperties DEF IInv, Typed, TypeOK, PublishedRange
<1>3. /\ published' \in [Days -> PublishedRange]
      /\ \A e \in Days : published[e] \in Int /\ published[e] <= published'[e]
  <2>1. published \in [Days -> PublishedRange]
    BY DEF IInv, Typed, TypeOK
  <2>2. \A e \in Days : published[e] \in Int
    BY <2>1, RangesAreIntegers
  <2>3. \A e \in Days : published'[e] = IF e = d THEN published[e] + 1 ELSE published[e]
    BY <1>1, <2>1
  <2>4. QED
    BY <1>1, <1>2, <2>1, <2>2, <2>3
<1>4. \A e \in Days, q \in Quarters : stored[e][q] \in Int /\ stored[e][q] <= published[e]
  BY RangesAreIntegers DEF IInv, Typed, TypeOK, StoredIsPublished
<1>5. TablesGrow
  BY <1>1, <1>3, <1>4 DEF TablesGrow, IInv, Typed, TypeOK
<1>6. StoredIsPublished'
  <2>1. \A e \in Days : published'[e] \in Int
    BY <1>3, RangesAreIntegers
  <2>2. QED
    BY <1>1, <1>3, <1>4, <2>1 DEF StoredIsPublished
<1>7. \A t \in Syncs : JobInv(t)'
  BY <1>1, <1>5, OtherJobs
<1>8. Typed'
  BY <1>1, <1>3 DEF IInv, Typed, TypeOK
<1>9. QED
  BY <1>6, <1>7, <1>8 DEF IInv

\* A step that touches neither prices nor jobs.
LEMMA MidnightInv ==
    ASSUME IInv, today' \in Days, UNCHANGED <<published, stored, runs, lock, job>>
    PROVE  IInv'
<1>1. TablesGrow
  BY TablesStay DEF IInv
<1>2. \A t \in Syncs : JobInv(t)'
  BY <1>1, OtherJobs
<1>3. QED
  BY <1>2 DEF IInv, Typed, TypeOK, StoredIsPublished

LEMMA CrashInv ==
    ASSUME IInv, NEW process \in Processes, Crash(process)
    PROVE  IInv'
<1>1. /\ UNCHANGED <<today, published, stored, runs>>
      /\ lock' = IF lock \in process THEN NoOne ELSE lock
      /\ job' = [s \in Syncs |-> IF s \in process THEN NoJob ELSE job[s]]
  BY DEF Crash
<1>2. TablesGrow
  BY <1>1, TablesStay DEF IInv
<1>3. Typed'
  <2>1. job' \in [Syncs -> Job] /\ lock' \in Syncs \union {NoOne}
    BY <1>1, NoJobIsJob DEF IInv, Typed
  <2>2. ASSUME NEW s \in Syncs PROVE job'[s].pc \in WithLock <=> lock' = s
    <3>1. job[s].pc \in WithLock <=> lock = s
      BY DEF IInv, Typed, TypeOK
    <3>2. NoJob.pc \notin WithLock /\ s # NoOne
      BY ProcessesAssumption DEF NoJob, WithLock
    <3>3. QED
      BY <1>1, <3>1, <3>2
  <2>3. QED
    BY <1>1, <2>1, <2>2 DEF IInv, Typed, TypeOK
<1>4. ASSUME NEW s \in Syncs PROVE JobInv(s)'
  <2>1. CASE s \in process
    <3>1. job'[s] = NoJob
      BY <1>1, <2>1
    <3>2. QED
      BY <1>3, <3>1, EndedInv DEF Typed, TypeOK
  <2>2. CASE s \notin process
    BY <1>1, <1>2, <2>2, OtherJobs
  <2>3. QED
    BY <2>1, <2>2
<1>5. QED
  BY <1>1, <1>3, <1>4 DEF IInv, StoredIsPublished

LEMMA NextInv == IInv /\ [Next]_vars => IInv'
<1> SUFFICES ASSUME IInv, [Next]_vars PROVE IInv'
  OBVIOUS
<1>1. CASE Midnight
  BY <1>1, MidnightInv DEF Midnight
<1>2. ASSUME NEW d \in Days, Publish(d) PROVE IInv'
  BY <1>2, PublishInv
<1>3. ASSUME NEW s \in Syncs, SyncMissing(s) PROVE IInv'
  BY <1>3, SyncMissingInv
<1>4. ASSUME NEW s \in Syncs, NEW from \in Days, NEW to \in Days, SyncRange(s, from, to) PROVE IInv'
  BY <1>4, SyncRangeInv
<1>5. ASSUME NEW s \in Syncs, Step(s) PROVE IInv'
  BY <1>5, AcquireInv, StartRunInv, FetchDayInv, WriteDayInv, FinishRunInv, UnlockInv DEF Step
<1>6. ASSUME NEW s \in Syncs, FetchFails(s) \/ WriteFails(s) \/ CommitFails(s) PROVE IInv'
  BY <1>6, FetchFailsInv, WriteFailsInv, CommitFailsInv
<1>7. ASSUME NEW process \in Processes, Crash(process) PROVE IInv'
  BY <1>7, CrashInv
<1>8. CASE UNCHANGED vars
  BY <1>8, MidnightInv DEF vars, IInv, Typed, TypeOK
<1>9. QED
  BY <1>1, <1>2, <1>3, <1>4, <1>5, <1>6, <1>7, <1>8 DEF Next

LEMMA SpecInv == Spec => []IInv
BY InitInv, NextInv, PTL DEF Spec

----------------------------------------------------------------------------
(* The theorems.                                                           *)

\* The tables keep their types, and at any time at most one synchronisation
\* is between Acquire and Unlock, crashes included.
THEOREM LockIsExclusive == Spec => []TypeOK
<1>1. IInv => TypeOK
  BY DEF IInv, Typed
<1>2. QED
  BY <1>1, SpecInv, PTL

\* The status of a run says what happened to its days, for any number of days,
\* chunks, publications and failures.
THEOREM StatusesAreTrue == Spec => []StatusIsTrue
<1>1. IInv => StatusIsTrue
  <2> SUFFICES ASSUME IInv, NEW s \in Syncs
               PROVE  LET j == job[s]
                      IN  /\ Finished(s, "success") => \A d \in j.requested : Holds(d, j.seen[d])
                          /\ Finished(s, "partial") => j.saved # {} /\ j.requested \ j.saved # {}
                          /\ Finished(s, "no_data") => /\ j.requested # {}
                                                       /\ \A d \in j.requested : j.seen[d] = 0
    BY DEF StatusIsTrue
  <2>1. JobInv(s)
    BY DEF IInv
  <2>2. QED
    BY <2>1 DEF JobInv, StatusOf, DaysAreAccounted
<1>2. QED
  BY <1>1, SpecInv, PTL

\* A successful run leaves no gap in its window: the requested days hold what
\* was published, and the others were complete before.
THEOREM NoGapAfterSuccess == Spec => []GapsAreFilled
<1>1. IInv => GapsAreFilled
  <2> SUFFICES ASSUME IInv, NEW s \in Syncs, Finished(s, "success"),
                      NEW d \in job[s].window, NEW q \in Quarters, q \in QuartersOf(job[s].seen[d])
               PROVE  stored[d][q] > 0
    BY DEF GapsAreFilled
  <2>1. job[s] \in Job /\ At(s, "unlock") /\ JobInv(s)
    BY DEF IInv, Typed, Finished
  <2>2. CASE d \in job[s].requested
    <3>1. Holds(d, job[s].seen[d])
      BY <2>1, <2>2 DEF JobInv, StatusOf, DaysAreAccounted
    <3>2. stored[d][q] >= job[s].seen[d]
      BY <3>1 DEF Holds
    <3>3. job[s].seen[d] # 0
      BY DEF QuartersOf
    <3>4. /\ d \in Days /\ job[s].seen[d] \in Int /\ job[s].seen[d] >= 0
          /\ stored[d][q] \in Int
      BY <2>1, PublicationsAssumption, LenProperties DEF Job, PublishedRange, IInv, Typed, TypeOK
    <3>5. QED
      BY <3>2, <3>3, <3>4
  <2>3. CASE d \notin job[s].requested
    BY <2>1, <2>3 DEF JobInv, OthersAreComplete, At
  <2>4. QED
    BY <2>2, <2>3
<1>2. QED
  BY <1>1, SpecInv, PTL

\* No price is ever replaced by an older one: the only step that writes prices
\* writes an answer that is at least as new, because the lock was held since
\* it was fetched.
THEOREM NoOlderPrice == Spec => PricesNeverGoBack
<1>1. IInv /\ [Next]_vars =>
         [\A d \in Days, q \in Quarters : stored'[d][q] >= stored[d][q]]_stored
  <2> SUFFICES ASSUME IInv, Next, stored' # stored
               PROVE  \A d \in Days, q \in Quarters : stored'[d][q] >= stored[d][q]
    BY DEF vars
  <2>1. PICK s \in Syncs : WriteDay(s)
    BY DEF Next, Midnight, Publish, SyncMissing, SyncRange, Begin, Step, Acquire, StartRun, FetchDay,
           FinishRun, Unlock, FetchFails, WriteFails, CommitFails, Crash
  <2>2. TablesGrow
    BY <2>1, WriteIsNewer
  <2>3. \A d \in Days, q \in Quarters : stored[d][q] \in Int /\ stored'[d][q] \in Int
    BY <2>2, RangesAreIntegers DEF IInv, Typed, TypeOK, TablesGrow
  <2>4. QED
    BY <2>2, <2>3 DEF TablesGrow
<1>2. QED
  BY <1>1, SpecInv, PTL DEF Spec, PricesNeverGoBack
=============================================================================
