------------------------- MODULE IngestionJobs_proofs -------------------------
(***************************************************************************)
(* The safety of the job queue for any number of workers, jobs, documents, *)
(* attempts and any lease time.                                            *)
(*                                                                         *)
(* The invariants of IngestionJobs about rows are inductive only together: *)
(* SoundRow is their conjunction.  That stale attempts are powerless needs *)
(* more: whoever owns a row holds the handle of its current attempt.       *)
(***************************************************************************)
EXTENDS IngestionJobs, TLAPS

-----------------------------------------------------------------------------
(***************************************************************************)
(* Every operation on a row of ingestion_jobs takes a sound row to a sound *)
(* row and never moves it back.  The lemmas are about single rows, so the  *)
(* state machines that hold rows cite them instead of the operations.      *)
(*                                                                         *)
(* Each proof has the same shape: the new row has the type of a row, its   *)
(* fields are these, so it is sound and moved forward.                     *)
(***************************************************************************)

(* What holds of every row at all times. *)
SoundRow(job) ==
    /\ job \in JobRow
    /\ job.owner # NoOwner <=> job.status \in Active
    /\ job.left > 0 => job.status \in Active
    /\ job.attempts <= Limit(job)
    /\ job.status \in Waiting => job.attempts < Limit(job)
    /\ job.cancel => job.status \in Active \cup {"cancelled", "failed"}
    /\ job.status = "absent" => job.attempts = 0

(* What holds between a row and the same row one operation later. *)
Forward(job, next) ==
    /\ job.status \in Terminal => next.status = job.status
    /\ job.status # "absent" => next.progress >= job.progress

(* No operation but lease_next gives a row an owner or counts an attempt.  *)
KeepsOwner(job, next) ==
    next.owner # NoOwner => /\ next.owner = job.owner
                            /\ next.attempts = job.attempts

-----------------------------------------------------------------------------
(* The numbers of a row. *)
LEMMA RowNumbers ==
    ASSUME NEW job \in JobRow
    PROVE  /\ job.left \in Nat /\ job.wait \in Nat
           /\ job.attempts \in Nat /\ job.progress \in Nat
           /\ job.progress <= Done
           /\ Limit(job) \in Nat /\ Limit(job) > 0
BY DoneAssumption, LimitAssumption DEF JobRow, Limit

(* A timer stays a number and never grows by itself. *)
LEMMA CountdownShrinks ==
    ASSUME NEW n \in Nat
    PROVE  Countdown(n) \in Nat /\ Countdown(n) <= n
BY DEF Countdown

(* enqueue inserts a sound row. *)
LEMMA NewJobSound ==
    ASSUME NEW type \in JobType, NEW doc \in Doc
    PROVE  SoundRow(NewJob(type, doc)) /\ NewJob(type, doc).owner = NoOwner
<1>1. NewJob(type, doc) \in JobRow
  BY DoneAssumption DEF NewJob, JobRow, JobStatus, Waiting
<1> QED
  BY <1>1, RowNumbers DEF SoundRow, NewJob, Active, Waiting

(* A row that has not been inserted is sound. *)
LEMMA AbsentRowSound ==
    ASSUME NEW doc \in Doc
    PROVE  SoundRow(AbsentRow(doc)) /\ AbsentRow(doc).owner = NoOwner
<1>1. NewJob("ingest", doc) \in JobRow
  BY NewJobSound DEF SoundRow, JobType
<1>2. AbsentRow(doc) \in JobRow
  BY <1>1 DEF AbsentRow, JobRow, JobStatus
<1>3. /\ AbsentRow(doc).status = "absent"
      /\ AbsentRow(doc).owner = NoOwner
      /\ AbsentRow(doc).left = 0
      /\ AbsentRow(doc).attempts = 0
      /\ AbsentRow(doc).cancel = FALSE
  BY DEF AbsentRow, NewJob
<1> QED
  BY <1>2, <1>3, RowNumbers DEF SoundRow, Active, Waiting

(* lease_next spends one of the attempts a waiting row still has. *)
LEMMA LeasedSound ==
    ASSUME NEW job, SoundRow(job), NEW type, Leasable(job, type),
           NEW w \in Worker
    PROVE  SoundRow(Leased(job, w)) /\ Forward(job, Leased(job, w))
<1>1. job \in JobRow
  BY DEF SoundRow
<1>2. Leased(job, w) \in JobRow
  <2>1. job.attempts + 1 \in Nat /\ LeaseFor \in Nat
    BY <1>1, RowNumbers, TimeAssumption
  <2> QED BY <1>1, <2>1 DEF Leased, JobRow, JobStatus, Active
<1>3. /\ Leased(job, w).left = LeaseFor
      /\ Leased(job, w).type = job.type
      /\ Leased(job, w).owner = w
      /\ Leased(job, w).status = "leased"
      /\ Leased(job, w).attempts = job.attempts + 1
      /\ Leased(job, w).progress = job.progress
      /\ Leased(job, w).cancel = job.cancel
  BY <1>1 DEF Leased, JobRow
<1>4. SoundRow(Leased(job, w))
  BY <1>1, <1>2, <1>3, RowNumbers, TimeAssumption, NoOwnerAssumption DEF SoundRow, Limit, Leasable, Active, Waiting, Terminal
<1>5. Forward(job, Leased(job, w))
  BY <1>1, <1>3, RowNumbers DEF Forward, Leasable, Active, Waiting, Terminal
<1> QED BY <1>4, <1>5

(* start leaves the lease as it is. *)
LEMMA StartedSound ==
    ASSUME NEW job, SoundRow(job), NEW w \in Worker, OwnedActive(job, w)
    PROVE  SoundRow(Started(job)) /\ Forward(job, Started(job))
<1>1. job \in JobRow
  BY DEF SoundRow
<1>2. Started(job) \in JobRow
  BY <1>1 DEF Started, JobRow, JobStatus, Active
<1>3. /\ Started(job).left = job.left
      /\ Started(job).type = job.type
      /\ Started(job).owner = job.owner
      /\ Started(job).status = "running"
      /\ Started(job).attempts = job.attempts
      /\ Started(job).progress = job.progress
      /\ Started(job).cancel = job.cancel
  BY <1>1 DEF Started, JobRow
<1>4. SoundRow(Started(job))
  BY <1>1, <1>2, <1>3, RowNumbers DEF SoundRow, Limit, OwnedActive, Active, Waiting, Terminal
<1>5. Forward(job, Started(job))
  BY <1>1, <1>3, RowNumbers DEF Forward, OwnedActive, Active, Waiting, Terminal
<1> QED BY <1>4, <1>5

(* heartbeat and checkpoint renew the lease of an active row. *)
LEMMA RenewedSound ==
    ASSUME NEW job, SoundRow(job), job.status \in Active,
           NEW progress \in 0 .. Done, progress >= job.progress
    PROVE  SoundRow(Renewed(job, progress)) /\ Forward(job, Renewed(job, progress))
<1>1. job \in JobRow
  BY DEF SoundRow
<1>2. Renewed(job, progress) \in JobRow
  BY <1>1, TimeAssumption DEF Renewed, JobRow
<1>3. /\ Renewed(job, progress).left = LeaseFor
      /\ Renewed(job, progress).type = job.type
      /\ Renewed(job, progress).owner = job.owner
      /\ Renewed(job, progress).status = job.status
      /\ Renewed(job, progress).attempts = job.attempts
      /\ Renewed(job, progress).progress = progress
      /\ Renewed(job, progress).cancel = job.cancel
  BY <1>1 DEF Renewed, JobRow
<1>4. SoundRow(Renewed(job, progress))
  BY <1>1, <1>2, <1>3, RowNumbers, TimeAssumption DEF SoundRow, Limit, Active, Waiting, Terminal
<1>5. Forward(job, Renewed(job, progress))
  BY <1>1, <1>3, RowNumbers DEF Forward, Active, Waiting, Terminal
<1> QED BY <1>4, <1>5

(* fail and the acknowledgement of a cancellation end an active row. *)
LEMMA ReleasedSound ==
    ASSUME NEW job, SoundRow(job), job.status \in Active,
           NEW status \in {"failed", "cancelled"}
    PROVE  SoundRow(Released(job, status)) /\ Forward(job, Released(job, status))
<1>1. job \in JobRow
  BY DEF SoundRow
<1>2. Released(job, status) \in JobRow
  BY <1>1 DEF Released, JobRow, JobStatus, Terminal
<1>3. /\ Released(job, status).left = 0
      /\ Released(job, status).type = job.type
      /\ Released(job, status).owner = NoOwner
      /\ Released(job, status).status = status
      /\ Released(job, status).attempts = job.attempts
      /\ Released(job, status).progress = job.progress
      /\ Released(job, status).cancel = job.cancel
  BY <1>1 DEF Released, JobRow
<1>4. SoundRow(Released(job, status))
  BY <1>1, <1>2, <1>3, RowNumbers DEF SoundRow, Limit, Active, Waiting, Terminal
<1>5. Forward(job, Released(job, status))
  BY <1>1, <1>3, RowNumbers DEF Forward, Active, Waiting, Terminal
<1> QED BY <1>4, <1>5

(* checkpoint acknowledges a cancellation or renews. *)
LEMMA CheckpointedSound ==
    ASSUME NEW job, SoundRow(job), NEW w \in Worker,
           NEW progress \in 0 .. Done, CheckpointAccepts(job, w, progress)
    PROVE  /\ SoundRow(Checkpointed(job, progress))
           /\ Forward(job, Checkpointed(job, progress))
<1>1. job.status \in Active
  BY DEF CheckpointAccepts, OwnedRunning, OwnedActive
<1>2. CASE job.cancel
  BY <1>1, <1>2, ReleasedSound DEF Checkpointed
<1>3. CASE ~job.cancel
  <2>1. progress >= job.progress
    BY <1>3 DEF CheckpointAccepts
  <2> QED BY <1>1, <1>3, <2>1, RenewedSound DEF Checkpointed
<1> QED BY <1>2, <1>3

(* succeed needs the cancellation flag to be down. *)
LEMMA SucceededSound ==
    ASSUME NEW job, SoundRow(job), NEW w \in Worker, OwnedUncancelled(job, w)
    PROVE  SoundRow(Succeeded(job)) /\ Forward(job, Succeeded(job))
<1>1. job \in JobRow
  BY DEF SoundRow
<1>2. Succeeded(job) \in JobRow
  <2>1. Done \in 0 .. Done
    BY DoneAssumption
  <2>2. Released(job, "succeeded") \in JobRow
    BY <1>1 DEF Released, JobRow, JobStatus, Terminal
  <2> QED BY <2>1, <2>2 DEF Succeeded, JobRow
<1>3. /\ Succeeded(job).left = 0
      /\ Succeeded(job).type = job.type
      /\ Succeeded(job).owner = NoOwner
      /\ Succeeded(job).status = "succeeded"
      /\ Succeeded(job).attempts = job.attempts
      /\ Succeeded(job).progress = Done
      /\ Succeeded(job).cancel = job.cancel
  BY <1>1 DEF Succeeded, Released, JobRow
<1>4. SoundRow(Succeeded(job))
  BY <1>1, <1>2, <1>3, RowNumbers, DoneAssumption DEF SoundRow, Limit, OwnedUncancelled,
         OwnedRunning, OwnedActive, Active, Waiting, Terminal
<1>5. Forward(job, Succeeded(job))
  BY <1>1, <1>3, RowNumbers DEF Forward, OwnedUncancelled,
         OwnedRunning, OwnedActive, Active, Waiting, Terminal
<1> QED BY <1>4, <1>5

(* An active row with an attempt left may go back to waiting. *)
LEMMA GivenBackSound ==
    ASSUME NEW job, SoundRow(job), job.status \in Active, ~job.cancel,
           job.attempts < Limit(job), NEW delay \in Nat
    PROVE  LET next == [Released(job, "retry_wait") EXCEPT !.wait = delay]
           IN  SoundRow(next) /\ Forward(job, next)
<1> DEFINE next == [Released(job, "retry_wait") EXCEPT !.wait = delay]
<1>1. job \in JobRow
  BY DEF SoundRow
<1>2. next \in JobRow
  BY <1>1 DEF Released, JobRow, JobStatus, Waiting
<1>3. /\ next.left = 0
      /\ next.type = job.type
      /\ next.owner = NoOwner
      /\ next.status = "retry_wait"
      /\ next.attempts = job.attempts
      /\ next.progress = job.progress
      /\ next.cancel = job.cancel
  BY <1>1 DEF Released, JobRow
<1> HIDE DEF next
<1>4. SoundRow(next)
  BY <1>1, <1>2, <1>3, RowNumbers DEF SoundRow, Limit, Active, Waiting
<1>5. Forward(job, next)
  BY <1>1, <1>3, RowNumbers DEF Forward, Active, Terminal
<1> QED BY <1>4, <1>5 DEF next

(* retry goes back to waiting only while an attempt is left. *)
LEMMA RetriedSound ==
    ASSUME NEW job, SoundRow(job), NEW w \in Worker, OwnedUncancelled(job, w)
    PROVE  SoundRow(Retried(job)) /\ Forward(job, Retried(job))
<1>1. job.status \in Active /\ ~job.cancel
  BY DEF OwnedUncancelled, OwnedRunning, OwnedActive
<1>2. job.attempts \in Nat /\ Limit(job) \in Nat
  BY RowNumbers DEF SoundRow
<1>3. CASE job.attempts >= Limit(job)
  BY <1>1, <1>3, ReleasedSound DEF Retried
<1>4. CASE ~(job.attempts >= Limit(job))
  BY <1>1, <1>2, <1>4, GivenBackSound, TimeAssumption DEF Retried
<1> QED BY <1>3, <1>4

(* request_cancel ends a waiting row and flags an active one. *)
LEMMA CancelRequestedSound ==
    ASSUME NEW job, SoundRow(job), Cancellable(job)
    PROVE  SoundRow(CancelRequested(job)) /\ Forward(job, CancelRequested(job))
<1>1. job \in JobRow
  BY DEF SoundRow
<1>2. CancelRequested(job) \in JobRow
  BY <1>1 DEF CancelRequested, JobRow, JobStatus, Terminal
<1>3. /\ CancelRequested(job).left = job.left
      /\ CancelRequested(job).type = job.type
      /\ CancelRequested(job).owner = job.owner
      /\ CancelRequested(job).attempts = job.attempts
      /\ CancelRequested(job).progress = job.progress
  BY <1>1 DEF CancelRequested, JobRow
<1>4. \/ /\ job.status \in Waiting
         /\ CancelRequested(job).status = "cancelled"
      \/ /\ job.status \in Active
         /\ CancelRequested(job).status = job.status
  BY <1>1 DEF CancelRequested, Cancellable, JobRow
<1>5. SoundRow(CancelRequested(job))
  BY <1>1, <1>2, <1>3, <1>4, RowNumbers DEF SoundRow, Limit, Active, Waiting
<1>6. Forward(job, CancelRequested(job))
  BY <1>1, <1>3, <1>4, RowNumbers DEF Forward, Active, Waiting, Terminal
<1> QED BY <1>5, <1>6

(* request_delete does the same and leaves finished rows alone. *)
LEMMA CancelledByDeletionSound ==
    ASSUME NEW job, SoundRow(job)
    PROVE  /\ SoundRow(CancelledByDeletion(job))
           /\ Forward(job, CancelledByDeletion(job))
<1> DEFINE next == CancelledByDeletion(job)
<1>1. job \in JobRow
  BY DEF SoundRow
<1>2. CASE job.status \in Waiting \cup Active
  <2>1. next \in JobRow
    BY <1>1, <1>2
    DEF CancelledByDeletion, JobRow, JobStatus, Waiting, Active, Terminal
  <2>2. /\ next.left = job.left
        /\ next.type = job.type
        /\ next.owner = job.owner
        /\ next.attempts = job.attempts
        /\ next.progress = job.progress
    BY <1>1, <1>2 DEF CancelledByDeletion, JobRow, Waiting, Active
  <2>3. next.status = IF job.status \in Waiting THEN "cancelled" ELSE job.status
    BY <1>1, <1>2 DEF CancelledByDeletion, JobRow, Waiting, Active
  <2> HIDE DEF next
  <2>4. SoundRow(next)
    BY <1>1, <1>2, <2>1, <2>2, <2>3, RowNumbers
    DEF SoundRow, Limit, Waiting, Active
  <2>5. Forward(job, next)
    BY <1>1, <1>2, <2>2, <2>3, RowNumbers DEF Forward, Waiting, Active, Terminal
  <2> QED BY <2>4, <2>5 DEF next
<1>3. CASE job.status \notin Waiting \cup Active
  <2>1. next = job
    BY <1>3 DEF CancelledByDeletion
  <2> QED BY <1>1, <2>1, RowNumbers DEF Forward
<1> QED BY <1>2, <1>3

(* recover_expired honours the cancellation first, then the limit. *)
LEMMA RecoveredSound ==
    ASSUME NEW job, SoundRow(job), Expired(job)
    PROVE  SoundRow(Recovered(job)) /\ Forward(job, Recovered(job))
<1>1. job.status \in Active
  BY DEF Expired
<1>2. job.attempts \in Nat /\ Limit(job) \in Nat
  BY RowNumbers DEF SoundRow
<1>3. CASE job.cancel
  BY <1>1, <1>3, ReleasedSound DEF Recovered
<1>4. CASE ~job.cancel /\ job.attempts >= Limit(job)
  BY <1>1, <1>4, ReleasedSound DEF Recovered
<1>5. CASE ~job.cancel /\ ~(job.attempts >= Limit(job))
  BY <1>1, <1>2, <1>5, GivenBackSound DEF Recovered
<1> QED BY <1>3, <1>4, <1>5

(* Time never takes a row out of a status or gives a lease. *)
LEMMA AgedSound ==
    ASSUME NEW job, SoundRow(job)
    PROVE  SoundRow(Aged(job)) /\ Forward(job, Aged(job))
<1>1. job \in JobRow
  BY DEF SoundRow
<1>2. /\ Countdown(job.left) \in Nat /\ Countdown(job.left) <= job.left
      /\ Countdown(job.wait) \in Nat
  BY <1>1, CountdownShrinks DEF JobRow
<1>3. Aged(job) \in JobRow
  BY <1>1, <1>2 DEF Aged, JobRow
<1>4. /\ Aged(job).left = Countdown(job.left)
      /\ Aged(job).type = job.type
      /\ Aged(job).owner = job.owner
      /\ Aged(job).status = job.status
      /\ Aged(job).attempts = job.attempts
      /\ Aged(job).progress = job.progress
      /\ Aged(job).cancel = job.cancel
  BY <1>1 DEF Aged, JobRow
<1>5. SoundRow(Aged(job))
  BY <1>1, <1>2, <1>3, <1>4, RowNumbers DEF SoundRow, Limit
<1>6. Forward(job, Aged(job))
  BY <1>1, <1>4, RowNumbers DEF Forward
<1> QED BY <1>5, <1>6

-----------------------------------------------------------------------------
(* A row that is left alone has moved forward and kept its owner. *)
LEMMA Unmoved ==
    ASSUME NEW job \in JobRow
    PROVE  Forward(job, job) /\ KeepsOwner(job, job)
BY RowNumbers DEF Forward, KeepsOwner

(* The operations that keep the lease. *)
LEMMA OwnerUnchanged ==
    ASSUME NEW job \in JobRow, NEW progress
    PROVE  /\ Started(job).owner = job.owner
           /\ Started(job).attempts = job.attempts
           /\ Renewed(job, progress).owner = job.owner
           /\ Renewed(job, progress).attempts = job.attempts
           /\ CancelRequested(job).owner = job.owner
           /\ CancelRequested(job).attempts = job.attempts
           /\ CancelledByDeletion(job).owner = job.owner
           /\ CancelledByDeletion(job).attempts = job.attempts
           /\ Aged(job).owner = job.owner
           /\ Aged(job).attempts = job.attempts
<1>1. /\ Started(job).owner = job.owner
      /\ Started(job).attempts = job.attempts
      /\ Renewed(job, progress).owner = job.owner
      /\ Renewed(job, progress).attempts = job.attempts
      /\ Aged(job).owner = job.owner
      /\ Aged(job).attempts = job.attempts
  BY DEF Started, Renewed, Aged, JobRow
<1>2. /\ CancelRequested(job).owner = job.owner
      /\ CancelRequested(job).attempts = job.attempts
  BY DEF CancelRequested, JobRow
<1>3. CASE job.status \in Waiting \cup Active
  BY <1>1, <1>2, <1>3 DEF CancelledByDeletion, JobRow, Waiting, Active
<1>4. CASE job.status \notin Waiting \cup Active
  BY <1>1, <1>2, <1>4 DEF CancelledByDeletion
<1> QED BY <1>3, <1>4

(* The operations that give the lease back. *)
LEMMA OwnerCleared ==
    ASSUME NEW job \in JobRow, NEW status
    PROVE  /\ Released(job, status).owner = NoOwner
           /\ Succeeded(job).owner = NoOwner
           /\ Retried(job).owner = NoOwner
           /\ Recovered(job).owner = NoOwner
BY DEF Released, Succeeded, Retried, Recovered, JobRow
-----------------------------------------------------------------------------

(* A process executing a job whose row names it executes the attempt the   *)
(* row counts.                                                             *)
HandlesCurrent ==
    \A w \in Worker, j \in JobId :
        held[w].job = j /\ jobs[j].owner = w
            => held[w].attempt = jobs[j].attempts

IInv ==
    /\ TypeOK
    /\ \A j \in JobId : SoundRow(jobs[j])
    /\ HandlesCurrent

(* A step moves no row back. *)
RowsForward == \A j \in JobId : Forward(jobs[j], jobs'[j])

(* A step takes no live lease away but from its holder, by the holder.     *)
LeasesRespected ==
    \A j \in JobId :
        jobs[j].left > 0 /\ jobs'[j].owner # jobs[j].owner
            => \E w \in Worker : /\ w = jobs[j].owner
                                 /\ held[w].job = j
                                 /\ held'[w].job # j

Good == IInv' /\ RowsForward /\ LeasesRespected

-----------------------------------------------------------------------------
(* An idle worker has a handle of the right type that names no job. *)
LEMMA IdleHandle == Idle \in Handle /\ \A j \in JobId : Idle.job # j
BY NoJobAssumption DEF Idle, Handle

(* A step other than lease_next, whatever rows it changes. *)
LEMMA RowsStep ==
    ASSUME IInv,
           jobs' \in [JobId -> JobRow],
           \A k \in JobId : /\ SoundRow(jobs'[k])
                            /\ Forward(jobs[k], jobs'[k])
                            /\ KeepsOwner(jobs[k], jobs'[k]),
           held' \in [Worker -> Handle],
           \A w \in Worker : held'[w] \in {held[w], Idle},
           LeasesRespected
    PROVE  Good
<1>1. HandlesCurrent'
  BY IdleHandle, NoOwnerAssumption DEF IInv, HandlesCurrent, KeepsOwner
<1> QED BY <1>1 DEF Good, IInv, TypeOK, RowsForward

(* The same for a step that changes one row. *)
LEMMA OneRowStep ==
    ASSUME IInv, NEW j \in JobId, NEW row,
           jobs' = [jobs EXCEPT ![j] = row],
           SoundRow(row), Forward(jobs[j], row), KeepsOwner(jobs[j], row),
           held' \in [Worker -> Handle],
           \A w \in Worker : held'[w] \in {held[w], Idle},
           \/ row.owner = jobs[j].owner
           \/ jobs[j].left = 0
           \/ \E w \in Worker : /\ w = jobs[j].owner
                                /\ held[w].job = j
                                /\ held'[w] = Idle
    PROVE  Good
<1>1. jobs' \in [JobId -> JobRow] /\ jobs'[j] = row
  BY DEF IInv, TypeOK, SoundRow
<1>2. \A k \in JobId : k # j => jobs'[k] = jobs[k]
  BY DEF IInv, TypeOK
<1>3. \A k \in JobId : SoundRow(jobs'[k])
  BY <1>1, <1>2 DEF IInv
<1>4. \A k \in JobId : /\ Forward(jobs[k], jobs'[k])
                       /\ KeepsOwner(jobs[k], jobs'[k])
  BY <1>1, <1>2, Unmoved DEF IInv, SoundRow
<1>5. LeasesRespected
  BY <1>1, <1>2, IdleHandle DEF LeasesRespected
<1> QED BY <1>1, <1>3, <1>4, <1>5, RowsStep

(* A worker ends its execution of a job: its row is given back. *)
LEMMA EndStep ==
    ASSUME IInv, NEW w \in Worker, NEW j \in JobId, NEW row,
           held[w].job = j, OwnedActive(jobs[j], w),
           SoundRow(row), Forward(jobs[j], row), row.owner = NoOwner,
           jobs' = [jobs EXCEPT ![j] = row],
           held' = [held EXCEPT ![w] = Idle]
    PROVE  Good
<1>1. KeepsOwner(jobs[j], row)
  BY DEF KeepsOwner
<1>2. /\ held' \in [Worker -> Handle]
      /\ \A v \in Worker : held'[v] \in {held[v], Idle}
      /\ held'[w] = Idle
  BY IdleHandle DEF IInv, TypeOK
<1>3. w = jobs[j].owner
  BY DEF OwnedActive
<1> QED BY <1>1, <1>2, <1>3, OneRowStep

(* A worker renews or starts its job and goes on. *)
LEMMA ContinueStep ==
    ASSUME IInv, NEW j \in JobId, NEW row,
           SoundRow(row), Forward(jobs[j], row),
           row.owner = jobs[j].owner, row.attempts = jobs[j].attempts,
           jobs' = [jobs EXCEPT ![j] = row],
           UNCHANGED held
    PROVE  Good
<1>1. KeepsOwner(jobs[j], row)
  BY DEF KeepsOwner
<1>2. held' \in [Worker -> Handle] /\ \A w \in Worker : held'[w] = held[w]
  BY DEF IInv, TypeOK
<1> QED BY <1>1, <1>2, OneRowStep

-----------------------------------------------------------------------------
(* One lemma per action of Next. *)

(* Inserting a row that was absent. *)
LEMMA EnqueueGood ==
    ASSUME IInv, NEW j \in JobId, NEW type \in JobType, NEW doc \in Doc,
           Enqueue(j, type, doc)
    PROVE  Good
<1> DEFINE row == NewJob(type, doc)
<1>1. SoundRow(row) /\ row.owner = NoOwner
  BY NewJobSound
<1>2. jobs[j] \in JobRow /\ jobs[j].status = "absent"
  BY DEF IInv, TypeOK, Enqueue
<1>3. Forward(jobs[j], row)
  BY <1>2 DEF Forward, Terminal
<1>4. KeepsOwner(jobs[j], row)
  BY <1>1 DEF KeepsOwner
<1>5. jobs[j].left = 0
  BY <1>2, RowNumbers DEF IInv, SoundRow, Active
<1>6. /\ held' \in [Worker -> Handle]
      /\ \A w \in Worker : held'[w] = held[w]
      /\ jobs' = [jobs EXCEPT ![j] = row]
  BY DEF Enqueue, IInv, TypeOK
<1> HIDE DEF row
<1> QED BY <1>1, <1>3, <1>4, <1>5, <1>6, OneRowStep

(* Leasing: the handle takes the attempt number of the row. *)
LEMMA LeaseNextGood ==
    ASSUME IInv, NEW w \in Worker, NEW type, NEW j \in JobId,
           LeaseNext(w, type, j)
    PROVE  Good
<1> DEFINE row == Leased(jobs[j], w)
<1>1. jobs[j] \in JobRow /\ SoundRow(jobs[j]) /\ Leasable(jobs[j], type)
  BY DEF IInv, TypeOK, LeaseNext
<1>2. SoundRow(row) /\ Forward(jobs[j], row)
  BY <1>1, LeasedSound
<1>3. row.owner = w
  BY <1>1 DEF Leased, JobRow
<1>4. /\ jobs' = [jobs EXCEPT ![j] = row]
      /\ held' = [held EXCEPT ![w] = [job |-> j, attempt |-> row.attempts]]
      /\ held[w] = Idle
  BY <1>1 DEF LeaseNext, IInv, TypeOK
<1>5. jobs[j].left = 0
  BY <1>1, RowNumbers DEF SoundRow, Leasable, Active, Waiting
<1> HIDE DEF row
<1>6. jobs'[j] = row /\ \A k \in JobId : k # j => jobs'[k] = jobs[k]
  BY <1>4 DEF IInv, TypeOK
<1>7. row \in JobRow /\ row.attempts \in Nat
  BY <1>2, RowNumbers DEF SoundRow
<1>8. TypeOK'
  <2>1. jobs' \in [JobId -> JobRow]
    BY <1>4, <1>7 DEF IInv, TypeOK
  <2>2. [job |-> j, attempt |-> row.attempts] \in Handle
    BY <1>7 DEF Handle
  <2>3. held' \in [Worker -> Handle]
    BY <1>4, <2>2 DEF IInv, TypeOK
  <2> QED BY <2>1, <2>3 DEF TypeOK
<1>9. \A k \in JobId : SoundRow(jobs'[k])
  BY <1>2, <1>6 DEF IInv
<1>10. RowsForward
  BY <1>2, <1>6, Unmoved DEF RowsForward, IInv, SoundRow
<1>11. LeasesRespected
  BY <1>5, <1>6, <1>7, RowNumbers DEF LeasesRespected, IInv, SoundRow
<1>12. HandlesCurrent'
  <2> SUFFICES ASSUME NEW v \in Worker, NEW k \in JobId,
                      held'[v].job = k, jobs'[k].owner = v
               PROVE  held'[v].attempt = jobs'[k].attempts
    BY DEF HandlesCurrent
  <2>1. CASE v = w
    <3>1. held'[v] = [job |-> j, attempt |-> row.attempts]
      BY <1>4, <2>1 DEF IInv, TypeOK
    <3> QED BY <1>6, <3>1
  <2>2. CASE v # w
    <3>1. held'[v] = held[v]
      BY <1>4, <2>2 DEF IInv, TypeOK
    <3>2. k # j
      BY <1>3, <1>6, <2>2
    <3> QED BY <1>6, <3>1, <3>2 DEF IInv, HandlesCurrent
  <2> QED BY <2>1, <2>2
<1> QED BY <1>8, <1>9, <1>10, <1>11, <1>12 DEF Good, IInv

(* leased becomes running under the same lease. *)
LEMMA StartGood ==
    ASSUME IInv, NEW w \in Worker, NEW j \in JobId, Start(w, j)
    PROVE  Good
<1>1. jobs[j] \in JobRow /\ SoundRow(jobs[j]) /\ OwnedActive(jobs[j], w)
  BY DEF IInv, TypeOK, Start
<1>2. jobs' = [jobs EXCEPT ![j] = Started(jobs[j])] /\ UNCHANGED held
  BY DEF Start
<1> QED BY <1>1, <1>2, StartedSound, OwnerUnchanged, ContinueStep

(* A heartbeat renews and may raise progress. *)
LEMMA HeartbeatGood ==
    ASSUME IInv, NEW w \in Worker, NEW j \in JobId, NEW progress \in 0 .. Done,
           Heartbeat(w, j, progress)
    PROVE  Good
<1>1. /\ jobs[j] \in JobRow /\ SoundRow(jobs[j])
      /\ jobs[j].status \in Active /\ progress >= jobs[j].progress
  BY DEF IInv, TypeOK, Heartbeat, HeartbeatAccepts, OwnedActive
<1>2. jobs' = [jobs EXCEPT ![j] = Renewed(jobs[j], progress)] /\ UNCHANGED held
  BY DEF Heartbeat
<1> QED BY <1>1, <1>2, RenewedSound, OwnerUnchanged, ContinueStep

(* A checkpoint renews the lease or acknowledges a cancellation. *)
LEMMA CheckpointGood ==
    ASSUME IInv, NEW w \in Worker, NEW j \in JobId, NEW progress \in 0 .. Done,
           Checkpoint(w, j, progress)
    PROVE  Good
<1> DEFINE row == Checkpointed(jobs[j], progress)
<1>1. /\ jobs[j] \in JobRow /\ SoundRow(jobs[j])
      /\ held[w].job = j
      /\ CheckpointAccepts(jobs[j], w, progress)
      /\ OwnedActive(jobs[j], w)
  BY DEF IInv, TypeOK, Checkpoint, CheckpointAccepts, OwnedRunning
<1>2. SoundRow(row) /\ Forward(jobs[j], row)
  BY <1>1, CheckpointedSound
<1>3. jobs' = [jobs EXCEPT ![j] = row]
  BY DEF Checkpoint
<1>4. CASE jobs[j].cancel
  <2>1. row.owner = NoOwner
    BY <1>1, <1>4, OwnerCleared DEF Checkpointed
  <2>2. held' = [held EXCEPT ![w] = Idle]
    BY <1>4 DEF Checkpoint
  <2> HIDE DEF row
  <2> QED BY <1>1, <1>2, <1>3, <2>1, <2>2, EndStep
<1>5. CASE ~jobs[j].cancel
  <2>1. row.owner = jobs[j].owner /\ row.attempts = jobs[j].attempts
    BY <1>1, <1>5, OwnerUnchanged DEF Checkpointed
  <2>2. UNCHANGED held
    BY <1>5 DEF Checkpoint
  <2> HIDE DEF row
  <2> QED BY <1>1, <1>2, <1>3, <2>1, <2>2, ContinueStep
<1> QED BY <1>4, <1>5

(* The owner ends the job with success. *)
LEMMA SucceedGood ==
    ASSUME IInv, NEW w \in Worker, NEW j \in JobId, Succeed(w, j)
    PROVE  Good
<1>1. /\ jobs[j] \in JobRow /\ SoundRow(jobs[j])
      /\ OwnedUncancelled(jobs[j], w)
      /\ OwnedActive(jobs[j], w)
      /\ held[w].job = j
      /\ jobs' = [jobs EXCEPT ![j] = Succeeded(jobs[j])]
      /\ held' = [held EXCEPT ![w] = Idle]
  BY DEF IInv, TypeOK, Succeed, OwnedUncancelled, OwnedRunning
<1> QED BY <1>1, SucceededSound, OwnerCleared, EndStep

(* The owner gives the job back or spends its last attempt. *)
LEMMA RetryGood ==
    ASSUME IInv, NEW w \in Worker, NEW j \in JobId, Retry(w, j)
    PROVE  Good
<1>1. /\ jobs[j] \in JobRow /\ SoundRow(jobs[j])
      /\ OwnedUncancelled(jobs[j], w)
      /\ OwnedActive(jobs[j], w)
      /\ held[w].job = j
      /\ jobs' = [jobs EXCEPT ![j] = Retried(jobs[j])]
      /\ held' = [held EXCEPT ![w] = Idle]
  BY DEF IInv, TypeOK, Retry, OwnedUncancelled, OwnedRunning
<1> QED BY <1>1, RetriedSound, OwnerCleared, EndStep

(* The owner ends the job as failed. *)
LEMMA FailGood ==
    ASSUME IInv, NEW w \in Worker, NEW j \in JobId, Fail(w, j)
    PROVE  Good
<1>1. /\ jobs[j] \in JobRow /\ SoundRow(jobs[j])
      /\ jobs[j].status \in Active
      /\ OwnedActive(jobs[j], w)
      /\ held[w].job = j
      /\ jobs' = [jobs EXCEPT ![j] = Released(jobs[j], "failed")]
      /\ held' = [held EXCEPT ![w] = Idle]
  BY DEF IInv, TypeOK, Fail, OwnedRunning, OwnedActive
<1> QED BY <1>1, ReleasedSound, OwnerCleared, EndStep

(* The owner ends a job whose cancellation was requested. *)
LEMMA AcknowledgeCancelGood ==
    ASSUME IInv, NEW w \in Worker, NEW j \in JobId, AcknowledgeCancel(w, j)
    PROVE  Good
<1>1. /\ jobs[j] \in JobRow /\ SoundRow(jobs[j])
      /\ jobs[j].status \in Active
      /\ OwnedActive(jobs[j], w)
      /\ held[w].job = j
      /\ jobs' = [jobs EXCEPT ![j] = Released(jobs[j], "cancelled")]
      /\ held' = [held EXCEPT ![w] = Idle]
  BY DEF IInv, TypeOK, AcknowledgeCancel, OwnedActive
<1> QED BY <1>1, ReleasedSound, OwnerCleared, EndStep

(* A waiting row is cancelled, a held one flagged. *)
LEMMA RequestCancelGood ==
    ASSUME IInv, NEW j \in JobId, RequestCancel(j)
    PROVE  Good
<1>1. /\ jobs[j] \in JobRow /\ SoundRow(jobs[j])
      /\ Cancellable(jobs[j])
      /\ jobs' = [jobs EXCEPT ![j] = CancelRequested(jobs[j])]
      /\ UNCHANGED held
  BY DEF IInv, TypeOK, RequestCancel
<1> QED BY <1>1, CancelRequestedSound, OwnerUnchanged, ContinueStep

(* The actions that may change many rows leave every handle alone. *)
LEMMA ManyRowsStep ==
    ASSUME IInv,
           jobs' \in [JobId -> JobRow],
           \A k \in JobId : /\ SoundRow(jobs'[k])
                            /\ Forward(jobs[k], jobs'[k])
                            /\ KeepsOwner(jobs[k], jobs'[k])
                            /\ jobs'[k].owner = jobs[k].owner \/ jobs[k].left = 0,
           UNCHANGED held
    PROVE  Good
<1>1. /\ held' \in [Worker -> Handle]
      /\ \A w \in Worker : held'[w] \in {held[w], Idle}
  BY DEF IInv, TypeOK
<1>2. LeasesRespected
  BY DEF LeasesRespected
<1> QED BY <1>1, <1>2, RowsStep

(* Every ingest row of a document is cancelled or flagged at once. *)
LEMMA CancelForDeletionGood ==
    ASSUME IInv, NEW d \in Doc, CancelForDeletion(d)
    PROVE  Good
<1>1. \A k \in JobId : jobs[k] \in JobRow /\ SoundRow(jobs[k])
  BY DEF IInv, TypeOK
<1>2. \A k \in JobId : jobs'[k] \in {jobs[k], CancelledByDeletion(jobs[k])}
  BY DEF CancelForDeletion
<1>3. \A k \in JobId : /\ SoundRow(jobs'[k])
                       /\ Forward(jobs[k], jobs'[k])
                       /\ KeepsOwner(jobs[k], jobs'[k])
                       /\ jobs'[k].owner = jobs[k].owner
  BY <1>1, <1>2, Unmoved, CancelledByDeletionSound, OwnerUnchanged
  DEF KeepsOwner
<1>4. jobs' \in [JobId -> JobRow]
  BY <1>3 DEF CancelForDeletion, SoundRow
<1> QED BY <1>3, <1>4, ManyRowsStep DEF CancelForDeletion

(* A batch of expired rows is given back, failed or cancelled. *)
LEMMA RecoverExpiredGood ==
    ASSUME IInv, NEW batch \in SUBSET JobId, RecoverExpired(batch)
    PROVE  Good
<1>1. \A k \in JobId : jobs[k] \in JobRow /\ SoundRow(jobs[k])
  BY DEF IInv, TypeOK
<1>2. \A k \in JobId :
        \/ jobs'[k] = jobs[k]
        \/ jobs'[k] = Recovered(jobs[k]) /\ Expired(jobs[k])
  BY DEF RecoverExpired
<1>3. \A k \in JobId : /\ SoundRow(jobs'[k])
                       /\ Forward(jobs[k], jobs'[k])
                       /\ KeepsOwner(jobs[k], jobs'[k])
                       /\ jobs'[k].owner = jobs[k].owner \/ jobs[k].left = 0
  BY <1>1, <1>2, Unmoved, RecoveredSound, OwnerCleared DEF KeepsOwner, Expired
<1>4. jobs' \in [JobId -> JobRow]
  BY <1>3 DEF RecoverExpired, SoundRow
<1> QED BY <1>3, <1>4, ManyRowsStep DEF RecoverExpired

(* Time only shortens leases and delays. *)
LEMMA TickGood ==
    ASSUME IInv, Tick
    PROVE  Good
<1>1. \A k \in JobId : jobs[k] \in JobRow /\ SoundRow(jobs[k])
  BY DEF IInv, TypeOK
<1>2. \A k \in JobId : jobs'[k] = Aged(jobs[k])
  BY DEF Tick
<1>3. \A k \in JobId : /\ SoundRow(jobs'[k])
                       /\ Forward(jobs[k], jobs'[k])
                       /\ KeepsOwner(jobs[k], jobs'[k])
                       /\ jobs'[k].owner = jobs[k].owner
  BY <1>1, <1>2, AgedSound, OwnerUnchanged DEF KeepsOwner
<1>4. jobs' \in [JobId -> JobRow]
  BY <1>3 DEF Tick, SoundRow
<1> QED BY <1>3, <1>4, ManyRowsStep DEF Tick

(* A process that dies forgets its handle; no row changes. *)
LEMMA DropGood ==
    ASSUME IInv, NEW w \in Worker, Drop(w)
    PROVE  Good
<1>1. /\ held' \in [Worker -> Handle]
      /\ \A v \in Worker : held'[v] \in {held[v], Idle}
      /\ jobs' = jobs
  BY IdleHandle DEF Drop, IInv, TypeOK
<1>2. \A k \in JobId : Forward(jobs[k], jobs'[k]) /\ KeepsOwner(jobs[k], jobs'[k])
  BY <1>1, Unmoved DEF IInv, TypeOK
<1>3. jobs' \in [JobId -> JobRow] /\ \A k \in JobId : SoundRow(jobs'[k])
  BY <1>1 DEF IInv, TypeOK
<1>4. LeasesRespected
  BY <1>1 DEF LeasesRespected
<1> QED BY <1>1, <1>2, <1>3, <1>4, RowsStep

(* A step that changes nothing. *)
LEMMA StutterGood ==
    ASSUME IInv, UNCHANGED vars
    PROVE  Good
<1>1. jobs' = jobs /\ held' = held
  BY DEF vars
<1>2. IInv'
  BY <1>1 DEF IInv, TypeOK, HandlesCurrent
<1>3. RowsForward
  BY <1>1, Unmoved DEF RowsForward, IInv, TypeOK
<1> QED BY <1>1, <1>2, <1>3 DEF Good, LeasesRespected

-----------------------------------------------------------------------------
(* The invariant holds initially and every step is good. *)
LEMMA InitIInv == Init => IInv
<1> SUFFICES ASSUME Init PROVE IInv
  OBVIOUS
<1>1. PICK d \in Doc : jobs = [j \in JobId |-> AbsentRow(d)]
  BY DEF Init
<1>2. \A j \in JobId : SoundRow(jobs[j]) /\ jobs[j].owner = NoOwner
  BY <1>1, AbsentRowSound
<1>3. TypeOK
  BY <1>1, <1>2, IdleHandle DEF Init, TypeOK, SoundRow
<1>4. HandlesCurrent
  BY <1>2, NoOwnerAssumption DEF HandlesCurrent
<1> QED BY <1>2, <1>3, <1>4 DEF IInv

(* Every step of the queue keeps the invariant and the action properties. *)
LEMMA NextGood ==
    ASSUME IInv, [Next]_vars
    PROVE  Good
<1>1. ASSUME NEW j \in JobId, NEW type \in JobType, NEW doc \in Doc,
             Enqueue(j, type, doc)
      PROVE  Good
  BY <1>1, EnqueueGood
<1>2. ASSUME NEW w \in Worker, LeaseAny(w) PROVE Good
  BY <1>2, LeaseNextGood DEF LeaseAny
<1>3. ASSUME NEW w \in Worker, StartAny(w) PROVE Good
  BY <1>3, StartGood DEF StartAny
<1>4. ASSUME NEW w \in Worker, Report(w) PROVE Good
  BY <1>4, HeartbeatGood, CheckpointGood DEF Report
<1>5. ASSUME NEW w \in Worker, Settle(w) PROVE Good
  BY <1>5, SucceedGood, RetryGood, FailGood, AcknowledgeCancelGood DEF Settle
<1>6. ASSUME NEW w \in Worker, Drop(w) PROVE Good
  BY <1>6, DropGood
<1>7. ASSUME NEW j \in JobId, RequestCancel(j) PROVE Good
  BY <1>7, RequestCancelGood
<1>8. ASSUME NEW d \in Doc, CancelForDeletion(d) PROVE Good
  BY <1>8, CancelForDeletionGood
<1>9. CASE RecoverAny
  BY <1>9, RecoverExpiredGood DEF RecoverAny
<1>10. CASE Tick
  BY <1>10, TickGood
<1>11. CASE UNCHANGED vars
  BY <1>11, StutterGood
<1> QED
  BY <1>1, <1>2, <1>3, <1>4, <1>5, <1>6, <1>7, <1>8, <1>9, <1>10, <1>11 DEF Next

(* The inductive invariant. *)
THEOREM JobsInductive == Spec => []IInv
<1>1. IInv /\ [Next]_vars => IInv'
  BY NextGood DEF Good
<1> QED BY <1>1, InitIInv, PTL DEF Spec

(* Type correctness of the table and the worker handles. *)
THEOREM JobsTyped == Spec => []TypeOK
<1>1. IInv => TypeOK
  BY DEF IInv
<1> QED BY <1>1, JobsInductive, PTL

(* Leases: an owner is recorded, and lease time is left, only while a row  *)
(* is leased or running.                                                   *)
THEOREM LeasesMatchStatus == Spec => []LeaseHeldExactlyWhileActive
<1>1. IInv => LeaseHeldExactlyWhileActive
  BY DEF IInv, SoundRow, LeaseHeldExactlyWhileActive
<1> QED BY <1>1, JobsInductive, PTL

(* Attempts: no interleaving of crashes, expiries and retries leases a job *)
(* more than max_attempts times.                                           *)
THEOREM AttemptsBounded == Spec => []AttemptsWithinLimit
<1>1. IInv => AttemptsWithinLimit
  BY DEF IInv, SoundRow, AttemptsWithinLimit
<1> QED BY <1>1, JobsInductive, PTL

(* Cancellation: a job cancelled while it was held neither succeeds nor    *)
(* returns to the queue.                                                   *)
THEOREM CancellationSticks == Spec => []CancelNeverRerun
<1>1. IInv => CancelNeverRerun
  BY DEF IInv, SoundRow, CancelNeverRerun
<1> QED BY <1>1, JobsInductive, PTL

(* Fencing: a process executing an attempt that is over passes no          *)
(* ownership check.                                                        *)
THEOREM StaleAttemptsFenced == Spec => []StaleAttemptIsPowerless
<1>1. IInv => StaleAttemptIsPowerless
  BY DEF IInv, HandlesCurrent, StaleAttemptIsPowerless, OwnedActive
<1> QED BY <1>1, JobsInductive, PTL

(* Finality: a finished job never changes its status again. *)
THEOREM OutcomesFinal == Spec => TerminalIsFinal
<1>1. IInv /\ [Next]_vars =>
        [\A j \in JobId :
            jobs[j].status \in Terminal => jobs'[j].status = jobs[j].status]_vars
  BY NextGood DEF Good, RowsForward, Forward
<1> QED BY <1>1, JobsInductive, PTL DEF Spec, TerminalIsFinal

(* Leases: a live lease is ended only by the process that holds it. *)
THEOREM LiveLeasesKept == Spec => LiveLeaseEndsByHolder
<1>1. IInv /\ [Next]_vars => [LeasesRespected]_vars
  BY NextGood DEF Good
<1> QED BY <1>1, JobsInductive, PTL
        DEF Spec, LiveLeaseEndsByHolder, LeasesRespected

(* Progress: no heartbeat, checkpoint, retry or recovery lowers it. *)
THEOREM ProgressGrows == Spec => ProgressMonotone
<1>1. IInv /\ [Next]_vars =>
        [\A j \in JobId :
            jobs[j].status # "absent"
                => jobs'[j].progress >= jobs[j].progress]_vars
  BY NextGood DEF Good, RowsForward, Forward
<1> QED BY <1>1, JobsInductive, PTL DEF Spec, ProgressMonotone

-----------------------------------------------------------------------------
(***************************************************************************)
(* IngestionJobs implements JobQueue: every step of the lease protocol is  *)
(* a step of the abstract queue, seen through the mapping that Queue       *)
(* gives, or leaves it alone.                                              *)
(***************************************************************************)

(* The abstract view of one row did not change. *)
SameView(job, next) ==
    /\ PhaseOf(next.status) = PhaseOf(job.status)
    /\ next.status = "cancelled" <=> job.status = "cancelled"
    /\ next.owner = job.owner
    /\ next.attempts = job.attempts
    /\ next.type = job.type
    /\ next.cancel = job.cancel

(* A held row is given back or settled. *)
Relieved(job, next) ==
    /\ job.status \in Active
    /\ next.status \in {"retry_wait", "succeeded", "failed", "cancelled"}
    /\ next.status = "retry_wait" => ~job.cancel /\ job.attempts < Limit(job)
    /\ next.status = "succeeded" => ~job.cancel
    /\ next.status = "cancelled" => job.cancel
    /\ next.owner = NoOwner
    /\ next.attempts = job.attempts
    /\ next.type = job.type
    /\ next.cancel = job.cancel

(* A row is cancelled: ended if it waits, flagged if it is held. *)
Doomed(job, next) ==
    /\ job.status \in Waiting \cup Active
    /\ job.status \in Waiting => next.status = "cancelled"
    /\ job.status \in Active => next.status = job.status /\ next.cancel
    /\ next.owner = job.owner
    /\ next.attempts = job.attempts
    /\ next.type = job.type

-----------------------------------------------------------------------------
(* The abstract phase of each group of statuses. *)
LEMMA PhaseOfStatus ==
    ASSUME NEW status \in JobStatus
    PROVE  /\ status = "absent" => PhaseOf(status) = "absent"
           /\ status \in Waiting => PhaseOf(status) = "waiting"
           /\ status \in Active => PhaseOf(status) = "held"
           /\ status \in Terminal => PhaseOf(status) = status
BY DEF PhaseOf, JobStatus, Waiting, Active, Terminal

(* Only an absent row is seen as absent. *)
LEMMA PhaseOfAbsent ==
    ASSUME NEW status \in JobStatus
    PROVE  PhaseOf(status) = "absent" <=> status = "absent"
BY PhaseOfStatus DEF JobStatus, Waiting, Active, Terminal

(* The limit of a row is one a job can be submitted with. *)
LEMMA LimitRange ==
    ASSUME NEW type \in JobType
    PROVE  MaxAttempts[type] \in {MaxAttempts[t] : t \in JobType}
OBVIOUS

(* A step that keeps the view of every row leaves the queue alone. *)
LEMMA QueueStutters ==
    ASSUME TypeOK, TypeOK',
           \A k \in JobId : SameView(jobs[k], jobs'[k])
    PROVE  UNCHANGED Queue!queueVars
<1>1. \A k \in JobId : jobs[k].status \in JobStatus /\ jobs'[k].status \in JobStatus
  BY DEF TypeOK, JobRow
<1>2. \A k \in JobId : jobs[k].status = "absent" <=> jobs'[k].status = "absent"
  BY <1>1, PhaseOfAbsent DEF SameView
<1>3. \A k \in JobId : Limit(jobs'[k]) = Limit(jobs[k])
  BY DEF SameView, Limit
<1> QED BY <1>1, <1>2, <1>3 DEF SameView, Queue!queueVars

(* A step that relieves the holders of some rows is Relieve. *)
LEMMA QueueRelieves ==
    ASSUME TypeOK, TypeOK', NEW J \in SUBSET JobId,
           \A k \in J : Relieved(jobs[k], jobs'[k]),
           \A k \in JobId \ J : jobs'[k] = jobs[k]
    PROVE  Queue!QueueNext
<1>1. \A k \in JobId : jobs[k].status \in JobStatus /\ jobs'[k].status \in JobStatus
  BY DEF TypeOK, JobRow
<1>2. \A k \in J : /\ PhaseOf(jobs[k].status) = "held"
                   /\ jobs[k].status \notin {"absent", "cancelled"}
                   /\ jobs'[k].status # "absent"
  BY <1>1, PhaseOfStatus DEF Relieved, Active
<1>3. \A k \in J : PhaseOf(jobs'[k].status) =
                     IF jobs'[k].status = "retry_wait" THEN "waiting"
                                                       ELSE jobs'[k].status
  BY <1>1, PhaseOfStatus DEF Relieved, Waiting, Terminal
<1>4. PICK outcome \in [J -> {"waiting", "succeeded", "failed", "cancelled"}] :
        \A k \in J : outcome[k] = PhaseOf(jobs'[k].status)
  <2> DEFINE o == [k \in J |-> PhaseOf(jobs'[k].status)]
  <2>1. o \in [J -> {"waiting", "succeeded", "failed", "cancelled"}]
    BY <1>3 DEF Relieved
  <2>2. \A k \in J : o[k] = PhaseOf(jobs'[k].status)
    OBVIOUS
  <2> HIDE DEF o
  <2> QED BY <2>1, <2>2
<1>5. \A k \in JobId : Limit(jobs'[k]) = Limit(jobs[k])
  BY DEF Relieved, Limit
<1>6. \A k \in J :
        /\ outcome[k] = "waiting" => ~jobs[k].cancel /\ jobs[k].attempts < Limit(jobs[k])
        /\ outcome[k] = "succeeded" => ~jobs[k].cancel
        /\ outcome[k] = "cancelled" => jobs[k].cancel
  BY <1>3, <1>4 DEF Relieved
<1>7. \A k \in JobId : /\ jobs'[k].attempts = jobs[k].attempts
                       /\ jobs'[k].cancel = jobs[k].cancel
                       /\ jobs'[k].status = "absent" <=> jobs[k].status = "absent"
                       /\ k \notin J => jobs'[k] = jobs[k]
  BY <1>2 DEF Relieved
<1>8. [j \in JobId |-> jobs'[j].owner]
        = [j \in JobId |-> IF j \in J THEN NoOwner
                          ELSE [i \in JobId |-> jobs[i].owner][j]]
  BY <1>7 DEF Relieved
<1>9. [j \in JobId |-> PhaseOf(jobs'[j].status)]
         = [j \in JobId |-> IF j \in J THEN outcome[j]
                           ELSE [i \in JobId |-> PhaseOf(jobs[i].status)][j]]
  BY <1>4, <1>7
<1>10. [j \in JobId |-> IF jobs'[j].status = "absent" THEN 0 ELSE Limit(jobs'[j])]
         = [j \in JobId |-> IF jobs[j].status = "absent" THEN 0 ELSE Limit(jobs[j])]
  BY <1>5, <1>7
<1>11. [j \in JobId |-> jobs'[j].attempts] = [j \in JobId |-> jobs[j].attempts]
  BY <1>7
<1>12. {j \in JobId : jobs'[j].cancel \/ jobs'[j].status = "cancelled"}
         = {j \in JobId : jobs[j].cancel \/ jobs[j].status = "cancelled"}
  <2> SUFFICES ASSUME NEW j \in JobId
               PROVE  (jobs'[j].cancel \/ jobs'[j].status = "cancelled")
                        <=> (jobs[j].cancel \/ jobs[j].status = "cancelled")
    OBVIOUS
  <2>1. CASE j \in J
    BY <1>2, <2>1 DEF Relieved
  <2>2. CASE j \notin J
    BY <1>7, <2>2
  <2> QED BY <2>1, <2>2
<1>13. \A j \in J :
         /\ outcome[j] = "waiting" =>
              /\ ~(jobs[j].cancel \/ jobs[j].status = "cancelled")
              /\ jobs[j].attempts < IF jobs[j].status = "absent"
                                    THEN 0 ELSE Limit(jobs[j])
         /\ outcome[j] = "succeeded" =>
              ~(jobs[j].cancel \/ jobs[j].status = "cancelled")
         /\ outcome[j] = "cancelled" => jobs[j].cancel
  BY <1>2, <1>6
<1>14. \A j \in J :
         /\ [i \in JobId |-> PhaseOf(jobs[i].status)][j] = "held"
         /\ outcome[j] = "waiting" =>
              /\ j \notin {i \in JobId : jobs[i].cancel \/ jobs[i].status = "cancelled"}
              /\ [i \in JobId |-> jobs[i].attempts][j]
                   < [i \in JobId |-> IF jobs[i].status = "absent"
                                      THEN 0 ELSE Limit(jobs[i])][j]
         /\ outcome[j] = "succeeded" =>
              j \notin {i \in JobId : jobs[i].cancel \/ jobs[i].status = "cancelled"}
         /\ outcome[j] = "cancelled" =>
              j \in {i \in JobId : jobs[i].cancel \/ jobs[i].status = "cancelled"}
  BY <1>2, <1>13
<1>15. Queue!Relieve(J, outcome)
  BY <1>8, <1>9, <1>10, <1>11, <1>12, <1>14, Zenon DEF Queue!Relieve
<1> QED BY <1>4, <1>15 DEF Queue!QueueNext

(* A step that cancels some rows is Cancel. *)
LEMMA QueueCancels ==
    ASSUME TypeOK, TypeOK', NEW J \in SUBSET JobId,
           \A k \in J : Doomed(jobs[k], jobs'[k]),
           \A k \in JobId \ J : jobs'[k] = jobs[k]
    PROVE  Queue!QueueNext
<1>1. \A k \in JobId : jobs[k].status \in JobStatus /\ jobs'[k].status \in JobStatus
  BY DEF TypeOK, JobRow
<1>2. \A k \in J : /\ PhaseOf(jobs[k].status) \in {"waiting", "held"}
                   /\ PhaseOf(jobs'[k].status) =
                        IF PhaseOf(jobs[k].status) = "waiting"
                        THEN "cancelled" ELSE PhaseOf(jobs[k].status)
                   /\ jobs[k].status # "absent" /\ jobs'[k].status # "absent"
                   /\ jobs'[k].cancel \/ jobs'[k].status = "cancelled"
  BY <1>1, PhaseOfStatus DEF Doomed, Waiting, Active, Terminal
<1>3. \A k \in JobId : /\ jobs'[k].owner = jobs[k].owner
                       /\ jobs'[k].attempts = jobs[k].attempts
                       /\ Limit(jobs'[k]) = Limit(jobs[k])
                       /\ jobs'[k].status = "absent" <=> jobs[k].status = "absent"
                       /\ k \notin J => jobs'[k] = jobs[k]
  BY <1>2 DEF Doomed, Limit
<1>4. [j \in JobId |-> PhaseOf(jobs'[j].status)]
        = [j \in JobId |->
              IF j \in J /\ [i \in JobId |-> PhaseOf(jobs[i].status)][j] = "waiting"
              THEN "cancelled"
              ELSE [i \in JobId |-> PhaseOf(jobs[i].status)][j]]
  BY <1>2, <1>3
<1>5. {j \in JobId : jobs'[j].cancel \/ jobs'[j].status = "cancelled"}
        = {j \in JobId : jobs[j].cancel \/ jobs[j].status = "cancelled"} \cup J
  BY <1>2, <1>3
<1>6. /\ [j \in JobId |-> jobs'[j].owner] = [j \in JobId |-> jobs[j].owner]
      /\ [j \in JobId |-> jobs'[j].attempts] = [j \in JobId |-> jobs[j].attempts]
      /\ [j \in JobId |-> IF jobs'[j].status = "absent" THEN 0 ELSE Limit(jobs'[j])]
           = [j \in JobId |-> IF jobs[j].status = "absent" THEN 0 ELSE Limit(jobs[j])]
  BY <1>3
<1>7. \A j \in J : [i \in JobId |-> PhaseOf(jobs[i].status)][j] \in {"waiting", "held"}
  BY <1>2
<1>8. Queue!Cancel(J)
  BY <1>4, <1>5, <1>6, <1>7, Zenon DEF Queue!Cancel
<1> QED BY <1>8 DEF Queue!QueueNext

(* enqueue is Submit. *)
LEMMA QueueSubmits ==
    ASSUME IInv, IInv', NEW j \in JobId, NEW type \in JobType, NEW doc \in Doc,
           Enqueue(j, type, doc)
    PROVE  Queue!QueueNext
<1> DEFINE row == NewJob(type, doc)
<1>1. /\ row.status = "queued" /\ row.type = type /\ row.attempts = 0
      /\ row.owner = NoOwner /\ row.cancel = FALSE
  BY DEF NewJob
<1> HIDE DEF row
<1>2. jobs'[j] = row /\ \A k \in JobId : k # j => jobs'[k] = jobs[k]
  BY DEF Enqueue, IInv, TypeOK, row
<1>3. /\ jobs[j].status = "absent" /\ jobs[j].attempts = 0
      /\ jobs[j].owner = NoOwner /\ ~jobs[j].cancel
  BY DEF Enqueue, IInv, SoundRow, Active
<1>4. Limit(row) = MaxAttempts[type]
  BY <1>1 DEF Limit
<1>5. PhaseOf(jobs[j].status) = "absent" /\ PhaseOf(row.status) = "waiting"
  BY <1>1, <1>3 DEF PhaseOf, Waiting, Active
<1>6. [k \in JobId |-> PhaseOf(jobs'[k].status)]
        = [[k \in JobId |-> PhaseOf(jobs[k].status)] EXCEPT ![j] = "waiting"]
  BY <1>2, <1>5
<1>7. [k \in JobId |-> IF jobs'[k].status = "absent" THEN 0 ELSE Limit(jobs'[k])]
        = [[k \in JobId |-> IF jobs[k].status = "absent" THEN 0 ELSE Limit(jobs[k])]
             EXCEPT ![j] = MaxAttempts[type]]
  BY <1>1, <1>2, <1>4
<1>8. /\ [k \in JobId |-> jobs'[k].owner] = [k \in JobId |-> jobs[k].owner]
      /\ [k \in JobId |-> jobs'[k].attempts] = [k \in JobId |-> jobs[k].attempts]
  BY <1>1, <1>2, <1>3
<1>9. {k \in JobId : jobs'[k].cancel \/ jobs'[k].status = "cancelled"}
        = {k \in JobId : jobs[k].cancel \/ jobs[k].status = "cancelled"}
  BY <1>1, <1>2, <1>3
<1>10. Queue!Submit(j, MaxAttempts[type])
  BY <1>5, <1>6, <1>7, <1>8, <1>9 DEF Queue!Submit
<1> QED BY <1>10, LimitRange DEF Queue!QueueNext

(* lease_next is Claim. *)
LEMMA QueueClaims ==
    ASSUME IInv, IInv', NEW w \in Worker, NEW type, NEW j \in JobId,
           LeaseNext(w, type, j)
    PROVE  Queue!QueueNext
<1> DEFINE row == Leased(jobs[j], w)
<1>1. jobs[j] \in JobRow /\ jobs[j].status \in Waiting
  BY DEF IInv, TypeOK, LeaseNext, Leasable
<1>2. /\ row.status = "leased" /\ row.type = jobs[j].type
      /\ row.attempts = jobs[j].attempts + 1
      /\ row.owner = w /\ row.cancel = jobs[j].cancel
  BY <1>1 DEF Leased, JobRow
<1> HIDE DEF row
<1>3. jobs'[j] = row /\ \A k \in JobId : k # j => jobs'[k] = jobs[k]
  BY DEF LeaseNext, IInv, TypeOK, row
<1>4. jobs[j].attempts < Limit(jobs[j]) /\ Limit(row) = Limit(jobs[j])
  BY <1>1, <1>2 DEF IInv, SoundRow, Limit
<1>5. PhaseOf(jobs[j].status) = "waiting" /\ PhaseOf(row.status) = "held"
  BY <1>1, <1>2 DEF PhaseOf, Waiting, Active
<1>6. jobs[j].status \notin {"absent", "cancelled"}
  BY <1>1 DEF Waiting
<1>7. [k \in JobId |-> PhaseOf(jobs'[k].status)]
        = [[k \in JobId |-> PhaseOf(jobs[k].status)] EXCEPT ![j] = "held"]
  BY <1>3, <1>5
<1>8. [k \in JobId |-> jobs'[k].owner]
        = [[k \in JobId |-> jobs[k].owner] EXCEPT ![j] = w]
  BY <1>2, <1>3
<1>9. [k \in JobId |-> jobs'[k].attempts]
        = [[k \in JobId |-> jobs[k].attempts] EXCEPT ![j] = @ + 1]
  BY <1>2, <1>3
<1>10. [k \in JobId |-> IF jobs'[k].status = "absent" THEN 0 ELSE Limit(jobs'[k])]
         = [k \in JobId |-> IF jobs[k].status = "absent" THEN 0 ELSE Limit(jobs[k])]
  BY <1>2, <1>3, <1>4, <1>6
<1>11. {k \in JobId : jobs'[k].cancel \/ jobs'[k].status = "cancelled"}
         = {k \in JobId : jobs[k].cancel \/ jobs[k].status = "cancelled"}
  BY <1>2, <1>3, <1>6
<1>12. Queue!Claim(j, w)
  BY <1>4, <1>5, <1>6, <1>7, <1>8, <1>9, <1>10, <1>11 DEF Queue!Claim
<1> QED BY <1>12 DEF Queue!QueueNext

-----------------------------------------------------------------------------
(* How each operation on a row looks from the queue. *)
LEMMA ContinuedView ==
    ASSUME NEW job \in JobRow, job.status \in Active, NEW progress
    PROVE  /\ SameView(job, Started(job))
           /\ SameView(job, Renewed(job, progress))
<1>1. /\ Started(job).status = "running"
      /\ Started(job).type = job.type
      /\ Started(job).cancel = job.cancel
      /\ Renewed(job, progress).status = job.status
      /\ Renewed(job, progress).type = job.type
      /\ Renewed(job, progress).cancel = job.cancel
  BY DEF Started, Renewed, JobRow
<1>2. PhaseOf("running") = "held" /\ PhaseOf(job.status) = "held"
  BY DEF PhaseOf, Active, Waiting
<1> QED BY <1>1, <1>2, OwnerUnchanged DEF SameView, Active

(* Time does not show in the queue. *)
LEMMA AgedView ==
    ASSUME NEW job \in JobRow
    PROVE  SameView(job, Aged(job))
<1>1. /\ Aged(job).status = job.status
      /\ Aged(job).type = job.type
      /\ Aged(job).cancel = job.cancel
  BY DEF Aged, JobRow
<1> QED BY <1>1, OwnerUnchanged DEF SameView

(* Ending a held job as failed, or as cancelled on request, relieves it. *)
LEMMA ReleasedView ==
    ASSUME NEW job \in JobRow, job.status \in Active,
           NEW status \in {"failed", "cancelled"},
           status = "cancelled" => job.cancel
    PROVE  Relieved(job, Released(job, status))
BY DEF Relieved, Released, JobRow

(* Success of an uncancelled job relieves its holder. *)
LEMMA SucceededView ==
    ASSUME NEW job \in JobRow, job.status \in Active, ~job.cancel
    PROVE  Relieved(job, Succeeded(job))
BY DEF Relieved, Succeeded, Released, JobRow

(* Giving back an uncancelled job with an attempt left relieves its holder. *)
LEMMA GivenBackView ==
    ASSUME NEW job \in JobRow, job.status \in Active, ~job.cancel,
           job.attempts < Limit(job), NEW delay
    PROVE  Relieved(job, [Released(job, "retry_wait") EXCEPT !.wait = delay])
<1> DEFINE next == [Released(job, "retry_wait") EXCEPT !.wait = delay]
<1>1. /\ next.status = "retry_wait" /\ next.owner = NoOwner
      /\ next.attempts = job.attempts /\ next.type = job.type
      /\ next.cancel = job.cancel
  BY DEF Released, JobRow
<1> HIDE DEF next
<1>2. Relieved(job, next)
  BY <1>1 DEF Relieved
<1> QED BY <1>2 DEF next

(* retry relieves the holder, whichever way it decides. *)
LEMMA RetriedView ==
    ASSUME NEW job \in JobRow, job.status \in Active, ~job.cancel
    PROVE  Relieved(job, Retried(job))
<1>1. job.attempts \in Nat /\ Limit(job) \in Nat
  BY RowNumbers
<1>2. CASE job.attempts >= Limit(job)
  BY <1>2, ReleasedView DEF Retried
<1>3. CASE ~(job.attempts >= Limit(job))
  BY <1>1, <1>3, GivenBackView DEF Retried
<1> QED BY <1>2, <1>3

(* recover_expired relieves the holder, whichever way it decides. *)
LEMMA RecoveredView ==
    ASSUME NEW job \in JobRow, Expired(job)
    PROVE  Relieved(job, Recovered(job))
<1>1. job.status \in Active
  BY DEF Expired
<1>2. job.attempts \in Nat /\ Limit(job) \in Nat
  BY RowNumbers
<1>3. CASE job.cancel
  BY <1>1, <1>3, ReleasedView DEF Recovered
<1>4. CASE ~job.cancel /\ job.attempts >= Limit(job)
  BY <1>1, <1>4, ReleasedView DEF Recovered
<1>5. CASE ~job.cancel /\ ~(job.attempts >= Limit(job))
  BY <1>1, <1>2, <1>5, GivenBackView DEF Recovered
<1> QED BY <1>3, <1>4, <1>5

(* Both kinds of cancellation doom the job. *)
LEMMA CancelledView ==
    ASSUME NEW job \in JobRow, Cancellable(job)
    PROVE  /\ Doomed(job, CancelRequested(job))
           /\ Doomed(job, CancelledByDeletion(job))
<1>1. job.status \in Waiting \cup Active
  BY DEF Cancellable
<1>2. /\ job.status \in Waiting => /\ CancelRequested(job).status = "cancelled"
                                  /\ CancelledByDeletion(job).status = "cancelled"
      /\ job.status \in Active => /\ CancelRequested(job).status = job.status
                                 /\ CancelledByDeletion(job).status = job.status
                                 /\ CancelRequested(job).cancel = TRUE
                                 /\ CancelledByDeletion(job).cancel = TRUE
      /\ CancelRequested(job).type = job.type
      /\ CancelledByDeletion(job).type = job.type
  BY <1>1 DEF CancelRequested, CancelledByDeletion, JobRow, Waiting, Active
<1> QED BY <1>1, <1>2, OwnerUnchanged DEF Doomed

-----------------------------------------------------------------------------
(* Steps that relieve one row, or keep the view of one row. *)
LEMMA RelieveOne ==
    ASSUME IInv, IInv', NEW j \in JobId, NEW row, Relieved(jobs[j], row),
           jobs' = [jobs EXCEPT ![j] = row]
    PROVE  Queue!QueueNext
<1>1. jobs'[j] = row /\ \A k \in JobId \ {j} : jobs'[k] = jobs[k]
  BY DEF IInv, TypeOK
<1>2. \A k \in {j} : Relieved(jobs[k], jobs'[k])
  BY <1>1
<1>3. {j} \in SUBSET JobId
  OBVIOUS
<1> QED BY <1>1, <1>2, <1>3, QueueRelieves DEF IInv

(* A step on one row that keeps its view leaves the queue alone. *)
LEMMA KeepOne ==
    ASSUME IInv, IInv', NEW j \in JobId, NEW row, SameView(jobs[j], row),
           jobs' = [jobs EXCEPT ![j] = row]
    PROVE  UNCHANGED Queue!queueVars
<1>1. jobs'[j] = row /\ \A k \in JobId : k # j => jobs'[k] = jobs[k]
  BY DEF IInv, TypeOK
<1>2. \A k \in JobId : SameView(jobs[k], jobs'[k])
  BY <1>1 DEF SameView
<1> QED BY <1>2, QueueStutters DEF IInv

(* Every step of the lease protocol is a step of the queue or none. *)
LEMMA QueueStep ==
    ASSUME IInv, IInv', [Next]_vars
    PROVE  [Queue!QueueNext]_(Queue!queueVars)
<1>0. \A k \in JobId : jobs[k] \in JobRow
  BY DEF IInv, TypeOK
<1>1. ASSUME NEW j \in JobId, NEW type \in JobType, NEW doc \in Doc,
             Enqueue(j, type, doc)
      PROVE  Queue!QueueNext
  BY <1>1, QueueSubmits
<1>2. ASSUME NEW w \in Worker, LeaseAny(w)
      PROVE  Queue!QueueNext
  BY <1>2, QueueClaims DEF LeaseAny
<1>3. ASSUME NEW w \in Worker, StartAny(w)
      PROVE  UNCHANGED Queue!queueVars
  <2>1. PICK j \in JobId : Start(w, j)
    BY <1>3 DEF StartAny
  <2>2. jobs[j].status \in Active /\ jobs' = [jobs EXCEPT ![j] = Started(jobs[j])]
    BY <2>1 DEF Start, OwnedActive
  <2> QED BY <1>0, <2>2, ContinuedView, KeepOne
<1>4. ASSUME NEW w \in Worker, NEW j \in JobId, NEW progress \in 0 .. Done,
             Heartbeat(w, j, progress)
      PROVE  UNCHANGED Queue!queueVars
  <2>1. /\ jobs[j].status \in Active
        /\ jobs' = [jobs EXCEPT ![j] = Renewed(jobs[j], progress)]
    BY <1>4 DEF Heartbeat, HeartbeatAccepts, OwnedActive
  <2> QED BY <1>0, <2>1, ContinuedView, KeepOne
<1>5. ASSUME NEW w \in Worker, NEW j \in JobId, NEW progress \in 0 .. Done,
             Checkpoint(w, j, progress)
      PROVE  Queue!QueueNext \/ UNCHANGED Queue!queueVars
  <2>1. /\ jobs[j].status \in Active
        /\ jobs' = [jobs EXCEPT ![j] = Checkpointed(jobs[j], progress)]
    BY <1>5 DEF Checkpoint, CheckpointAccepts, OwnedRunning, OwnedActive
  <2>2. CASE jobs[j].cancel
    <3>1. Relieved(jobs[j], Checkpointed(jobs[j], progress))
      BY <1>0, <2>1, <2>2, ReleasedView DEF Checkpointed
    <3> QED BY <2>1, <3>1, RelieveOne
  <2>3. CASE ~jobs[j].cancel
    <3>1. SameView(jobs[j], Checkpointed(jobs[j], progress))
      BY <1>0, <2>1, <2>3, ContinuedView DEF Checkpointed
    <3> QED BY <2>1, <3>1, KeepOne
  <2> QED BY <2>2, <2>3
<1>6. ASSUME NEW w \in Worker, Settle(w)
      PROVE  Queue!QueueNext
  <2>1. PICK j \in JobId : \/ Succeed(w, j) \/ Retry(w, j)
                           \/ Fail(w, j) \/ AcknowledgeCancel(w, j)
    BY <1>6 DEF Settle
  <2>2. CASE Succeed(w, j)
    <3>1. /\ jobs[j].status \in Active /\ ~jobs[j].cancel
          /\ jobs' = [jobs EXCEPT ![j] = Succeeded(jobs[j])]
      BY <2>2 DEF Succeed, OwnedUncancelled, OwnedRunning, OwnedActive
    <3> QED BY <1>0, <3>1, SucceededView, RelieveOne
  <2>3. CASE Retry(w, j)
    <3>1. /\ jobs[j].status \in Active /\ ~jobs[j].cancel
          /\ jobs' = [jobs EXCEPT ![j] = Retried(jobs[j])]
      BY <2>3 DEF Retry, OwnedUncancelled, OwnedRunning, OwnedActive
    <3> QED BY <1>0, <3>1, RetriedView, RelieveOne
  <2>4. CASE Fail(w, j)
    <3>1. /\ jobs[j].status \in Active
          /\ jobs' = [jobs EXCEPT ![j] = Released(jobs[j], "failed")]
      BY <2>4 DEF Fail, OwnedRunning, OwnedActive
    <3> QED BY <1>0, <3>1, ReleasedView, RelieveOne
  <2>5. CASE AcknowledgeCancel(w, j)
    <3>1. /\ jobs[j].status \in Active /\ jobs[j].cancel
          /\ jobs' = [jobs EXCEPT ![j] = Released(jobs[j], "cancelled")]
      BY <2>5 DEF AcknowledgeCancel, OwnedActive
    <3> QED BY <1>0, <3>1, ReleasedView, RelieveOne
  <2> QED BY <2>1, <2>2, <2>3, <2>4, <2>5
<1>7. ASSUME NEW w \in Worker, Drop(w)
      PROVE  UNCHANGED Queue!queueVars
  <2>1. \A k \in JobId : SameView(jobs[k], jobs'[k])
    BY <1>7 DEF Drop, SameView
  <2> QED BY <2>1, QueueStutters DEF IInv
<1>8. ASSUME NEW j \in JobId, RequestCancel(j)
      PROVE  Queue!QueueNext
  <2>1. /\ Doomed(jobs[j], CancelRequested(jobs[j]))
        /\ jobs' = [jobs EXCEPT ![j] = CancelRequested(jobs[j])]
    BY <1>0, <1>8, CancelledView DEF RequestCancel
  <2>2. /\ \A k \in {j} : Doomed(jobs[k], jobs'[k])
        /\ \A k \in JobId \ {j} : jobs'[k] = jobs[k]
    BY <2>1 DEF IInv, TypeOK
  <2>3. {j} \in SUBSET JobId
    OBVIOUS
  <2> QED BY <2>2, <2>3, QueueCancels DEF IInv
<1>9. ASSUME NEW d \in Doc, CancelForDeletion(d)
      PROVE  Queue!QueueNext
  <2> DEFINE J == {k \in JobId : /\ jobs[k].doc = d
                                 /\ jobs[k].type # "delete"
                                 /\ Cancellable(jobs[k])}
  <2>1. \A k \in J : Doomed(jobs[k], jobs'[k])
    BY <1>0, <1>9, CancelledView DEF CancelForDeletion
  <2>2. \A k \in JobId \ J : jobs'[k] = jobs[k]
    BY <1>9 DEF CancelForDeletion, CancelledByDeletion, Cancellable
  <2>3. J \in SUBSET JobId
    OBVIOUS
  <2> HIDE DEF J
  <2> QED BY <2>1, <2>2, <2>3, QueueCancels DEF IInv
<1>10. ASSUME NEW batch \in SUBSET JobId, RecoverExpired(batch)
       PROVE  Queue!QueueNext
  <2>1. \A k \in batch : Relieved(jobs[k], jobs'[k])
    BY <1>0, <1>10, RecoveredView DEF RecoverExpired
  <2>2. \A k \in JobId \ batch : jobs'[k] = jobs[k]
    BY <1>10 DEF RecoverExpired
  <2> QED BY <2>1, <2>2, QueueRelieves DEF IInv
<1>11. CASE Tick
  <2>1. \A k \in JobId : SameView(jobs[k], jobs'[k])
    BY <1>0, <1>11, AgedView DEF Tick
  <2> QED BY <2>1, QueueStutters DEF IInv
<1>12. CASE UNCHANGED vars
  <2>1. \A k \in JobId : SameView(jobs[k], jobs'[k])
    BY <1>12 DEF vars, SameView
  <2> QED BY <2>1, QueueStutters DEF IInv
<1>13. CASE Next
  BY <1>1, <1>2, <1>3, <1>4, <1>5, <1>6, <1>7, <1>8, <1>9, <1>10, <1>11, <1>13
  DEF Next, Report, RecoverAny
<1> QED BY <1>12, <1>13

(* An empty table is an empty queue. *)
LEMMA QueueStarts == Init => Queue!QueueInit
<1> SUFFICES ASSUME Init PROVE Queue!QueueInit
  OBVIOUS
<1>1. PICK d \in Doc : jobs = [j \in JobId |-> AbsentRow(d)]
  BY DEF Init
<1>2. \A j \in JobId : /\ jobs[j].status = "absent"
                       /\ jobs[j].owner = NoOwner
                       /\ jobs[j].attempts = 0
                       /\ jobs[j].cancel = FALSE
  BY <1>1 DEF AbsentRow, NewJob
<1>3. PhaseOf("absent") = "absent"
  BY DEF PhaseOf, Waiting, Active
<1> QED BY <1>2, <1>3 DEF Queue!QueueInit

(* The leased, timed, crash-recovering table implements the abstract queue *)
(* for any number of workers, jobs and attempts.                           *)
THEOREM JobsImplementQueue == Spec => ImplementsQueue
<1>1. IInv /\ IInv' /\ [Next]_vars => [Queue!QueueNext]_(Queue!queueVars)
  BY QueueStep
<1> QED
  BY <1>1, QueueStarts, JobsInductive, PTL
  DEF Spec, ImplementsQueue, Queue!QueueSpec
=============================================================================
