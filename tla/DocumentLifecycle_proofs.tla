----------------------- MODULE DocumentLifecycle_proofs -----------------------
(***************************************************************************)
(* The document life cycle for any number of documents, contents,          *)
(* versions, jobs, worker processes and faults.                            *)
(*                                                                         *)
(* The three safety properties are about what one step reads and another   *)
(* writes: an upload reads the latest job of a version, a worker finalizes *)
(* under a job that a deletion may have cancelled, a deletion hides what   *)
(* was published.  What connects them is the order of the job rows and     *)
(* that a row once cancelled or settled stays so (RowsMove); no step needs *)
(* to know where any other process is.                                     *)
(***************************************************************************)
EXTENDS DocumentLifecycle, TLAPS

DocStatus == {"absent", "pending", "processing", "ready", "failed", "deleting", "deleted"}
VersionStatus ==
    {"absent", "pending", "processing", "indexed", "superseded", "failed", "deleted"}

WorkStep == {"idle", "prepare", "checkpoint", "work", "activate", "verify", "unproject",
             "undo_vectors", "undo_roots", "settle", "settle_unprepared",
             "cancel_vectors", "cancel_roots", "cancel_mark", "settling", "marking"}
DeletionStep == {"idle", "load", "vectors", "cleanup", "objects", "finalize"}

StoreTypeOK ==
    /\ docs \in [Doc -> [status : DocStatus, active : Version \cup {NoVersion}]]
    /\ vers \in [Version -> [doc : Doc, content : Content, status : VersionStatus]]
    /\ claims \in [Content -> Version \cup {NoVersion}]
    /\ roots \subseteq Version
    /\ vectors \in [Version -> {"none", "staged", "ready"}]
    /\ objects \subseteq Content
    /\ jobs \in [JobId -> JobRow]
    /\ target \in [JobId -> Version \cup {NoVersion}]

Mark == [doc : {"kept", "ready", "failed"}, ver : BOOLEAN]

WorkRow == [step : WorkStep, job : JobId \cup {NoJob}, stage : 1 .. Finalizing,
            terminal : BOOLEAN, mark : Mark]

WorkTypeOK ==
    /\ work \in [Ingester -> WorkRow]
    /\ faults \in Nat

DeletionTypeOK ==
    del \in [step : DeletionStep, job : JobId \cup {NoJob},
             versions : SUBSET Version, left : SUBSET Version]

TypeOK == StoreTypeOK /\ WorkTypeOK /\ DeletionTypeOK

HasLatest(S) == \E n \in S : \A m \in S : m <= n

(* A process that is at work executes a job of its type; projecting begins *)
(* and ends within its stage.                                              *)
WorkersHaveJobs ==
    \A w \in Ingester :
        /\ work[w].step # "idle" =>
            /\ work[w].job \in JobId
            /\ jobs[work[w].job].status # "absent"
            /\ jobs[work[w].job].type = "ingest"
        /\ work[w].step \in {"activate", "verify", "unproject"}
            => work[w].stage = Projecting

DeleterHasItsJob ==
    del # IdleDeletion =>
        /\ del.job \in JobId
        /\ jobs[del.job].status # "absent"
        /\ jobs[del.job].type = "delete"

(* Rows of jobs are created one after the other, each for a version of its *)
(* document.                                                               *)
RowsInOrder ==
    /\ \A i, j \in JobId : i < j /\ jobs[j].status # "absent" => jobs[i].status # "absent"
    /\ \A j \in JobId : jobs[j].status # "absent" =>
        /\ target[j] \in Version
        /\ vers[target[j]].status # "absent"
        /\ vers[target[j]].doc = jobs[j].doc

(* A version has been queued, so that its latest job exists, and so does   *)
(* the latest version of a document that has any.                          *)
LatestExist ==
    /\ \A v \in Version : vers[v].status # "absent" => HasLatest(IngestJobsOf(v))
    /\ \A d \in Doc : VersionsOf(d) # {} => HasLatest(VersionsOf(d))
    /\ \A c \in Content : claims[c] # NoVersion => vers[claims[c]].status # "absent"

(* Only the latest ingest job of a version is unfinished. *)
OnlyLatestIsLive ==
    \A v \in Version : \A i, j \in IngestJobsOf(v) : i < j => ~Live(i)

(* A document that was opened has an active version until a deletion is    *)
(* requested; from then on the request is there.                           *)
Opened(d) == docs[d].active # NoVersion \/ JobsOf(d, "delete") # {}

(* An active version is one of the document's own, and only an opened      *)
(* document is ready.                                                      *)
ActiveIsOwn ==
    \A d \in Doc :
        /\ docs[d].active # NoVersion => docs[d].active \in VersionsOf(d)
        /\ docs[d].status = "ready" => Opened(d)

(* The mark a worker carries from its read was right when it was read: the *)
(* document it will call ready was opened.                                 *)
MarksSound ==
    \A w \in Ingester : work[w].mark.doc = "ready" =>
        work[w].step # "idle" /\ Opened(JobOf(w).doc)

(* The worker whose transaction has locked the row of its job still owns   *)
(* it, running.                                                            *)
SettlersHold ==
    \A w \in Ingester : At(w, "settling") =>
        JobOf(w).status = "running" /\ JobOf(w).owner = w

(* A deletion has cancelled what was unfinished before it ... *)
UncancelledIsLater ==
    \A d \in Doc : \A k \in JobsOf(d, "delete") : \A j \in JobsOf(d, "ingest") :
        Live(j) /\ ~jobs[j].cancel => k < j

(* ... and hidden what was published before it. *)
ActiveIsLater ==
    \A d \in Doc : docs[d].active # NoVersion =>
        \A k \in JobsOf(d, "delete") :
            \E j \in JobsOf(d, "ingest") :
                /\ j > k
                /\ jobs[j].status = "succeeded"
                /\ target[j] = docs[d].active

IInv ==
    /\ TypeOK
    /\ WorkersHaveJobs /\ DeleterHasItsJob
    /\ MarksSound /\ SettlersHold
    /\ RowsInOrder
    /\ LatestExist
    /\ OnlyLatestIsLive
    /\ ActiveIsOwn
    /\ IndexedIsActive
    /\ UncancelledIsLater
    /\ ActiveIsLater

-----------------------------------------------------------------------------
(* What every operation on a row keeps: what the row is about, that it is  *)
(* settled, and that it is cancelled.                                      *)
Moves(row, next) ==
    /\ next \in JobRow
    /\ next.type = row.type /\ next.doc = row.doc
    /\ next.status = "absent" <=> row.status = "absent"
    /\ row.status \in Terminal => next.status = row.status
    /\ row.cancel => next.cancel

(* Waiting, active and terminal are apart, and none of them is absent.     *)
LEMMA StatusesApart ==
    /\ "absent" \notin Waiting \cup Active \cup Terminal
    /\ Terminal \cap (Waiting \cup Active) = {}
    /\ JobStatus = {"absent"} \cup Waiting \cup Active \cup Terminal
BY DEF JobStatus, Waiting, Active, Terminal

LEMMA RowMoves ==
    ASSUME NEW row \in JobRow
    PROVE  /\ Moves(row, row)
           /\ Moves(row, Aged(row))
           /\ Moves(row, CancelledByDeletion(row))
<1>1. /\ row.left \in Nat /\ row.wait \in Nat
      /\ Countdown(row.left) \in Nat /\ Countdown(row.wait) \in Nat
    BY DEF JobRow, Countdown
<1>2. Moves(row, row)
    BY DEF Moves
<1>3. Moves(row, Aged(row))
    BY <1>1 DEF Moves, Aged, JobRow
<1>4. Moves(row, CancelledByDeletion(row))
  <2>1. CASE row.status \in Waiting
    <3>1. CancelledByDeletion(row) = [row EXCEPT !.status = "cancelled", !.cancel = TRUE]
        BY <2>1, StatusesApart DEF CancelledByDeletion, Waiting, Active
    <3> QED BY <2>1, <3>1 DEF Moves, JobRow, JobStatus, Waiting, Terminal
  <2>2. CASE row.status \in Active
    <3>1. CancelledByDeletion(row) = [row EXCEPT !.cancel = TRUE]
        BY <2>2 DEF CancelledByDeletion, Waiting, Active
    <3> QED BY <2>2, <3>1 DEF Moves, JobRow
  <2>3. CASE row.status \notin Waiting \cup Active
      BY <1>2, <2>3 DEF CancelledByDeletion
  <2> QED BY <2>1, <2>2, <2>3
<1> QED BY <1>2, <1>3, <1>4

LEMMA ActiveRowMoves ==
    ASSUME NEW row \in JobRow, row.status \in Active, NEW progress \in 0 .. Done
    PROVE  /\ Moves(row, Renewed(row, progress))
           /\ Moves(row, Checkpointed(row, progress))
           /\ Moves(row, Succeeded(row))
           /\ Moves(row, Retried(row))
           /\ Moves(row, Released(row, "failed"))
           /\ Moves(row, Recovered(row))
<1> USE TimeAssumption, DoneAssumption DEF JobRow, JobStatus, Waiting, Active, Terminal
<1>1. Moves(row, Renewed(row, progress))
    BY DEF Moves, Renewed
<1>2. \A status \in {"retry_wait", "failed", "cancelled", "succeeded"} :
          Moves(row, Released(row, status))
    BY DEF Moves, Released
<1>3. Moves(row, Checkpointed(row, progress))
    BY <1>1, <1>2 DEF Checkpointed
<1>4. Moves(row, Succeeded(row))
  <2>1. Done \in 0 .. Done
      OBVIOUS
  <2>2. Succeeded(row).status = "succeeded" /\ Succeeded(row) \in JobRow
      BY <2>1 DEF Succeeded, Released
  <2> QED BY <2>2 DEF Moves, Succeeded, Released
<1>5. \A n \in Nat : Moves(row, [Released(row, "retry_wait") EXCEPT !.wait = n])
    BY DEF Moves, Released
<1>6. Moves(row, Retried(row))
    BY <1>2, <1>5 DEF Retried
<1>7. Moves(row, Recovered(row))
    BY <1>2, <1>5 DEF Recovered
<1> QED BY <1>1, <1>2, <1>3, <1>4, <1>6, <1>7

LEMMA LeasedRowMoves ==
    ASSUME NEW row \in JobRow, NEW type, Leasable(row, type), NEW w \in Worker
    PROVE  /\ Moves(row, Started(Leased(row, w)))
           /\ row.type = type /\ row.status # "absent"
<1>1. row.attempts + 1 \in Nat /\ LeaseFor \in Nat
    BY TimeAssumption DEF JobRow
<1>2. Moves(row, Started(Leased(row, w)))
    BY <1>1 DEF Moves, Started, Leased, Leasable, JobRow, JobStatus, Waiting, Active, Terminal
<1> QED BY <1>2 DEF Leasable, Waiting

LEMMA NewRow ==
    ASSUME NEW type \in JobType, NEW d \in Doc
    PROVE  /\ NewJob(type, d) \in JobRow
           /\ NewJob(type, d).type = type /\ NewJob(type, d).doc = d
           /\ NewJob(type, d).status = "queued"
BY DoneAssumption DEF NewJob, JobRow, JobStatus, Waiting

-----------------------------------------------------------------------------
(* What a process that is at work can rely on. *)
LEMMA WorkerHasJob ==
    ASSUME IInv, NEW w \in Ingester, work[w].step # "idle"
    PROVE  /\ work[w].job \in JobId
           /\ JobOf(w) \in JobRow /\ JobOf(w).status # "absent" /\ JobOf(w).type = "ingest"
           /\ VersionOf(w) \in Version /\ vers[VersionOf(w)].status # "absent"
           /\ vers[VersionOf(w)].doc = JobOf(w).doc /\ JobOf(w).doc \in Doc
           /\ work[w].stage \in 1 .. Finalizing /\ 1 .. Finalizing \subseteq 0 .. Done
<1>1. /\ work[w].job \in JobId
      /\ JobOf(w).status # "absent" /\ JobOf(w).type = "ingest"
    BY DEF IInv, WorkersHaveJobs, JobOf
<1>2. JobOf(w) \in JobRow /\ work[w].stage \in 1 .. Finalizing
    BY <1>1 DEF IInv, TypeOK, StoreTypeOK, WorkTypeOK, WorkRow, JobOf
<1>3. JobOf(w).doc \in Doc
    BY <1>2 DEF JobRow
<1>4. /\ VersionOf(w) \in Version /\ vers[VersionOf(w)].status # "absent"
      /\ vers[VersionOf(w)].doc = JobOf(w).doc
    BY <1>1 DEF IInv, RowsInOrder, JobOf, VersionOf
<1>5. 1 .. Finalizing \subseteq 0 .. Done
    BY StagesAssumption DEF Finalizing
<1> QED BY <1>1, <1>2, <1>3, <1>4, <1>5

LEMMA DeleterHasJob ==
    ASSUME IInv, del # IdleDeletion
    PROVE  /\ del.job \in JobId /\ jobs[del.job] \in JobRow
           /\ jobs[del.job].status # "absent" /\ jobs[del.job].type = "delete"
           /\ DeletedDoc \in Doc
<1>1. /\ del.job \in JobId
      /\ jobs[del.job].status # "absent" /\ jobs[del.job].type = "delete"
    BY DEF IInv, DeleterHasItsJob
<1>2. jobs[del.job] \in JobRow
    BY <1>1 DEF IInv, TypeOK, StoreTypeOK
<1> QED BY <1>1, <1>2 DEF JobRow, DeletedDoc

-----------------------------------------------------------------------------
(* What most steps do: rows move, versions stay whose they are, and no     *)
(* version is published.                                                   *)
RowsMove ==
    /\ jobs' \in [JobId -> JobRow]
    /\ \A j \in JobId : Moves(jobs[j], jobs'[j])
    /\ target' = target

VersionsStay ==
    /\ vers' \in [Version -> [doc : Doc, content : Content, status : VersionStatus]]
    /\ \A v \in Version :
        /\ vers'[v].doc = vers[v].doc /\ vers'[v].content = vers[v].content
        /\ vers'[v].status = "absent" <=> vers[v].status = "absent"
    /\ claims' \in [Content -> Version \cup {NoVersion}]
    /\ \A c \in Content : claims'[c] \in {claims[c], NoVersion}

(* A deletion was requested before this step, or is in it. *)
DeletionAsked(d) == JobsOf(d, "delete") # {} \/ JobsOf(d, "delete")' # {}

NothingPublished ==
    /\ docs' \in [Doc -> [status : DocStatus, active : Version \cup {NoVersion}]]
    /\ \A d \in Doc :
        /\ \/ docs'[d].active = docs[d].active
           \/ docs'[d].active = NoVersion /\ DeletionAsked(d)
        /\ docs'[d].status = "ready" => docs'[d].active # NoVersion \/ DeletionAsked(d)
    /\ \A v \in Version : vers'[v].status = "indexed" => vers[v].status = "indexed"

Quiet == RowsMove /\ VersionsStay /\ NothingPublished

(* One row of jobs is replaced. *)
LEMMA OneRowMoves ==
    ASSUME IInv, NEW j \in JobId, NEW row, Moves(jobs[j], row),
           jobs' = [jobs EXCEPT ![j] = row], target' = target
    PROVE  RowsMove
<1>1. jobs \in [JobId -> JobRow] /\ row \in JobRow
    BY DEF IInv, TypeOK, StoreTypeOK, Moves
<1> QED BY <1>1, RowMoves DEF RowsMove

LEMMA NoRowMoves ==
    ASSUME IInv, UNCHANGED <<jobs, target>>
    PROVE  RowsMove
BY RowMoves DEF RowsMove, IInv, TypeOK, StoreTypeOK

LEMMA NoVersionMoves ==
    ASSUME IInv, UNCHANGED <<vers, claims>>
    PROVE  VersionsStay
BY DEF VersionsStay, IInv, TypeOK, StoreTypeOK

LEMMA NoDocumentMoves ==
    ASSUME IInv, UNCHANGED <<docs, vers>>
    PROVE  NothingPublished
BY DEF NothingPublished, DeletionAsked, Opened, IInv, TypeOK, StoreTypeOK, ActiveIsOwn

(* mark_failed brings back no document but one that was opened. *)
LEMMA FailingIsQuiet ==
    ASSUME IInv, NEW v \in Version, vers[v].status # "absent", NEW mark \in Mark,
           mark.doc = "ready" => Opened(vers[v].doc), MarkFailed(v, mark), claims' = claims
    PROVE  VersionsStay /\ NothingPublished
<1>1. /\ vers \in [Version -> [doc : Doc, content : Content, status : VersionStatus]]
      /\ docs \in [Doc -> [status : DocStatus, active : Version \cup {NoVersion}]]
      /\ claims \in [Content -> Version \cup {NoVersion}]
    BY DEF IInv, TypeOK, StoreTypeOK
<1>2. vers' = vers \/ vers' = [vers EXCEPT ![v].status = "failed"]
    BY DEF MarkFailed
<1>3. VersionsStay
  <2>1. CASE vers' = vers
      BY <2>1, NoVersionMoves
  <2>2. CASE vers' = [vers EXCEPT ![v].status = "failed"]
      BY <1>1, <2>2 DEF VersionsStay, VersionStatus
  <2> QED BY <1>2, <2>1, <2>2
<1>0. \A d \in Doc : docs[d].status = "ready" => Opened(d)
    BY DEF IInv, ActiveIsOwn
<1>4. \A u \in Version : vers'[u].status = "indexed" => vers[u].status = "indexed"
    BY <1>1, <1>2
<1>5. CASE docs' = docs
    BY <1>0, <1>1, <1>3, <1>4, <1>5 DEF NothingPublished, DeletionAsked, Opened
<1>6. CASE mark.doc \in {"ready", "failed"}
           /\ docs' = [docs EXCEPT ![vers[v].doc].status = mark.doc]
  <2>1. vers[v].doc \in Doc
      BY <1>1
  <2>2. docs' \in [Doc -> [status : DocStatus, active : Version \cup {NoVersion}]]
      BY <1>1, <1>6, <2>1 DEF DocStatus
  <2>3. ASSUME NEW d \in Doc
        PROVE  /\ docs'[d].active = docs[d].active
               /\ docs'[d].status = "ready" => Opened(d)
      BY <1>0, <1>1, <1>6, <2>1
  <2> QED BY <1>3, <1>4, <2>2, <2>3 DEF NothingPublished, DeletionAsked, Opened
<1>7. mark.doc = "kept" \/ mark.doc \in {"ready", "failed"}
    BY DEF Mark
<1> QED BY <1>3, <1>5, <1>6, <1>7 DEF MarkFailed
-----------------------------------------------------------------------------
(* Rows stay what they are, so that who executes one may go on. *)
RowsRemain ==
    \A j \in JobId : jobs[j].status # "absent" =>
        /\ jobs'[j].status # "absent"
        /\ jobs'[j].type = jobs[j].type /\ jobs'[j].doc = jobs[j].doc

LEMMA MovingRowsRemain ==
    ASSUME RowsMove
    PROVE  RowsRemain
BY DEF RowsMove, RowsRemain, Moves

WorkersSound == WorkTypeOK /\ WorkersHaveJobs
DeleterSound == DeletionTypeOK /\ DeleterHasItsJob

LEMMA WorkersRest ==
    ASSUME IInv, RowsRemain, UNCHANGED work, faults' \in Nat
    PROVE  WorkersSound'
BY DEF WorkersSound, WorkTypeOK, WorkersHaveJobs, RowsRemain, IInv, TypeOK

LEMMA DeleterRests ==
    ASSUME IInv, RowsRemain, UNCHANGED del
    PROVE  DeleterSound'
BY DEF DeleterSound, DeletionTypeOK, DeleterHasItsJob, RowsRemain, IInv, TypeOK

LEMMA WorkerStops ==
    ASSUME IInv, RowsRemain, NEW w \in Ingester, Stop(w), faults' \in Nat
    PROVE  WorkersSound'
<1>1. IdleWork \in WorkRow
    BY StagesAssumption DEF IdleWork, WorkRow, WorkStep, Finalizing, Mark, NoMark
<1> QED
    BY <1>1 DEF Stop, IdleWork, WorkersSound, WorkTypeOK, WorkersHaveJobs, RowsRemain,
                IInv, TypeOK

(* A worker goes to another step of its job. *)
LEMMA WorkerGoesOn ==
    ASSUME IInv, RowsRemain, NEW w \in Ingester, work[w].step # "idle",
           NEW row \in WorkRow,
           row.job = work[w].job,
           row.step \in {"activate", "verify", "unproject"} => row.stage = Projecting,
           work' = [work EXCEPT ![w] = row], faults' \in Nat
    PROVE  WorkersSound'
BY DEF WorkersSound, WorkTypeOK, WorkersHaveJobs, RowsRemain, IInv, TypeOK

LEMMA WorkerGoes ==
    ASSUME IInv, RowsRemain, NEW w \in Ingester, work[w].step # "idle",
           NEW step \in WorkStep, Goto(w, step), faults' \in Nat,
           step \in {"activate", "verify", "unproject"} => work[w].stage = Projecting
    PROVE  WorkersSound'
<1>1. work[w] \in WorkRow
    BY DEF IInv, TypeOK, WorkTypeOK
<1> DEFINE row == [work[w] EXCEPT !.step = step]
<1>2. /\ row \in WorkRow
      /\ row.step = step /\ row.job = work[w].job /\ row.stage = work[w].stage
    BY <1>1 DEF WorkRow
<1>3. work' = [work EXCEPT ![w] = row]
    BY DEF Goto
<1> HIDE DEF row
<1> QED BY <1>2, <1>3, WorkerGoesOn

LEMMA WorkerAdvances ==
    ASSUME IInv, RowsRemain, NEW w \in Ingester, work[w].step # "idle",
           work[w].stage < Finalizing, NextStage(w), faults' \in Nat
    PROVE  WorkersSound'
<1>1. work[w] \in WorkRow
    BY DEF IInv, TypeOK, WorkTypeOK
<1> DEFINE row == [work[w] EXCEPT !.step = "checkpoint", !.stage = @ + 1]
<1>2. work[w].stage + 1 \in 1 .. Finalizing
    BY <1>1, StagesAssumption DEF Finalizing, WorkRow
<1>3. /\ row \in WorkRow
      /\ row.step = "checkpoint" /\ row.job = work[w].job
    BY <1>1, <1>2 DEF WorkRow, WorkStep
<1>4. work' = [work EXCEPT ![w] = row]
    BY DEF NextStage
<1> HIDE DEF row
<1> QED BY <1>3, <1>4, WorkerGoesOn
-----------------------------------------------------------------------------
(* The steps of a worker that publish nothing. *)
StoresSound ==
    /\ roots \subseteq Version
    /\ vectors \in [Version -> {"none", "staged", "ready"}]
    /\ objects \subseteq Content

LEMMA StoresRest ==
    ASSUME IInv, UNCHANGED <<roots, vectors, objects>>
    PROVE  StoresSound'
BY DEF StoresSound, IInv, TypeOK, StoreTypeOK

LEMMA FaultsCounted ==
    ASSUME IInv
    PROVE  faults \in Nat /\ (Fault => faults' \in Nat)
BY DEF Fault, IInv, TypeOK, WorkTypeOK

QuietStep == Quiet /\ WorkersSound' /\ StoresSound'

LEMMA LeaseIsQuiet ==
    ASSUME IInv, NEW w \in Ingester, NEW j \in JobId, Lease(w, j)
    PROVE  QuietStep
<1>1. jobs[j] \in JobRow /\ w \in Worker
    BY IngesterAssumption DEF IInv, TypeOK, StoreTypeOK
<1>2. /\ Moves(jobs[j], Started(Leased(jobs[j], w)))
      /\ jobs[j].type = "ingest" /\ jobs[j].status # "absent"
    BY <1>1, LeasedRowMoves DEF Lease
<1>3. RowsMove
    BY <1>2, OneRowMoves DEF Lease
<1>4. VersionsStay /\ NothingPublished /\ StoresSound'
    BY NoVersionMoves, NoDocumentMoves, StoresRest DEF Lease
<1>5. WorkersSound'
  <2> DEFINE row == [IdleWork EXCEPT !.step = "prepare", !.job = j]
  <2>0. 1 \in 1 .. Finalizing /\ "prepare" \in WorkStep
      BY StagesAssumption DEF WorkStep, Finalizing
  <2>1. row \in WorkRow
      BY <2>0 DEF IdleWork, WorkRow, Mark, NoMark
  <2>2. row.step = "prepare" /\ row.job = j
      BY DEF IdleWork
  <2>3. RowsRemain
      BY <1>3, MovingRowsRemain
  <2>4. work' = [work EXCEPT ![w] = row] /\ faults' = faults
      BY DEF Lease
  <2> HIDE DEF row
  <2> QED
      BY <1>2, <2>1, <2>2, <2>3, <2>4
         DEF WorkersSound, WorkTypeOK, WorkersHaveJobs, RowsRemain, IInv, TypeOK
<1> QED BY <1>3, <1>4, <1>5 DEF QuietStep, Quiet

(* prepare opens nothing: it only marks document and version. *)
LEMMA PrepareIsQuiet ==
    ASSUME IInv, NEW w \in Ingester, Prepare(w)
    PROVE  QuietStep
<1>1. /\ work[w].step # "idle" /\ VersionOf(w) \in Version
      /\ vers[VersionOf(w)].status # "absent" /\ JobOf(w).doc \in Doc
    BY WorkerHasJob DEF Prepare, At
<1>2. RowsMove /\ StoresSound' /\ RowsRemain
    BY NoRowMoves, StoresRest, MovingRowsRemain DEF Prepare
<1>3. faults' \in Nat
    BY FaultsCounted DEF Prepare
<1>4. WorkersSound'
  <2>1. Goto(w, "checkpoint") \/ Goto(w, "settle_unprepared")
      BY DEF Prepare
  <2> QED BY <1>1, <1>2, <1>3, <2>1, WorkerGoes DEF WorkStep
<1>5. CASE UNCHANGED <<docs, vers>>
  <2>1. VersionsStay /\ NothingPublished
      BY <1>5, NoVersionMoves, NoDocumentMoves DEF Prepare
  <2> QED BY <1>2, <1>4, <2>1 DEF QuietStep, Quiet
<1>6. CASE /\ docs' = [docs EXCEPT ![JobOf(w).doc].status = "processing"]
           /\ vers' = [vers EXCEPT ![VersionOf(w)].status = "processing"]
  <2>1. /\ vers \in [Version -> [doc : Doc, content : Content, status : VersionStatus]]
        /\ docs \in [Doc -> [status : DocStatus, active : Version \cup {NoVersion}]]
        /\ claims \in [Content -> Version \cup {NoVersion}] /\ claims' = claims
      BY DEF IInv, TypeOK, StoreTypeOK, Prepare
  <2>2. VersionsStay
      BY <1>1, <1>6, <2>1 DEF VersionsStay, VersionStatus
  <2>3. NothingPublished
      BY <1>1, <1>6, <2>1 DEF NothingPublished, DeletionAsked, Opened, DocStatus, IInv, ActiveIsOwn
  <2> QED BY <1>2, <1>4, <2>2, <2>3 DEF QuietStep, Quiet
<1> QED BY <1>5, <1>6 DEF Prepare

LEMMA CheckpointIsQuiet ==
    ASSUME IInv, NEW w \in Ingester, Checkpoint(w)
    PROVE  QuietStep
<1>1. /\ work[w].step # "idle" /\ work[w].job \in JobId /\ JobOf(w) \in JobRow
      /\ work[w].stage \in 0 .. Done
    BY WorkerHasJob DEF Checkpoint, At
<1>2. RowsMove
  <2>1. CASE CheckpointAccepts(JobOf(w), w, work[w].stage)
    <3>1. Moves(JobOf(w), Checkpointed(JobOf(w), work[w].stage))
        BY <1>1, <2>1, ActiveRowMoves DEF CheckpointAccepts, OwnedRunning, OwnedActive
    <3> QED BY <1>1, <2>1, <3>1, OneRowMoves DEF Checkpoint, SetJob, JobOf
  <2>2. CASE ~CheckpointAccepts(JobOf(w), w, work[w].stage)
      BY <2>2, NoRowMoves DEF Checkpoint
  <2> QED BY <2>1, <2>2
<1>3. VersionsStay /\ NothingPublished /\ StoresSound'
    BY NoVersionMoves, NoDocumentMoves, StoresRest DEF Checkpoint
<1>4. WorkersSound'
  <2>1. Goto(w, "cancel_vectors") \/ Goto(w, "work") \/ Goto(w, "undo_vectors")
      BY DEF Checkpoint
  <2>2. faults' \in Nat /\ RowsRemain
      BY <1>2, FaultsCounted, MovingRowsRemain DEF Checkpoint
  <2> QED BY <1>1, <2>1, <2>2, WorkerGoes DEF WorkStep
<1> QED BY <1>2, <1>3, <1>4 DEF QuietStep, Quiet

LEMMA HeartbeatIsQuiet ==
    ASSUME IInv, NEW w \in Ingester, Heartbeat(w)
    PROVE  QuietStep
<1>1. /\ work[w].job \in JobId /\ JobOf(w) \in JobRow /\ work[w].stage \in 0 .. Done
    BY WorkerHasJob DEF Heartbeat
<1>2. Moves(JobOf(w), Renewed(JobOf(w), work[w].stage))
    BY <1>1, ActiveRowMoves DEF Heartbeat, HeartbeatAccepts, OwnedActive
<1>3. RowsMove
    BY <1>1, <1>2, OneRowMoves DEF Heartbeat, SetJob, JobOf
<1>4. VersionsStay /\ NothingPublished /\ StoresSound'
    BY NoVersionMoves, NoDocumentMoves, StoresRest DEF Heartbeat
<1>5. WorkersSound'
    BY <1>3, FaultsCounted, MovingRowsRemain, WorkersRest DEF Heartbeat, pipelineVars
<1> QED BY <1>3, <1>4, <1>5 DEF QuietStep, Quiet

(* Steps that change none of the rows, documents and versions. *)
LEMMA ProcessingIsQuiet ==
    ASSUME IInv, NEW w \in Ingester,
           \/ Compute(w) \/ Persist(w) \/ StageVectors(w) \/ ActivateVectors(w)
           \/ VerifyVectors(w) \/ RejectCount(w) \/ Unproject(w)
           \/ RemoveVectors(w) \/ RemoveRoots(w)
    PROVE  QuietStep
<1>1. UNCHANGED <<docs, vers, claims, jobs, target, faults>>
    BY DEF Compute, Persist, StageVectors, ActivateVectors, VerifyVectors, RejectCount,
           Unproject, RemoveVectors, RemoveRoots, Project, storeVars
<1>2. work[w].step # "idle" /\ VersionOf(w) \in Version
  <2>1. work[w].step # "idle"
      BY DEF Compute, Persist, StageVectors, ActivateVectors, VerifyVectors, RejectCount,
             Unproject, RemoveVectors, RemoveRoots, At
  <2> QED BY <2>1, WorkerHasJob
<1>3. Quiet /\ RowsRemain /\ faults' \in Nat
    BY <1>1, NoRowMoves, NoVersionMoves, NoDocumentMoves, MovingRowsRemain, FaultsCounted
       DEF Quiet
<1>4. StoresSound'
  <2>1. /\ roots \subseteq Version /\ objects \subseteq Content
        /\ vectors \in [Version -> {"none", "staged", "ready"}]
      BY DEF IInv, TypeOK, StoreTypeOK
  <2> QED
      BY <1>2, <2>1
         DEF StoresSound, Compute, Persist, StageVectors, ActivateVectors, VerifyVectors,
             RejectCount, Unproject, RemoveVectors, RemoveRoots, Project, storeVars
<1>5. work[w] \in WorkRow
    BY DEF IInv, TypeOK, WorkTypeOK
<1>6. WorkersSound'
  <2>1. CASE NextStage(w) /\ work[w].stage < Finalizing
      BY <1>2, <1>3, <2>1, WorkerAdvances
  <2>2. CASE \E step \in WorkStep : /\ Goto(w, step)
                                    /\ step \in {"activate", "verify", "unproject"}
                                          => work[w].stage = Projecting
      BY <1>2, <1>3, <2>2, WorkerGoes
  <2>3. CASE \E terminal \in BOOLEAN :
                work' = [work EXCEPT ![w].step = "undo_vectors", ![w].terminal = terminal]
    <3>1. PICK terminal \in BOOLEAN :
              work' = [work EXCEPT ![w].step = "undo_vectors", ![w].terminal = terminal]
        BY <2>3
    <3> DEFINE row == [work[w] EXCEPT !.step = "undo_vectors", !.terminal = terminal]
    <3>2. /\ row \in WorkRow
          /\ row.step = "undo_vectors" /\ row.job = work[w].job
        BY <1>5 DEF WorkRow, WorkStep
    <3>3. work' = [work EXCEPT ![w] = row]
        BY <3>1
    <3> HIDE DEF row
    <3> QED BY <1>2, <1>3, <3>2, <3>3, WorkerGoesOn
  <2>4. CASE Compute(w)
    <3>1. work[w].stage <= ComputeStages => work[w].stage < Finalizing
        BY <1>5, StagesAssumption DEF Finalizing, WorkRow
    <3>2. CASE NextStage(w) /\ work[w].stage <= ComputeStages
        BY <2>1, <3>1, <3>2
    <3>3. CASE \E c \in {vers[VersionOf(w)].content} :
                  work' = [work EXCEPT ![w].step = "undo_vectors",
                                       ![w].terminal = c \in objects]
      <4>1. PICK c : work' = [work EXCEPT ![w].step = "undo_vectors",
                                          ![w].terminal = c \in objects]
          BY <3>3
      <4>2. (c \in objects) \in BOOLEAN
          OBVIOUS
      <4> QED BY <2>3, <4>1, <4>2
    <3> QED BY <2>4, <3>2, <3>3 DEF Compute
  <2>5. CASE Persist(w) \/ VerifyVectors(w)
    <3>1. work[w].stage \in {Persisting, Projecting}
        BY <2>5 DEF Persist, VerifyVectors, At, IInv, WorkersHaveJobs
    <3>2. work[w].stage < Finalizing
        BY <3>1, StagesAssumption DEF Persisting, Projecting, Finalizing
    <3> QED BY <2>1, <2>5, <3>2 DEF Persist, VerifyVectors
  <2>6. CASE StageVectors(w) \/ ActivateVectors(w) \/ RejectCount(w)
    <3>1. work[w].stage = Projecting
        BY <2>6 DEF StageVectors, ActivateVectors, RejectCount, At, IInv, WorkersHaveJobs
    <3>2. Goto(w, "activate") \/ Goto(w, "verify") \/ Goto(w, "unproject")
        BY <2>6 DEF StageVectors, ActivateVectors, RejectCount, Project
    <3> QED BY <2>2, <3>1, <3>2 DEF WorkStep
  <2>7. CASE Unproject(w) \/ RemoveVectors(w) \/ RemoveRoots(w)
    <3>1. \E step \in {"undo_vectors", "undo_roots", "cancel_roots", "settle", "cancel_mark"} :
              Goto(w, step)
        BY <2>7 DEF Unproject, RemoveVectors, RemoveRoots, Project
    <3> QED BY <2>2, <3>1 DEF WorkStep
  <2> QED BY <2>4, <2>5, <2>6, <2>7
<1> QED BY <1>3, <1>4, <1>6 DEF QuietStep

(* Without its guard finalize changes nothing. *)
Publishes(w) == Finalize(w) /\ VersionOf(w) \in roots /\ OwnedUncancelled(JobOf(w), w)

LEMMA RefusedFinalizeIsQuiet ==
    ASSUME IInv, NEW w \in Ingester, Finalize(w), ~Publishes(w)
    PROVE  QuietStep
<1>1. /\ UNCHANGED <<docs, vers, claims, jobs, target, faults, roots, vectors, objects>>
      /\ work[w].step # "idle" /\ Goto(w, "undo_vectors")
    BY DEF Finalize, Publishes, At
<1>2. Quiet /\ RowsRemain /\ faults' \in Nat /\ StoresSound'
    BY <1>1, NoRowMoves, NoVersionMoves, NoDocumentMoves, MovingRowsRemain, FaultsCounted,
       StoresRest DEF Quiet
<1> QED BY <1>1, <1>2, WorkerGoes DEF QuietStep, WorkStep

LEMMA SettleIsQuiet ==
    ASSUME IInv, NEW w \in Ingester,
           Settle(w) \/ SettleFailed(w) \/ ReadCancelled(w) \/ MarkCancelled(w)
    PROVE  QuietStep
<1>1. /\ work[w].step # "idle" /\ work[w].job \in JobId /\ JobOf(w) \in JobRow
      /\ VersionOf(w) \in Version /\ vers[VersionOf(w)].status # "absent"
      /\ vers[VersionOf(w)].doc = JobOf(w).doc
      /\ UNCHANGED <<claims, target, faults, roots, vectors, objects>>
  <2>1. /\ work[w].step # "idle"
        /\ UNCHANGED <<claims, target, faults, roots, vectors, objects>>
      BY DEF Settle, SettleFailed, ReadCancelled, MarkCancelled, At, storeVars
  <2> QED BY <2>1, WorkerHasJob
<1>2. work[w] \in WorkRow
    BY DEF IInv, TypeOK, WorkTypeOK
<1>3. VersionsStay /\ NothingPublished
  <2>1. MarkFailed(VersionOf(w), work[w].mark) \/ UNCHANGED <<docs, vers>>
      BY DEF Settle, SettleFailed, ReadCancelled, MarkCancelled, storeVars
  <2>2. CASE MarkFailed(VersionOf(w), work[w].mark)
    <3>1. /\ work[w].mark \in Mark
          /\ work[w].mark.doc = "ready" => Opened(vers[VersionOf(w)].doc)
        BY <1>1, <1>2 DEF WorkRow, IInv, MarksSound
    <3> QED BY <1>1, <2>2, <3>1, FailingIsQuiet
  <2>3. CASE UNCHANGED <<docs, vers>>
      BY <1>1, <2>3, NoVersionMoves, NoDocumentMoves
  <2> QED BY <2>1, <2>2, <2>3
<1>4. RowsMove
  <2>1. CASE UNCHANGED jobs
      BY <1>1, <2>1, NoRowMoves
  <2>2. CASE JobOf(w).status \in Active /\ \E row \in {Released(JobOf(w), "failed"),
                                                       Retried(JobOf(w))} : SetJob(w, row)
    <3>1. 0 \in 0 .. Done
        BY DoneAssumption
    <3> QED BY <1>1, <2>2, <3>1, ActiveRowMoves, OneRowMoves DEF SetJob, JobOf
  <2>3. CASE ReadCancelled(w) \/ MarkCancelled(w)
      BY <2>1, <2>3 DEF ReadCancelled, MarkCancelled, storeVars
  <2>4. CASE SettleFailed(w)
    <3>1. JobOf(w).status \in Active
        BY <2>4 DEF SettleFailed, IInv, SettlersHold, Active
    <3> QED BY <2>2, <2>4, <3>1 DEF SettleFailed
  <2>5. CASE Settle(w)
      BY <2>1, <2>2, <2>5 DEF Settle, OwnedUncancelled, OwnedRunning, OwnedActive
  <2> QED BY <2>3, <2>4, <2>5
<1>5. RowsRemain /\ faults' \in Nat /\ StoresSound'
    BY <1>1, <1>4, MovingRowsRemain, FaultsCounted, StoresRest
<1>6. WorkersSound'
  <2>1. CASE Stop(w)
      BY <1>5, <2>1, WorkerStops
  <2>2. CASE \E next \in {"settling", "marking"} : ReadMark(w, next)
    <3>1. PICK next \in {"settling", "marking"} : ReadMark(w, next)
        BY <2>2
    <3> DEFINE row == [work[w] EXCEPT !.step = next, !.mark = MarkOf(VersionOf(w))]
    <3>2. MarkOf(VersionOf(w)) \in Mark
        BY DEF MarkOf, Mark
    <3>3. /\ row \in WorkRow /\ row.step = next /\ row.job = work[w].job
        BY <1>2, <3>2 DEF WorkRow, WorkStep
    <3>4. work' = [work EXCEPT ![w] = row]
        BY <3>1 DEF ReadMark
    <3> HIDE DEF row
    <3> QED BY <1>1, <1>5, <3>3, <3>4, WorkerGoesOn
  <2> QED BY <2>1, <2>2 DEF Settle, SettleFailed, ReadCancelled, MarkCancelled
<1> QED BY <1>3, <1>4, <1>5, <1>6 DEF QuietStep, Quiet

(* A failed step leaves the stores alone: the handlers only choose where   *)
(* the worker goes on.                                                     *)
LEMMA FailureIsQuiet ==
    ASSUME IInv, NEW w \in Ingester, StepFails(w) \/ Crash(w)
    PROVE  QuietStep
<1>1. /\ work[w].step # "idle" /\ faults' \in Nat
      /\ UNCHANGED <<docs, vers, claims, jobs, target, roots, vectors, objects>>
    BY FaultsCounted DEF StepFails, Crash, At, storeVars
<1>2. Quiet /\ RowsRemain /\ StoresSound'
    BY <1>1, NoRowMoves, NoVersionMoves, NoDocumentMoves, MovingRowsRemain, StoresRest
       DEF Quiet
<1>3. Stop(w) \/ \E step \in AfterFailure(w) : step # "idle" /\ Goto(w, step)
    BY DEF StepFails, Crash
<1>4. CASE Stop(w)
    BY <1>1, <1>2, <1>4, WorkerStops DEF QuietStep
<1>5. CASE \E step \in AfterFailure(w) : step # "idle" /\ Goto(w, step)
  <2>1. PICK step \in AfterFailure(w) : step # "idle" /\ Goto(w, step)
      BY <1>5
  <2>2. /\ work[w].step \in WorkStep
        /\ work[w].step \in {"activate", "verify", "unproject"} => work[w].stage = Projecting
      BY DEF IInv, TypeOK, WorkTypeOK, WorkRow, WorkersHaveJobs
  <2>3. /\ step \in {"settle_unprepared", "unproject", "undo_vectors", "undo_roots",
                     "cancel_roots"}
        /\ step = "unproject" => work[w].stage = Projecting
    <3>1. CASE work[w].step = "prepare"
        BY <2>1, <3>1 DEF AfterFailure
    <3>2. CASE work[w].step = "work" /\ work[w].stage = Projecting
        BY <2>1, <3>2 DEF AfterFailure
    <3>3. CASE work[w].step = "work" /\ work[w].stage # Projecting
        BY <2>1, <3>3 DEF AfterFailure
    <3>4. CASE work[w].step \in {"checkpoint", "unproject"}
        BY <2>1, <3>4 DEF AfterFailure
    <3>5. CASE work[w].step \in {"activate", "verify"}
        BY <2>1, <2>2, <3>5 DEF AfterFailure
    <3>6. CASE work[w].step \in {"undo_vectors", "cancel_vectors"}
        BY <2>1, <3>6 DEF AfterFailure
    <3>7. CASE work[w].step \in {"undo_roots", "settle", "settle_unprepared",
                                 "cancel_roots", "cancel_mark", "settling", "marking"}
        BY <2>1, <3>7 DEF AfterFailure
    <3> QED BY <1>1, <2>2, <3>1, <3>2, <3>3, <3>4, <3>5, <3>6, <3>7 DEF WorkStep
  <2> QED BY <1>1, <1>2, <2>1, <2>3, WorkerGoes DEF QuietStep, WorkStep
<1> QED BY <1>3, <1>4, <1>5

(* Time and the poll loop act on rows only. *)
LEMMA RecoveryIsQuiet ==
    ASSUME IInv, NEW j \in JobId, Recover(j) \/ LeaseRunsOut(j)
    PROVE  QuietStep
<1>1. /\ faults' \in Nat /\ work' = work
      /\ UNCHANGED <<docs, vers, claims, target, roots, vectors, objects>>
    BY FaultsCounted DEF Recover, LeaseRunsOut, pipelineVars
<1>2. jobs[j] \in JobRow
    BY DEF IInv, TypeOK, StoreTypeOK
<1>3. RowsMove
  <2>1. CASE Recover(j)
    <3>1. 0 \in 0 .. Done
        BY DoneAssumption
    <3>2. Moves(jobs[j], Recovered(jobs[j]))
        BY <1>2, <2>1, <3>1, ActiveRowMoves DEF Recover, Expired
    <3> QED BY <1>1, <2>1, <3>2, OneRowMoves DEF Recover
  <2>2. CASE LeaseRunsOut(j)
      BY <1>1, <1>2, <2>2, RowMoves, OneRowMoves DEF LeaseRunsOut
  <2> QED BY <2>1, <2>2
<1>4. VersionsStay /\ NothingPublished /\ StoresSound' /\ WorkersSound'
    BY <1>1, <1>3, NoVersionMoves, NoDocumentMoves, StoresRest, MovingRowsRemain, WorkersRest
<1> QED BY <1>3, <1>4 DEF QuietStep, Quiet

(* All that a worker, the poll loop and time do but publish. *)
LEMMA PipelineIsQuiet ==
    ASSUME IInv, PipelineNext, \A w \in Ingester : ~Publishes(w)
    PROVE  QuietStep
<1>1. CASE \E w \in Ingester, j \in JobId : Lease(w, j)
    BY <1>1, LeaseIsQuiet
<1>2. CASE \E w \in Ingester : Prepare(w) \/ Checkpoint(w) \/ Heartbeat(w)
    BY <1>2, PrepareIsQuiet, CheckpointIsQuiet, HeartbeatIsQuiet
<1>3. CASE \E w \in Ingester :
               \/ Compute(w) \/ Persist(w) \/ StageVectors(w) \/ ActivateVectors(w)
               \/ VerifyVectors(w) \/ RejectCount(w) \/ Unproject(w)
               \/ RemoveVectors(w) \/ RemoveRoots(w)
    BY <1>3, ProcessingIsQuiet
<1>4. CASE \E w \in Ingester : Finalize(w)
    BY <1>4, RefusedFinalizeIsQuiet
<1>5. CASE \E w \in Ingester :
               Settle(w) \/ SettleFailed(w) \/ ReadCancelled(w) \/ MarkCancelled(w)
    BY <1>5, SettleIsQuiet
<1>6. CASE \E w \in Ingester : StepFails(w) \/ Crash(w)
    BY <1>6, FailureIsQuiet
<1>7. CASE \E j \in JobId : Recover(j)
    BY <1>7, RecoveryIsQuiet
<1> QED BY <1>1, <1>2, <1>3, <1>4, <1>5, <1>6, <1>7 DEF PipelineNext, Advance

-----------------------------------------------------------------------------
(* No step of the deletion saga publishes, and each leaves the workers     *)
(* alone.                                                                  *)
LEMMA IdleDeletionSound ==
    /\ IdleDeletion \in [step : DeletionStep, job : JobId \cup {NoJob},
                         versions : SUBSET Version, left : SUBSET Version]
BY DEF IdleDeletion, DeletionStep

LEMMA DeleterStops ==
    ASSUME del' = IdleDeletion
    PROVE  DeleterSound'
BY IdleDeletionSound DEF DeleterSound, DeletionTypeOK, DeleterHasItsJob

LEMMA DeleterGoesOn ==
    ASSUME IInv, RowsRemain, del # IdleDeletion,
           del' \in [step : DeletionStep, job : JobId \cup {NoJob},
                     versions : SUBSET Version, left : SUBSET Version],
           del'.job = del.job
    PROVE  DeleterSound'
BY DEF DeleterSound, DeletionTypeOK, DeleterHasItsJob, RowsRemain, IInv

LEMMA LeaseDeletionIsQuiet ==
    ASSUME IInv, NEW j \in JobId, LeaseDeletion(j)
    PROVE  Quiet /\ StoresSound' /\ DeleterSound'
<1>1. jobs[j] \in JobRow
    BY DEF IInv, TypeOK, StoreTypeOK
<1>2. /\ Moves(jobs[j], Started(Leased(jobs[j], Deleter)))
      /\ jobs[j].type = "delete" /\ jobs[j].status # "absent"
    BY <1>1, DeleterAssumption, LeasedRowMoves DEF LeaseDeletion
<1>3. RowsMove
    BY <1>2, OneRowMoves DEF LeaseDeletion
<1>4. VersionsStay /\ NothingPublished /\ StoresSound'
    BY NoVersionMoves, NoDocumentMoves, StoresRest DEF LeaseDeletion
<1>5. DeleterSound'
  <2>1. /\ del' \in [step : DeletionStep, job : JobId \cup {NoJob},
                     versions : SUBSET Version, left : SUBSET Version]
        /\ del'.job = j
      BY DEF LeaseDeletion, IdleDeletion, DeletionStep
  <2> QED
      BY <1>2, <1>3, <2>1, MovingRowsRemain
         DEF DeleterSound, DeletionTypeOK, DeleterHasItsJob, RowsRemain
<1> QED BY <1>3, <1>4, <1>5 DEF Quiet

(* Cleaning up marks versions deleted, never indexed; claims are freed. *)
LEMMA CleanupIsQuiet ==
    ASSUME IInv, CleanupContent
    PROVE  Quiet /\ StoresSound' /\ RowsRemain
<1>1. /\ vers \in [Version -> [doc : Doc, content : Content, status : VersionStatus]]
      /\ claims \in [Content -> Version \cup {NoVersion}]
      /\ docs \in [Doc -> [status : DocStatus, active : Version \cup {NoVersion}]]
      /\ roots \subseteq Version /\ objects \subseteq Content
      /\ vectors \in [Version -> {"none", "staged", "ready"}]
    BY DEF IInv, TypeOK, StoreTypeOK
<1> DEFINE gone == VersionsOf(DeletedDoc)
<1>2. /\ vers' = [v \in Version |-> IF v \in gone THEN [vers[v] EXCEPT !.status = "deleted"]
                                    ELSE vers[v]]
      /\ claims' = [c \in Content |-> IF claims[c] \in gone THEN NoVersion ELSE claims[c]]
      /\ roots' = roots \ gone
      /\ UNCHANGED <<docs, vectors, objects, jobs, target>>
    BY DEF CleanupContent
<1>3. \A v \in gone : v \in Version /\ vers[v].status # "absent"
    BY DEF VersionsOf
<1> HIDE DEF gone
<1>4. VersionsStay
    BY <1>1, <1>2, <1>3 DEF VersionsStay, VersionStatus
<1>5. NothingPublished
    BY <1>1, <1>2 DEF NothingPublished, DeletionAsked, Opened, IInv, ActiveIsOwn
<1>6. RowsMove /\ RowsRemain
    BY <1>2, NoRowMoves, MovingRowsRemain
<1> QED BY <1>1, <1>2, <1>4, <1>5, <1>6 DEF Quiet, StoresSound

LEMMA FinalizeDeletionIsQuiet ==
    ASSUME IInv, FinalizeDeletion
    PROVE  Quiet /\ StoresSound'
<1>1. /\ del.job \in JobId /\ jobs[del.job] \in JobRow /\ DeletedDoc \in Doc
    BY DeleterHasJob DEF FinalizeDeletion, IdleDeletion
<1>2. CASE UNCHANGED <<docs, jobs>>
  <2>1. UNCHANGED <<vers, claims, roots, vectors, objects, target>>
      BY DEF FinalizeDeletion
  <2> QED BY <1>2, <2>1, NoRowMoves, NoVersionMoves, NoDocumentMoves, StoresRest DEF Quiet
<1>3. CASE /\ jobs[del.job].status = "running"
           /\ docs' = [docs EXCEPT ![DeletedDoc] =
                           [status |-> "deleted", active |-> NoVersion]]
           /\ jobs' = [jobs EXCEPT ![del.job] = Succeeded(@)]
  <2>1. UNCHANGED <<vers, claims, roots, vectors, objects, target>>
      BY DEF FinalizeDeletion
  <2>2. 0 \in 0 .. Done
      BY DoneAssumption
  <2>3. Moves(jobs[del.job], Succeeded(jobs[del.job]))
      BY <1>1, <1>3, <2>2, ActiveRowMoves DEF Active
  <2>4. RowsMove
      BY <1>1, <1>3, <2>1, <2>3, OneRowMoves
  <2>5. docs \in [Doc -> [status : DocStatus, active : Version \cup {NoVersion}]]
      BY DEF IInv, TypeOK, StoreTypeOK
  <2>6. del.job \in JobsOf(DeletedDoc, "delete")
      BY DeleterHasJob DEF FinalizeDeletion, IdleDeletion, JobsOf, DeletedDoc
  <2>7. NothingPublished
      BY <1>1, <1>3, <2>1, <2>5, <2>6 DEF NothingPublished, DeletionAsked, Opened, DocStatus, IInv, ActiveIsOwn
  <2> QED BY <2>1, <2>4, <2>7, NoVersionMoves, StoresRest DEF Quiet
<1> QED BY <1>2, <1>3 DEF FinalizeDeletion

LEMMA DeletionIsQuiet ==
    ASSUME IInv, DeletionNext
    PROVE  QuietStep /\ DeleterSound'
<1>0. del \in [step : DeletionStep, job : JobId \cup {NoJob},
               versions : SUBSET Version, left : SUBSET Version]
    BY DEF IInv, TypeOK, DeletionTypeOK
<1>1. work' = work /\ faults' \in Nat
    BY FaultsCounted DEF DeletionNext, pipelineVars
<1>2. CASE \E j \in JobId : LeaseDeletion(j)
  <2>1. Quiet /\ StoresSound' /\ DeleterSound'
      BY <1>2, LeaseDeletionIsQuiet
  <2> QED BY <1>1, <2>1, MovingRowsRemain, WorkersRest DEF QuietStep, Quiet
<1>3. CASE LoadDeletion \/ StopDeletion
  <2>1. UNCHANGED <<docs, vers, claims, roots, vectors, objects, jobs, target>>
      BY <1>3 DEF LoadDeletion, StopDeletion, storeVars
  <2>2. Quiet /\ StoresSound' /\ RowsRemain
      BY <2>1, NoRowMoves, NoVersionMoves, NoDocumentMoves, StoresRest, MovingRowsRemain
         DEF Quiet
  <2>3. CASE del' = IdleDeletion
      BY <1>1, <2>2, <2>3, DeleterStops, WorkersRest DEF QuietStep
  <2>4. CASE LoadDeletion /\ del' # IdleDeletion
    <3>1. VersionsOf(DeletedDoc) \subseteq Version
        BY DEF VersionsOf
    <3>2. /\ del.step = "load" /\ "vectors" \in DeletionStep
          /\ del' = [del EXCEPT !.step = "vectors", !.versions = VersionsOf(DeletedDoc),
                                !.left = VersionsOf(DeletedDoc)]
        BY <2>4 DEF LoadDeletion, DeletionStep
    <3>3. /\ del' \in [step : DeletionStep, job : JobId \cup {NoJob},
                       versions : SUBSET Version, left : SUBSET Version]
          /\ del'.job = del.job
        BY <1>0, <3>1, <3>2
    <3>4. del # IdleDeletion
        BY <3>2 DEF IdleDeletion
    <3> QED BY <1>1, <3>3, <3>4, <2>2, <3>2, DeleterGoesOn, WorkersRest DEF QuietStep
  <2> QED BY <1>3, <2>3, <2>4 DEF StopDeletion
<1>4. CASE \/ \E v \in Version : DeleteVectors(v)
           \/ DeleteObjects
  <2>1. UNCHANGED <<docs, vers, claims, jobs, target>>
      BY <1>4 DEF DeleteVectors, DeleteObjects
  <2>2. Quiet /\ RowsRemain
      BY <2>1, NoRowMoves, NoVersionMoves, NoDocumentMoves, MovingRowsRemain DEF Quiet
  <2>3. StoresSound'
      BY <1>4 DEF DeleteVectors, DeleteObjects, StoresSound, IInv, TypeOK, StoreTypeOK
  <2>4. \E step \in DeletionStep : \E left \in SUBSET del.left :
            del' = [del EXCEPT !.step = step, !.left = left]
    <3>1. CASE DeleteObjects
      <4>1. del' = [del EXCEPT !.step = "finalize", !.left = del.left]
          BY <1>0, <3>1 DEF DeleteObjects
      <4> QED BY <4>1 DEF DeletionStep
    <3>2. CASE \E v \in Version : DeleteVectors(v)
      <4>1. PICK v \in Version : DeleteVectors(v)
          BY <3>2
      <4>2. CASE del.left = {v}
        <5>1. del' = [del EXCEPT !.step = "cleanup", !.left = del.left \ {v}]
            BY <1>0, <4>1, <4>2 DEF DeleteVectors
        <5> QED BY <5>1 DEF DeletionStep
      <4>3. CASE del.left # {v}
        <5>1. del' = [del EXCEPT !.step = del.step, !.left = del.left \ {v}]
            BY <1>0, <4>1, <4>3 DEF DeleteVectors
        <5> QED BY <1>0, <5>1
      <4> QED BY <4>2, <4>3
    <3> QED BY <1>4, <3>1, <3>2
  <2>5. /\ del' \in [step : DeletionStep, job : JobId \cup {NoJob},
                     versions : SUBSET Version, left : SUBSET Version]
        /\ del'.job = del.job
      BY <1>0, <2>4
  <2>6. del # IdleDeletion
    <3>1. del.step # "idle"
        BY <1>4 DEF DeleteVectors, DeleteObjects
    <3> QED BY <3>1 DEF IdleDeletion
  <2> QED BY <1>1, <2>2, <2>3, <2>5, <2>6, DeleterGoesOn, WorkersRest DEF QuietStep
<1>5. CASE CleanupContent
  <2>1. Quiet /\ StoresSound' /\ RowsRemain
      BY <1>5, CleanupIsQuiet
  <2>2. /\ del' \in [step : DeletionStep, job : JobId \cup {NoJob},
                     versions : SUBSET Version, left : SUBSET Version]
        /\ del'.job = del.job /\ del # IdleDeletion
      BY <1>0, <1>5 DEF CleanupContent, DeletionStep, IdleDeletion
  <2> QED BY <1>1, <2>1, <2>2, DeleterGoesOn, WorkersRest DEF QuietStep
<1>6. CASE FinalizeDeletion
  <2>1. Quiet /\ StoresSound'
      BY <1>6, FinalizeDeletionIsQuiet
  <2>2. DeleterSound'
      BY <1>6, DeleterStops DEF FinalizeDeletion
  <2> QED BY <1>1, <2>1, <2>2, MovingRowsRemain, WorkersRest DEF QuietStep, Quiet
<1> QED BY <1>2, <1>3, <1>4, <1>5, <1>6 DEF DeletionNext, AdvanceDeletion
-----------------------------------------------------------------------------
(* The uploads that create no job. *)
LEMMA ReviveIsQuiet ==
    ASSUME IInv, NEW v \in Version, vers[v].status # "absent", ReviveClaim(v),
           claims' = claims
    PROVE  VersionsStay /\ NothingPublished
<1>1. CASE ~Revived(v)
    BY <1>1, NoVersionMoves, NoDocumentMoves DEF ReviveClaim
<1>2. CASE Revived(v)
  <2>1. /\ vers' = [vers EXCEPT ![v].status = "pending"]
        /\ docs' = [docs EXCEPT ![vers[v].doc].status = "processing"]
      BY <1>2 DEF ReviveClaim
  <2>2. /\ vers \in [Version -> [doc : Doc, content : Content, status : VersionStatus]]
        /\ docs \in [Doc -> [status : DocStatus, active : Version \cup {NoVersion}]]
        /\ claims \in [Content -> Version \cup {NoVersion}]
      BY DEF IInv, TypeOK, StoreTypeOK
  <2>3. VersionsStay
      BY <2>1, <2>2 DEF VersionsStay, VersionStatus
  <2>4. NothingPublished
      BY <2>1, <2>2 DEF NothingPublished, DeletionAsked, Opened, DocStatus, IInv, ActiveIsOwn
  <2> QED BY <2>3, <2>4
<1> QED BY <1>1, <1>2

LEMMA StoringIsSound ==
    ASSUME IInv, NEW c \in Content, objects' = Stored(c), UNCHANGED <<roots, vectors>>
    PROVE  StoresSound'
BY DEF StoresSound, Stored, IInv, TypeOK, StoreTypeOK

LEMMA ClaimedExists ==
    ASSUME IInv, NEW c \in Content, claims[c] # NoVersion
    PROVE  /\ claims[c] \in Version
           /\ vers[claims[c]].status # "absent" /\ vers[claims[c]].doc \in Doc
BY DEF IInv, TypeOK, StoreTypeOK, LatestExist

LEMMA QuietUpload ==
    ASSUME IInv, NEW c \in Content, UNCHANGED <<jobs, target, work, faults>>,
           \/ \E j \in JobId : RegisterDuplicate(c, j)
           \/ \E d \in Doc : RegisterConflict(d, c)
    PROVE  QuietStep
<1>1. RowsMove /\ WorkersSound'
    BY NoRowMoves, MovingRowsRemain, FaultsCounted, WorkersRest
<1>2. CASE \E j \in JobId : RegisterDuplicate(c, j)
  <2>1. /\ claims[c] # NoVersion /\ ReviveClaim(claims[c]) /\ objects' = Stored(c)
        /\ UNCHANGED <<claims, roots, vectors>>
      BY <1>2 DEF RegisterDuplicate
  <2>2. VersionsStay /\ NothingPublished
      BY <2>1, ClaimedExists, ReviveIsQuiet
  <2> QED BY <1>1, <2>1, <2>2, StoringIsSound DEF QuietStep, Quiet
<1>3. CASE \E d \in Doc : RegisterConflict(d, c)
  <2>1. UNCHANGED <<docs, vers, claims, roots, vectors>> /\ objects' = Stored(c)
      BY <1>3 DEF RegisterConflict
  <2> QED BY <1>1, <2>1, NoVersionMoves, NoDocumentMoves, StoringIsSound DEF QuietStep, Quiet
<1> QED BY <1>2, <1>3

-----------------------------------------------------------------------------
(* What holds between rows and versions, and what a step that creates none *)
(* of them keeps of it.                                                    *)
Ordered == RowsInOrder /\ LatestExist /\ OnlyLatestIsLive /\ UncancelledIsLater

LEMMA SetsStay ==
    ASSUME IInv, RowsMove, VersionsStay
    PROVE  /\ \A d \in Doc : \A type : JobsOf(d, type)' = JobsOf(d, type)
           /\ \A v : IngestJobsOf(v)' = IngestJobsOf(v)
           /\ \A d \in Doc : VersionsOf(d)' = VersionsOf(d)
           /\ \A j \in JobId : Live(j)' => Live(j)
<1>1. /\ jobs \in [JobId -> JobRow] /\ jobs' \in [JobId -> JobRow] /\ target' = target
      /\ \A j \in JobId : Moves(jobs[j], jobs'[j])
    BY DEF RowsMove, IInv, TypeOK, StoreTypeOK
<1>2. \A d \in Doc : \A type : JobsOf(d, type)' = JobsOf(d, type)
    BY <1>1 DEF JobsOf, Moves
<1>3. \A v : IngestJobsOf(v)' = IngestJobsOf(v)
    BY <1>1 DEF IngestJobsOf, Moves
<1>4. \A d \in Doc : VersionsOf(d)' = VersionsOf(d)
    BY DEF VersionsOf, VersionsStay
<1>5. ASSUME NEW j \in JobId, Live(j)'  PROVE Live(j)
  <2>1. jobs[j] \in JobRow /\ jobs'[j] \in JobRow /\ Moves(jobs[j], jobs'[j])
        /\ jobs'[j].status \in Waiting \cup Active
      BY <1>1, <1>5 DEF Live
  <2>2. jobs[j].status \notin Terminal /\ jobs[j].status # "absent"
      BY <2>1, StatusesApart DEF Moves
  <2>3. jobs[j].status \in JobStatus
      BY <2>1 DEF JobRow
  <2> QED BY <2>2, <2>3, StatusesApart DEF Live
<1> QED BY <1>2, <1>3, <1>4, <1>5

LEMMA OrderStays ==
    ASSUME IInv, RowsMove, VersionsStay
    PROVE  Ordered'
<1>1. /\ jobs \in [JobId -> JobRow] /\ jobs' \in [JobId -> JobRow] /\ target' = target
      /\ \A j \in JobId : Moves(jobs[j], jobs'[j])
    BY DEF RowsMove, IInv, TypeOK, StoreTypeOK
<1>2. RowsInOrder'
    BY <1>1 DEF RowsInOrder, IInv, Moves, VersionsStay
<1>3. LatestExist'
  <2>1. \A S : HasLatest(S)' = HasLatest(S)
      BY DEF HasLatest
  <2>2. \A v \in Version : (vers[v].status # "absent")' => vers[v].status # "absent"
      BY DEF VersionsStay
  <2>3. \A v \in Version : vers'[v].status # "absent" => HasLatest(IngestJobsOf(v))'
      BY <2>2, SetsStay DEF IInv, LatestExist, HasLatest
  <2>4. \A d \in Doc : VersionsOf(d)' # {} => HasLatest(VersionsOf(d))'
      BY SetsStay DEF IInv, LatestExist, HasLatest
  <2>5. \A c \in Content : claims'[c] # NoVersion => vers'[claims'[c]].status # "absent"
      BY DEF IInv, LatestExist, VersionsStay, NoVersion, Version
  <2> QED BY <2>3, <2>4, <2>5 DEF LatestExist
<1>4. OnlyLatestIsLive'
  <2> SUFFICES ASSUME NEW v \in Version, NEW i \in IngestJobsOf(v)', NEW j \in IngestJobsOf(v)',
                      i < j
               PROVE  ~Live(i)'
      BY DEF OnlyLatestIsLive
  <2>1. i \in IngestJobsOf(v) /\ j \in IngestJobsOf(v) /\ i \in JobId
      BY SetsStay DEF IngestJobsOf
  <2> QED BY <2>1, SetsStay DEF IInv, OnlyLatestIsLive
<1>5. UncancelledIsLater'
  <2> SUFFICES ASSUME NEW d \in Doc, NEW k \in JobsOf(d, "delete")',
                      NEW j \in JobsOf(d, "ingest")', Live(j)', ~jobs'[j].cancel
               PROVE  k < j
      BY DEF UncancelledIsLater
  <2>1. k \in JobsOf(d, "delete") /\ j \in JobsOf(d, "ingest") /\ j \in JobId
      BY SetsStay DEF JobsOf
  <2>2. Live(j) /\ ~jobs[j].cancel
      BY <1>1, <2>1, SetsStay DEF Moves
  <2> QED BY <2>1, <2>2 DEF IInv, UncancelledIsLater
<1> QED BY <1>2, <1>3, <1>4, <1>5 DEF Ordered

(* What holds of the active versions, and what a step that publishes       *)
(* nothing keeps of it.                                                    *)
ActiveSound == ActiveIsOwn /\ IndexedIsActive /\ ActiveIsLater

(* What was opened once has been so ever since. *)
OpenedStay == \A d \in Doc : Opened(d) => Opened(d)'

LEMMA ActiveStays ==
    ASSUME IInv, Quiet
    PROVE  ActiveSound' /\ OpenedStay
<1>1. RowsMove /\ VersionsStay /\ NothingPublished
    BY DEF Quiet
<1>0. \A d \in Doc : DeletionAsked(d) => JobsOf(d, "delete")' # {}
    BY <1>1, SetsStay DEF DeletionAsked
<1>5. OpenedStay
    BY <1>0, <1>1 DEF OpenedStay, Opened, NothingPublished, DeletionAsked
<1>2. ActiveIsOwn'
    BY <1>0, <1>1, SetsStay DEF ActiveIsOwn, Opened, NothingPublished, IInv
<1>3. IndexedIsActive'
  <2>1. ASSUME NEW v \in Version, vers'[v].status = "indexed"
        PROVE  docs'[vers'[v].doc].active = v \/ Hidden(vers[v].doc)'
    <3>1. /\ vers[v].status = "indexed" /\ vers'[v].doc = vers[v].doc /\ vers[v].doc \in Doc
        BY <1>1, <2>1 DEF NothingPublished, VersionsStay, IInv, TypeOK, StoreTypeOK
    <3>2. docs[vers[v].doc].active = v \/ Hidden(vers[v].doc)
        BY <3>1 DEF IInv, IndexedIsActive
    <3> QED BY <1>0, <1>1, <3>1, <3>2 DEF NothingPublished, Hidden, DeletionAsked
  <2>2. \A v \in Version : vers'[v].doc = vers[v].doc
      BY <1>1 DEF VersionsStay
  <2> QED BY <1>2, <2>1, <2>2 DEF IndexedIsActive, ActiveIsOwn, Opened, Hidden
<1>4. ActiveIsLater'
  <2> SUFFICES ASSUME NEW d \in Doc, docs'[d].active # NoVersion,
                      NEW k \in JobsOf(d, "delete")'
               PROVE  \E j \in JobsOf(d, "ingest")' :
                          j > k /\ jobs'[j].status = "succeeded" /\ target'[j] = docs'[d].active
      BY DEF ActiveIsLater
  <2>1. docs'[d].active = docs[d].active /\ k \in JobsOf(d, "delete")
      BY <1>1, SetsStay DEF NothingPublished, NoVersion
  <2>2. PICK j \in JobsOf(d, "ingest") :
            j > k /\ jobs[j].status = "succeeded" /\ target[j] = docs[d].active
      BY <2>1 DEF IInv, ActiveIsLater
  <2>3. j \in JobId /\ jobs'[j].status = "succeeded" /\ target'[j] = target[j]
      BY <1>1, <2>2 DEF JobsOf, RowsMove, Moves, Terminal
  <2> QED BY <1>1, <2>1, <2>2, <2>3, SetsStay
<1> QED BY <1>2, <1>3, <1>4, <1>5 DEF ActiveSound
-----------------------------------------------------------------------------
(* finalize: the one step that publishes.  Its job is uncancelled and not  *)
(* settled, so it was queued after every deletion of the document.         *)
LEMMA PublishingIsSound ==
    ASSUME IInv, NEW w \in Ingester, Publishes(w)
    PROVE  /\ RowsMove /\ VersionsStay /\ WorkersSound' /\ StoresSound'
           /\ docs' \in [Doc -> [status : DocStatus, active : Version \cup {NoVersion}]]
           /\ ActiveSound' /\ OpenedStay
<1> DEFINE v == VersionOf(w)
           d == JobOf(w).doc
           k == work[w].job
<1>1. /\ k \in JobId /\ jobs[k] \in JobRow /\ jobs[k].status = "running" /\ ~jobs[k].cancel
      /\ jobs[k].type = "ingest" /\ jobs[k].doc = d /\ target[k] = v
      /\ v \in Version /\ vers[v].status # "absent" /\ vers[v].doc = d /\ d \in Doc
      /\ work[w].step # "idle"
  <2>1. work[w].step # "idle" /\ JobOf(w).status = "running" /\ ~JobOf(w).cancel
      BY DEF Publishes, Finalize, At, OwnedUncancelled, OwnedRunning
  <2> QED BY <2>1, WorkerHasJob DEF JobOf, VersionOf
<1>2. /\ vers' = Published(v)
      /\ docs' = [docs EXCEPT ![d] = [status |-> "ready", active |-> v]]
      /\ jobs' = [jobs EXCEPT ![k] = Succeeded(jobs[k])]
      /\ Stop(w)
      /\ UNCHANGED <<claims, roots, vectors, objects, target, faults>>
    BY <1>1 DEF Publishes, Finalize, SetJob, JobOf
<1> HIDE DEF v, d, k
<1>3. /\ vers \in [Version -> [doc : Doc, content : Content, status : VersionStatus]]
      /\ docs \in [Doc -> [status : DocStatus, active : Version \cup {NoVersion}]]
      /\ claims \in [Content -> Version \cup {NoVersion}]
      /\ jobs \in [JobId -> JobRow]
    BY DEF IInv, TypeOK, StoreTypeOK
<1>4. RowsMove
  <2>1. 0 \in 0 .. Done /\ jobs[k].status \in Active
      BY <1>1, DoneAssumption DEF Active
  <2>2. Moves(jobs[k], Succeeded(jobs[k]))
      BY <1>1, <2>1, ActiveRowMoves
  <2> QED BY <1>1, <1>2, <2>2, OneRowMoves
<1>5. VersionsStay
    BY <1>1, <1>2, <1>3 DEF VersionsStay, Published, VersionStatus
<1>6. WorkersSound' /\ StoresSound'
    BY <1>1, <1>2, <1>4, MovingRowsRemain, FaultsCounted, WorkerStops, StoresRest
<1>7. docs' \in [Doc -> [status : DocStatus, active : Version \cup {NoVersion}]]
    BY <1>1, <1>2, <1>3 DEF DocStatus
<1>8. docs'[d].active = v /\ \A e \in Doc \ {d} : docs'[e] = docs[e]
    BY <1>1, <1>2, <1>3
<1>9. v \in VersionsOf(d) /\ v # NoVersion
    BY <1>1 DEF VersionsOf, Version, NoVersion
<1>10. ActiveIsOwn'
    BY <1>2, <1>3, <1>4, <1>5, <1>8, <1>9, SetsStay DEF ActiveIsOwn, Opened, IInv
<1>13. OpenedStay
    BY <1>4, <1>5, <1>8, <1>9, SetsStay DEF OpenedStay, Opened
<1>11. IndexedIsActive'
  <2>1. ASSUME NEW u \in Version, vers'[u].status = "indexed"
        PROVE  docs'[vers'[u].doc].active = u \/ Hidden(vers[u].doc)'
    <3>1. vers'[u].doc = vers[u].doc /\ vers[u].doc \in Doc
        BY <1>3, <1>5 DEF VersionsStay
    <3>2. CASE u = v
        BY <1>1, <1>8, <3>1, <3>2
    <3>3. CASE u # v
      <4>1. vers[u].status = "indexed" /\ vers[u].doc # d
          BY <1>1, <1>2, <1>3, <2>1, <3>3 DEF Published
      <4>2. docs[vers[u].doc].active = u \/ Hidden(vers[u].doc)
          BY <4>1 DEF IInv, IndexedIsActive
      <4>3. docs'[vers[u].doc] = docs[vers[u].doc]
          BY <1>8, <3>1, <4>1
      <4> QED BY <1>4, <1>5, <3>1, <4>2, <4>3, SetsStay DEF Hidden
    <3> QED BY <3>2, <3>3
  <2>2. \A u \in Version : vers'[u].doc = vers[u].doc
      BY <1>5 DEF VersionsStay
  <2> QED BY <1>10, <2>1, <2>2 DEF IndexedIsActive, ActiveIsOwn, Opened, Hidden
<1>12. ActiveIsLater'
  <2> SUFFICES ASSUME NEW e \in Doc, docs'[e].active # NoVersion,
                      NEW i \in JobsOf(e, "delete")'
               PROVE  \E j \in JobsOf(e, "ingest")' :
                          j > i /\ jobs'[j].status = "succeeded" /\ target'[j] = docs'[e].active
      BY DEF ActiveIsLater
  <2>1. i \in JobsOf(e, "delete") /\ i \in JobId
      BY <1>4, <1>5, SetsStay DEF JobsOf
  <2>2. CASE e = d
    <3>1. k \in JobsOf(e, "ingest") /\ Live(k)
        BY <1>1, <2>2 DEF JobsOf, Live, Active
    <3>2. i < k
        BY <1>1, <2>1, <3>1 DEF IInv, UncancelledIsLater
    <3>3. jobs'[k].status = "succeeded"
        BY <1>1, <1>2, <1>3 DEF Succeeded, Released, JobRow
    <3>4. i \in Nat /\ k \in Nat
        BY <1>1, <2>1, BoundsAssumption DEF JobId
    <3>5. k \in JobsOf(e, "ingest")' /\ target'[k] = docs'[e].active /\ k > i
        BY <1>1, <1>2, <1>4, <1>5, <1>8, <2>2, <3>1, <3>2, <3>4, SetsStay
    <3> QED BY <3>3, <3>5
  <2>3. CASE e # d
    <3>1. docs'[e].active = docs[e].active
        BY <1>8, <2>3
    <3>2. PICK j \in JobsOf(e, "ingest") :
              j > i /\ jobs[j].status = "succeeded" /\ target[j] = docs[e].active
        BY <2>1, <3>1 DEF IInv, ActiveIsLater
    <3>3. j \in JobId /\ jobs'[j].status = "succeeded" /\ target'[j] = target[j]
        BY <1>4, <3>2 DEF JobsOf, RowsMove, Moves, Terminal
    <3> QED BY <1>4, <1>5, <3>1, <3>2, <3>3, SetsStay
  <2> QED BY <2>2, <2>3
<1> QED BY <1>4, <1>5, <1>6, <1>7, <1>10, <1>11, <1>12, <1>13 DEF ActiveSound

-----------------------------------------------------------------------------
(* A row is added, the latest of all; others may move in the same step.    *)
RowAdded(j, type, d, v) ==
    /\ IsNextJob(j)
    /\ jobs' \in [JobId -> JobRow]
    /\ jobs'[j] = NewJob(type, d)
    /\ \A i \in JobId \ {j} : Moves(jobs[i], jobs'[i])
    /\ target' = [target EXCEPT ![j] = v]

LEMMA SetsGrow ==
    ASSUME IInv, NEW j \in JobId, NEW type \in JobType, NEW d \in Doc, NEW v \in Version,
           RowAdded(j, type, d, v)
    PROVE  /\ \A i \in JobId : jobs[i].status # "absent" => i < j
           /\ \A e \in Doc : \A t :
                  JobsOf(e, t)' = IF e = d /\ t = type THEN JobsOf(e, t) \cup {j} ELSE JobsOf(e, t)
           /\ \A u :
                  IngestJobsOf(u)' =
                      IF u = v /\ type = "ingest" THEN IngestJobsOf(u) \cup {j}
                                                ELSE IngestJobsOf(u)
           /\ \A i \in JobId : Live(i)' => i = j \/ Live(i)
           /\ target' \in [JobId -> Version \cup {NoVersion}] /\ target'[j] = v
           /\ \A i \in JobId \ {j} : target'[i] = target[i]
           /\ RowsRemain
<1>1. /\ jobs \in [JobId -> JobRow] /\ target \in [JobId -> Version \cup {NoVersion}]
      /\ jobs' \in [JobId -> JobRow] /\ jobs[j].status = "absent"
      /\ target' = [target EXCEPT ![j] = v]
      /\ \A i \in JobId \ {j} : Moves(jobs[i], jobs'[i])
    BY DEF RowAdded, IsNextJob, IInv, TypeOK, StoreTypeOK
<1>2. jobs'[j].type = type /\ jobs'[j].doc = d /\ jobs'[j].status = "queued"
    BY NewRow DEF RowAdded
<1>3. ASSUME NEW i \in JobId, jobs[i].status # "absent"  PROVE i < j
  <2>1. i \in Nat /\ j \in Nat
      BY BoundsAssumption DEF JobId
  <2>2. ~(j < i) /\ i # j
      BY <1>1, <1>3 DEF IInv, RowsInOrder
  <2> QED BY <2>1, <2>2
<1>4. /\ target' \in [JobId -> Version \cup {NoVersion}] /\ target'[j] = v
      /\ \A i \in JobId \ {j} : target'[i] = target[i]
    BY <1>1
<1>5. ASSUME NEW e \in Doc, NEW t
      PROVE  JobsOf(e, t)' = IF e = d /\ t = type THEN JobsOf(e, t) \cup {j} ELSE JobsOf(e, t)
    BY <1>1, <1>2 DEF JobsOf, Moves
<1>6. ASSUME NEW u
      PROVE  IngestJobsOf(u)' =
                 IF u = v /\ type = "ingest" THEN IngestJobsOf(u) \cup {j}
                                           ELSE IngestJobsOf(u)
    BY <1>1, <1>2, <1>4 DEF IngestJobsOf, Moves
<1>7. ASSUME NEW i \in JobId, Live(i)', i # j  PROVE Live(i)
  <2>1. jobs[i] \in JobRow /\ Moves(jobs[i], jobs'[i]) /\ jobs'[i].status \in Waiting \cup Active
      BY <1>1, <1>7 DEF Live
  <2>2. jobs[i].status \notin Terminal /\ jobs[i].status # "absent"
      BY <2>1, StatusesApart DEF Moves
  <2>3. jobs[i].status \in JobStatus
      BY <2>1 DEF JobRow
  <2> QED BY <2>2, <2>3, StatusesApart DEF Live
<1>8. RowsRemain
    BY <1>1 DEF RowsRemain, Moves
<1> QED BY <1>3, <1>4, <1>5, <1>6, <1>7, <1>8

(* The part of the order that is about rows alone; the new row is for a    *)
(* version none of whose other jobs is unfinished.                         *)
LEMMA OrderGrows ==
    ASSUME IInv, NEW j \in JobId, NEW type \in JobType, NEW d \in Doc, NEW v \in Version,
           RowAdded(j, type, d, v),
           type = "ingest" => \A i \in IngestJobsOf(v) : ~Live(i),
           type = "delete" => \A i \in JobsOf(d, "ingest") : Live(i)' => jobs'[i].cancel
    PROVE  OnlyLatestIsLive' /\ UncancelledIsLater'
<1>1. OnlyLatestIsLive'
  <2> SUFFICES ASSUME NEW u \in Version, NEW i \in IngestJobsOf(u)', NEW k \in IngestJobsOf(u)',
                      i < k, Live(i)'
               PROVE  FALSE
      BY DEF OnlyLatestIsLive
  <2>1. i \in JobId /\ k \in JobId
      BY DEF IngestJobsOf
  <2>2. i # j
    <3>1. i \in Nat /\ k \in Nat
        BY <2>1, BoundsAssumption DEF JobId
    <3>2. k = j \/ k < j
        BY <2>1, SetsGrow DEF IngestJobsOf
    <3> QED BY <3>1, <3>2
  <2>3. i \in IngestJobsOf(u) /\ Live(i)
      BY <2>1, <2>2, SetsGrow
  <2>4. CASE k = j
    <3>1. jobs[j].status = "absent"
        BY DEF RowAdded, IsNextJob
    <3>2. j \notin IngestJobsOf(u)
        BY <3>1 DEF IngestJobsOf
    <3>3. u = v /\ type = "ingest"
        BY <2>4, <3>2, SetsGrow
    <3> QED BY <2>3, <3>3
  <2>5. CASE k # j
    <3>1. k \in IngestJobsOf(u)
        BY <2>5, SetsGrow
    <3> QED BY <2>3, <3>1 DEF IInv, OnlyLatestIsLive
  <2> QED BY <2>4, <2>5
<1>2. UncancelledIsLater'
  <2> SUFFICES ASSUME NEW e \in Doc, NEW k \in JobsOf(e, "delete")', NEW i \in JobsOf(e, "ingest")',
                      Live(i)', ~jobs'[i].cancel
               PROVE  k < i
      BY DEF UncancelledIsLater
  <2>1. i \in JobId /\ k \in JobId
      BY DEF JobsOf
  <2>2. CASE i = j
    <3>1. k # j
      <4>1. type = "ingest"
        <5>1. jobs'[j].type = type
            BY NewRow DEF RowAdded
        <5> QED BY <2>2, <5>1 DEF JobsOf
      <4>2. k \in JobsOf(e, "delete")
          BY <4>1, SetsGrow
      <4> QED BY <4>2 DEF JobsOf, RowAdded, IsNextJob
    <3> QED BY <2>1, <2>2, <3>1, SetsGrow DEF JobsOf
  <2>3. CASE i # j
    <3>0. i \in JobsOf(e, "ingest") /\ Live(i)
        BY <2>1, <2>3, SetsGrow
    <3>1. i \in JobsOf(e, "ingest") /\ Live(i) /\ ~jobs[i].cancel
        BY <2>1, <2>3, <3>0 DEF RowAdded, Moves
    <3>2. CASE k = j
      <4>1. j \notin JobsOf(e, "delete")
          BY DEF RowAdded, IsNextJob, JobsOf
      <4>2. e = d /\ type = "delete"
          BY <3>2, <4>1, SetsGrow
      <4> QED BY <3>1, <4>2
    <3>3. CASE k # j
      <4>1. k \in JobsOf(e, "delete")
          BY <3>3, SetsGrow
      <4> QED BY <3>1, <4>1 DEF IInv, UncancelledIsLater
    <3> QED BY <3>2, <3>3
  <2> QED BY <2>2, <2>3
<1> QED BY <1>1, <1>2
(* What a step leaves behind, the process of the deletion saga apart. *)
StepSound ==
    /\ StoreTypeOK' /\ WorkersSound' /\ RowsRemain
    /\ Ordered' /\ ActiveSound' /\ OpenedStay

LEMMA QuietIsSound ==
    ASSUME IInv, QuietStep
    PROVE  StepSound
BY OrderStays, ActiveStays, MovingRowsRemain
   DEF QuietStep, Quiet, StepSound, StoreTypeOK, StoresSound, RowsMove, VersionsStay,
       NothingPublished, IInv, TypeOK

LEMMA PublishingStepIsSound ==
    ASSUME IInv, NEW w \in Ingester, Publishes(w)
    PROVE  StepSound
BY PublishingIsSound, OrderStays, MovingRowsRemain
   DEF StepSound, StoreTypeOK, StoresSound, RowsMove, VersionsStay, IInv, TypeOK

LEMMA LatestGrows ==
    ASSUME NEW S \in SUBSET Nat, NEW n \in Nat, S = {} \/ HasLatest(S)
    PROVE  HasLatest(S \cup {n})
<1>1. CASE S = {}
  <2>1. S \cup {n} = {n} /\ n <= n
      BY <1>1
  <2> QED BY <2>1 DEF HasLatest
<1>2. CASE HasLatest(S)
  <2>1. PICK m \in S : \A l \in S : l <= m
      BY <1>2 DEF HasLatest
  <2>2. CASE m <= n
    <3>1. \A l \in S \cup {n} : l <= n
        BY <2>1, <2>2
    <3> QED BY <3>1 DEF HasLatest
  <2>3. CASE n < m
    <3>1. \A l \in S \cup {n} : l <= m
        BY <2>1, <2>3
    <3> QED BY <2>1, <3>1 DEF HasLatest
  <2> QED BY <2>1, <2>2, <2>3
<1> QED BY <1>1, <1>2

LEMMA LatestIsLast ==
    ASSUME NEW S, HasLatest(S)
    PROVE  Latest(S) \in S /\ \A m \in S : m <= Latest(S)
<1>1. \E n \in S : \A m \in S : m <= n
    BY DEF HasLatest
<1> QED BY <1>1 DEF Latest

(* An upload of new content adds the latest version of its document and    *)
(* its first job.                                                          *)
LEMMA RegisterNewIsSound ==
    ASSUME IInv, NEW d \in Doc, NEW c \in Content, NEW v \in Version, NEW j \in JobId,
           RegisterNew(d, c, v, j), UNCHANGED <<work, faults>>
    PROVE  StepSound
<1>1. /\ vers \in [Version -> [doc : Doc, content : Content, status : VersionStatus]]
      /\ docs \in [Doc -> [status : DocStatus, active : Version \cup {NoVersion}]]
      /\ claims \in [Content -> Version \cup {NoVersion}]
      /\ jobs \in [JobId -> JobRow]
      /\ target \in [JobId -> Version \cup {NoVersion}]
    BY DEF IInv, TypeOK, StoreTypeOK
<1>2. /\ vers[v].status = "absent" /\ IsNextJob(j)
      /\ docs' = [docs EXCEPT ![d].status = IF @ = "absent" THEN "pending" ELSE "processing"]
      /\ vers' = [vers EXCEPT ![v] = [doc |-> d, content |-> c, status |-> "pending"]]
      /\ claims' = [claims EXCEPT ![c] = v]
      /\ jobs' = [jobs EXCEPT ![j] = NewJob("ingest", d)]
      /\ target' = [target EXCEPT ![j] = v]
      /\ objects' = Stored(c) /\ UNCHANGED <<roots, vectors>>
    BY DEF RegisterNew, IsNextVersion, Enqueued
<1>3. RowAdded(j, "ingest", d, v)
    BY <1>1, <1>2, NewRow, RowMoves DEF RowAdded, JobType
<1>4. /\ vers' \in [Version -> [doc : Doc, content : Content, status : VersionStatus]]
      /\ docs' \in [Doc -> [status : DocStatus, active : Version \cup {NoVersion}]]
      /\ claims' \in [Content -> Version \cup {NoVersion}]
    BY <1>1, <1>2 DEF DocStatus, VersionStatus
<1>5. /\ StoreTypeOK' /\ RowsRemain
  <2>1. StoresSound'
      BY <1>2, StoringIsSound
  <2> QED BY <1>3, <1>4, <2>1, SetsGrow DEF StoreTypeOK, StoresSound, JobType, RowAdded
<1>6. WorkersSound'
    BY <1>5, FaultsCounted, WorkersRest
<1>7. IngestJobsOf(v) = {}
    BY <1>2 DEF IngestJobsOf, IInv, RowsInOrder
<1>8. /\ \A u \in Version \ {v} : vers'[u] = vers[u]
      /\ vers'[v].status = "pending" /\ vers'[v].doc = d
    BY <1>1, <1>2
<1>9. \A e \in Doc : VersionsOf(e)' = VersionsOf(e) \cup IF e = d THEN {v} ELSE {}
    BY <1>2, <1>8 DEF VersionsOf
<1>10. OnlyLatestIsLive' /\ UncancelledIsLater'
    BY <1>3, <1>7, OrderGrows DEF JobType
<1>11. RowsInOrder'
  <2>1. ASSUME NEW i \in JobId, NEW k \in JobId, i < k, jobs'[k].status # "absent"
        PROVE  jobs'[i].status # "absent"
    <3>1. CASE i = j
        BY <1>3, <3>1, NewRow DEF RowAdded, JobType
    <3>2. CASE i # j /\ k = j
        BY <1>3, <2>1, <3>2 DEF RowAdded, IsNextJob, Moves
    <3>3. CASE i # j /\ k # j
        BY <1>3, <2>1, <3>3 DEF RowAdded, Moves, IInv, RowsInOrder
    <3> QED BY <3>1, <3>2, <3>3
  <2>2. ASSUME NEW i \in JobId, jobs'[i].status # "absent"
        PROVE  /\ target'[i] \in Version /\ vers'[target'[i]].status # "absent"
               /\ vers'[target'[i]].doc = jobs'[i].doc
    <3>1. CASE i = j
        BY <1>1, <1>2, <1>3, <1>8, <3>1, NewRow DEF RowAdded, JobType
    <3>2. CASE i # j
      <4>1. /\ jobs[i].status # "absent" /\ jobs'[i].doc = jobs[i].doc
            /\ target'[i] = target[i]
          BY <1>1, <1>2, <1>3, <2>2, <3>2 DEF RowAdded, Moves
      <4>2. target[i] # v /\ target[i] \in Version /\ vers[target[i]].status # "absent"
            /\ vers[target[i]].doc = jobs[i].doc
          BY <1>2, <4>1 DEF IInv, RowsInOrder
      <4> QED BY <1>8, <4>1, <4>2
    <3> QED BY <3>1, <3>2
  <2> QED BY <2>1, <2>2 DEF RowsInOrder
<1>12. LatestExist'
  <2>1. ASSUME NEW u \in Version, vers'[u].status # "absent"
        PROVE  HasLatest(IngestJobsOf(u)')
    <3>1. CASE u = v
      <4>1. IngestJobsOf(u)' = {} \cup {j} /\ j \in Nat
          BY <1>3, <1>7, <3>1, SetsGrow, BoundsAssumption DEF JobType, JobId
      <4> QED BY <4>1, LatestGrows
    <3>2. CASE u # v
      <4>0. vers[u].status # "absent"
          BY <1>8, <2>1, <3>2
      <4>1. IngestJobsOf(u)' = IngestJobsOf(u) /\ vers[u].status # "absent"
          BY <1>3, <3>2, <4>0, SetsGrow DEF JobType
      <4> QED BY <4>1 DEF IInv, LatestExist
    <3> QED BY <3>1, <3>2
  <2>2. ASSUME NEW e \in Doc, VersionsOf(e)' # {}
        PROVE  HasLatest(VersionsOf(e)')
    <3>1. VersionsOf(e) = {} \/ HasLatest(VersionsOf(e))
        BY DEF IInv, LatestExist
    <3>2. VersionsOf(e) \in SUBSET Nat /\ v \in Nat
        BY BoundsAssumption DEF VersionsOf, Version
    <3>3. HasLatest(VersionsOf(e) \cup {v})
        BY <3>1, <3>2, LatestGrows
    <3>4. VersionsOf(e)' = VersionsOf(e) \/ VersionsOf(e)' = VersionsOf(e) \cup {v}
        BY <1>9
    <3> QED BY <2>2, <3>1, <3>3, <3>4
  <2>3. ASSUME NEW b \in Content, claims'[b] # NoVersion
        PROVE  vers'[claims'[b]].status # "absent"
    <3>1. claims'[b] \in Version /\ (claims'[b] = v \/ claims'[b] = claims[b])
        BY <1>1, <1>2, <1>4, <2>3
    <3> QED BY <1>8, <2>3, <3>1 DEF IInv, LatestExist
  <2> QED BY <2>1, <2>2, <2>3 DEF LatestExist, HasLatest
<1>13. \A e \in Doc : /\ docs'[e].active = docs[e].active
                      /\ docs'[e].status = "ready" => docs[e].status = "ready"
    BY <1>1, <1>2
<1>17. OpenedStay
    BY <1>3, <1>13, SetsGrow DEF OpenedStay, Opened, JobType
<1>14. ActiveIsOwn'
    BY <1>9, <1>13, <1>17 DEF IInv, ActiveIsOwn, OpenedStay
<1>15. IndexedIsActive'
  <2>1. ASSUME NEW u \in Version, vers'[u].status = "indexed"
        PROVE  docs'[vers'[u].doc].active = u \/ Hidden(vers[u].doc)'
    <3>1. vers'[u] = vers[u] /\ vers[u].doc \in Doc
        BY <1>1, <1>8, <2>1
    <3>2. docs[vers[u].doc].active = u \/ Hidden(vers[u].doc)
        BY <2>1, <3>1 DEF IInv, IndexedIsActive
    <3>3. Hidden(vers[u].doc) => Hidden(vers[u].doc)'
        BY <1>3, <1>13, <3>1, SetsGrow DEF Hidden, JobType
    <3> QED BY <1>13, <3>1, <3>2, <3>3
  <2> QED BY <1>14, <2>1 DEF IndexedIsActive, ActiveIsOwn, Opened, Hidden
<1>16. ActiveIsLater'
  <2> SUFFICES ASSUME NEW e \in Doc, docs'[e].active # NoVersion, NEW k \in JobsOf(e, "delete")'
               PROVE  \E i \in JobsOf(e, "ingest")' :
                          i > k /\ jobs'[i].status = "succeeded" /\ target'[i] = docs'[e].active
      BY DEF ActiveIsLater
  <2>1. k \in JobsOf(e, "delete") /\ docs[e].active # NoVersion
      BY <1>3, <1>13, SetsGrow DEF JobType
  <2>2. PICK i \in JobsOf(e, "ingest") :
            i > k /\ jobs[i].status = "succeeded" /\ target[i] = docs[e].active
      BY <2>1 DEF IInv, ActiveIsLater
  <2>3. i \in JobId /\ i # j
      BY <1>2, <2>2 DEF JobsOf, IsNextJob
  <2>4. jobs'[i].status = "succeeded" /\ target'[i] = target[i]
      BY <1>1, <1>2, <2>2, <2>3
  <2>5. i \in JobsOf(e, "ingest")'
      BY <1>3, SetsGrow DEF JobType
  <2> QED BY <1>13, <2>2, <2>4, <2>5
<1> QED BY <1>5, <1>6, <1>10, <1>11, <1>12, <1>14, <1>15, <1>16, <1>17
        DEF StepSound, Ordered, ActiveSound
(* A row is added for a version that exists. *)
LEMMA AddedRowInOrder ==
    ASSUME IInv, NEW j \in JobId, NEW type \in JobType, NEW d \in Doc, NEW v \in Version,
           RowAdded(j, type, d, v), VersionsStay,
           vers[v].status # "absent", vers[v].doc = d
    PROVE  RowsInOrder' /\ LatestExist'
<1>1. jobs'[j].status # "absent" /\ jobs'[j].doc = d /\ jobs[j].status = "absent"
    BY NewRow DEF RowAdded, IsNextJob
<1>2. \A i \in JobId \ {j} : /\ jobs'[i].status = "absent" <=> jobs[i].status = "absent"
                             /\ jobs'[i].doc = jobs[i].doc
    BY DEF RowAdded, Moves
<1>3. RowsInOrder'
  <2>1. ASSUME NEW i \in JobId, NEW k \in JobId, i < k, jobs'[k].status # "absent"
        PROVE  jobs'[i].status # "absent"
    <3>1. CASE k = j
        BY <1>2, <2>1, <3>1 DEF RowAdded, IsNextJob
    <3>2. CASE k # j
        BY <1>1, <1>2, <2>1, <3>2 DEF IInv, RowsInOrder
    <3> QED BY <3>1, <3>2
  <2>2. ASSUME NEW i \in JobId, jobs'[i].status # "absent"
        PROVE  /\ target'[i] \in Version /\ vers'[target'[i]].status # "absent"
               /\ vers'[target'[i]].doc = jobs'[i].doc
    <3>1. CASE i = j
        BY <1>1, <3>1, SetsGrow DEF VersionsStay
    <3>2. CASE i # j
      <4>1. jobs[i].status # "absent" /\ target'[i] = target[i]
          BY <1>2, <2>2, <3>2, SetsGrow
      <4> QED BY <1>2, <3>2, <4>1 DEF IInv, RowsInOrder, VersionsStay
    <3> QED BY <3>1, <3>2
  <2> QED BY <2>1, <2>2 DEF RowsInOrder
<1>4. LatestExist'
  <2>1. ASSUME NEW u \in Version, vers'[u].status # "absent"
        PROVE  HasLatest(IngestJobsOf(u)')
    <3>1. HasLatest(IngestJobsOf(u))
        BY <2>1 DEF IInv, LatestExist, VersionsStay
    <3>2. IngestJobsOf(u) \in SUBSET Nat /\ j \in Nat
        BY BoundsAssumption DEF IngestJobsOf, JobId
    <3>3. HasLatest(IngestJobsOf(u) \cup {j})
        BY <3>1, <3>2, LatestGrows
    <3>4. IngestJobsOf(u)' = IngestJobsOf(u) \/ IngestJobsOf(u)' = IngestJobsOf(u) \cup {j}
        BY SetsGrow
    <3> QED BY <3>1, <3>3, <3>4
  <2>2. \A e \in Doc : VersionsOf(e)' = VersionsOf(e)
      BY DEF VersionsOf, VersionsStay
  <2>3. \A e \in Doc : VersionsOf(e)' # {} => HasLatest(VersionsOf(e)')
      BY <2>2 DEF IInv, LatestExist
  <2>4. \A c \in Content : claims'[c] # NoVersion => vers'[claims'[c]].status # "absent"
      BY DEF IInv, LatestExist, VersionsStay, NoVersion, Version
  <2> QED BY <2>1, <2>3, <2>4 DEF LatestExist, HasLatest
<1> QED BY <1>3, <1>4

LEMMA AddedRowActive ==
    ASSUME IInv, NEW j \in JobId, NEW type \in JobType, NEW d \in Doc, NEW v \in Version,
           RowAdded(j, type, d, v), VersionsStay, NothingPublished,
           type = "delete" => docs'[d].active = NoVersion
    PROVE  ActiveSound' /\ OpenedStay
<1>1. \A e \in Doc : VersionsOf(e)' = VersionsOf(e)
    BY DEF VersionsOf, VersionsStay
<1>0. \A e \in Doc : DeletionAsked(e) => JobsOf(e, "delete")' # {}
    BY SetsGrow DEF DeletionAsked
<1>5. OpenedStay
    BY <1>0 DEF OpenedStay, Opened, NothingPublished, DeletionAsked
<1>2. ActiveIsOwn'
    BY <1>0, <1>1 DEF ActiveIsOwn, Opened, NothingPublished, IInv
<1>3. IndexedIsActive'
  <2>1. ASSUME NEW u \in Version, vers'[u].status = "indexed"
        PROVE  docs'[vers'[u].doc].active = u \/ Hidden(vers[u].doc)'
    <3>1. /\ vers[u].status = "indexed" /\ vers'[u].doc = vers[u].doc /\ vers[u].doc \in Doc
        BY <2>1 DEF NothingPublished, VersionsStay, IInv, TypeOK, StoreTypeOK
    <3>2. docs[vers[u].doc].active = u \/ Hidden(vers[u].doc)
        BY <3>1 DEF IInv, IndexedIsActive
    <3> QED BY <1>0, <3>1, <3>2 DEF NothingPublished, Hidden, DeletionAsked
  <2>2. \A u \in Version : vers'[u].doc = vers[u].doc
      BY DEF VersionsStay
  <2> QED BY <1>2, <2>1, <2>2 DEF IndexedIsActive, ActiveIsOwn, Opened, Hidden
<1>4. ActiveIsLater'
  <2> SUFFICES ASSUME NEW e \in Doc, docs'[e].active # NoVersion, NEW k \in JobsOf(e, "delete")'
               PROVE  \E i \in JobsOf(e, "ingest")' :
                          i > k /\ jobs'[i].status = "succeeded" /\ target'[i] = docs'[e].active
      BY DEF ActiveIsLater
  <2>1. k \in JobsOf(e, "delete") /\ docs'[e].active = docs[e].active
      BY SetsGrow DEF NothingPublished
  <2>2. PICK i \in JobsOf(e, "ingest") :
            i > k /\ jobs[i].status = "succeeded" /\ target[i] = docs[e].active
      BY <2>1 DEF IInv, ActiveIsLater
  <2>3. i \in JobId /\ i # j
      BY <2>2 DEF JobsOf, RowAdded, IsNextJob
  <2>4. jobs'[i].status = "succeeded"
      BY <2>2, <2>3 DEF RowAdded, Moves, Terminal
  <2>5. i \in JobsOf(e, "ingest")' /\ target'[i] = target[i]
      BY <2>2, <2>3, SetsGrow
  <2> QED BY <2>1, <2>2, <2>4, <2>5
<1> QED BY <1>2, <1>3, <1>4, <1>5 DEF ActiveSound

(* A repeated upload queues its version again only when the latest job,    *)
(* and with it every job of the version, is settled.                       *)
LEMMA RegisterDuplicateIsSound ==
    ASSUME IInv, NEW c \in Content, NEW j \in JobId, RegisterDuplicate(c, j),
           UNCHANGED <<work, faults>>
    PROVE  StepSound
<1> DEFINE v == claims[c]
           d == vers[v].doc
           latest == Latest(IngestJobsOf(v))
<1>1. /\ v # NoVersion /\ ReviveClaim(v) /\ objects' = Stored(c)
      /\ UNCHANGED <<claims, roots, vectors>>
    BY DEF RegisterDuplicate
<1>2. v \in Version /\ vers[v].status # "absent" /\ d \in Doc
    BY <1>1, ClaimedExists
<1>3. CASE UNCHANGED <<jobs, target>>
    BY <1>3, QuietUpload, QuietIsSound
<1>4. CASE /\ jobs[latest].status \in {"failed", "cancelled"}
           /\ IsNextJob(j)
           /\ jobs' = Enqueued(jobs, j, "ingest", d)
           /\ target' = [target EXCEPT ![j] = v]
  <2>1. /\ jobs \in [JobId -> JobRow] /\ target \in [JobId -> Version \cup {NoVersion}]
      BY DEF IInv, TypeOK, StoreTypeOK
  <2>2. RowAdded(j, "ingest", d, v)
      BY <1>2, <1>4, <2>1, NewRow, RowMoves DEF RowAdded, Enqueued, JobType
  <2>3. \A i \in IngestJobsOf(v) : ~Live(i)
    <3> SUFFICES ASSUME NEW i \in IngestJobsOf(v)  PROVE ~Live(i)
        OBVIOUS
    <3>1. latest \in IngestJobsOf(v) /\ i <= latest
        BY <1>2, LatestIsLast DEF IInv, LatestExist
    <3>2. CASE i = latest
        BY <1>4, <3>2 DEF Live, Waiting, Active
    <3>3. CASE i # latest
      <4>1. i \in Nat /\ latest \in Nat
          BY <3>1, BoundsAssumption DEF IngestJobsOf, JobId
      <4>2. i < latest
          BY <3>1, <3>3, <4>1
      <4> QED BY <1>2, <3>1, <4>2 DEF IInv, OnlyLatestIsLive
    <3> QED BY <3>2, <3>3
  <2>4. VersionsStay /\ NothingPublished
      BY <1>1, <1>2, ReviveIsQuiet
  <2> HIDE DEF v, d, latest
  <2>5. OnlyLatestIsLive' /\ UncancelledIsLater'
      BY <1>2, <2>2, <2>3, OrderGrows DEF JobType
  <2>6. RowsInOrder' /\ LatestExist'
      BY <1>2, <2>2, <2>4, AddedRowInOrder DEF JobType, d
  <2>7. ActiveSound' /\ OpenedStay
      BY <1>2, <2>2, <2>4, AddedRowActive DEF JobType
  <2>8. StoreTypeOK' /\ RowsRemain
    <3>1. StoresSound'
        BY <1>1, StoringIsSound
    <3>2. jobs' \in [JobId -> JobRow]
        BY <2>2 DEF RowAdded
    <3>3. target' \in [JobId -> Version \cup {NoVersion}] /\ RowsRemain
        BY <1>2, <2>2, SetsGrow DEF JobType
    <3> QED BY <2>4, <3>1, <3>2, <3>3
            DEF StoreTypeOK, StoresSound, VersionsStay, NothingPublished
  <2>9. WorkersSound'
      BY <2>8, FaultsCounted, WorkersRest
  <2> QED BY <2>5, <2>6, <2>7, <2>8, <2>9 DEF StepSound, Ordered
<1> QED BY <1>3, <1>4 DEF RegisterDuplicate

(* A deletion request cancels or flags every ingest job of the document it *)
(* hides.                                                                  *)
LEMMA RequestDeleteIsSound ==
    ASSUME IInv, NEW d \in Doc, NEW j \in JobId, RequestDelete(d, j), UNCHANGED <<work, faults>>
    PROVE  StepSound
<1> DEFINE v == Latest(VersionsOf(d))
<1>1. /\ jobs \in [JobId -> JobRow] /\ target \in [JobId -> Version \cup {NoVersion}]
      /\ docs \in [Doc -> [status : DocStatus, active : Version \cup {NoVersion}]]
    BY DEF IInv, TypeOK, StoreTypeOK
<1>2. /\ VersionsOf(d) # {} /\ IsNextJob(j)
      /\ docs' = [docs EXCEPT ![d] = [status |-> "deleting", active |-> NoVersion]]
      /\ jobs' = [[i \in JobId |-> IF i \in JobsOf(d, "ingest")
                                   THEN CancelledByDeletion(jobs[i])
                                   ELSE jobs[i]] EXCEPT ![j] = NewJob("delete", d)]
      /\ target' = [target EXCEPT ![j] = v]
      /\ UNCHANGED <<vers, claims, roots, vectors, objects>>
    BY DEF RequestDelete, Enqueued
<1>3. v \in Version /\ vers[v].status # "absent" /\ vers[v].doc = d
  <2>1. v \in VersionsOf(d)
      BY <1>2, LatestIsLast DEF IInv, LatestExist
  <2> QED BY <2>1 DEF VersionsOf
<1> HIDE DEF v
<1>4. \A i \in JobId \ {j} : jobs'[i] = IF i \in JobsOf(d, "ingest")
                                       THEN CancelledByDeletion(jobs[i]) ELSE jobs[i]
    BY <1>2
<1>5. RowAdded(j, "delete", d, v)
  <2>1. jobs'[j] = NewJob("delete", d) /\ NewJob("delete", d) \in JobRow
      BY <1>2, NewRow DEF JobType
  <2>2. \A i \in JobId \ {j} : Moves(jobs[i], jobs'[i])
      BY <1>1, <1>4, RowMoves
  <2>3. \A i \in JobId : jobs'[i] \in JobRow
      BY <2>1, <2>2 DEF Moves
  <2>4. jobs' \in [JobId -> JobRow]
    <3>1. jobs' = [i \in JobId |-> jobs'[i]]
        BY <1>2
    <3> QED BY <2>3, <3>1
  <2> QED BY <1>2, <2>1, <2>2, <2>4 DEF RowAdded
<1>6. ASSUME NEW i \in JobsOf(d, "ingest"), Live(i)'  PROVE jobs'[i].cancel
  <2>1. i \in JobId /\ i # j
      BY <1>2 DEF JobsOf, IsNextJob
  <2>2. jobs'[i] = CancelledByDeletion(jobs[i]) /\ jobs[i] \in JobRow /\ Live(i)
      BY <1>1, <1>3, <1>4, <1>5, <1>6, <2>1, SetsGrow DEF JobType
  <2> QED BY <2>2 DEF CancelledByDeletion, Live, JobRow
<1>7. VersionsStay /\ NothingPublished
  <2>1. VersionsStay
      BY <1>2, NoVersionMoves
  <2>2. JobsOf(d, "delete")' # {}
      BY <1>3, <1>5, SetsGrow DEF JobType
  <2>3. NothingPublished
      BY <1>1, <1>2, <2>2
         DEF NothingPublished, DeletionAsked, Opened, DocStatus, IInv, ActiveIsOwn
  <2> QED BY <2>1, <2>3
<1>8. OnlyLatestIsLive' /\ UncancelledIsLater'
    BY <1>3, <1>5, <1>6, OrderGrows DEF JobType
<1>9. RowsInOrder' /\ LatestExist'
    BY <1>3, <1>5, <1>7, AddedRowInOrder DEF JobType
<1>10. ActiveSound' /\ OpenedStay
  <2>1. docs'[d].active = NoVersion
      BY <1>1, <1>2
  <2> QED BY <1>3, <1>5, <1>7, <2>1, AddedRowActive DEF JobType
<1>11. StoreTypeOK' /\ RowsRemain
  <2>1. StoresSound'
      BY <1>2, StoresRest
  <2>2. jobs' \in [JobId -> JobRow]
      BY <1>5 DEF RowAdded
  <2>3. target' \in [JobId -> Version \cup {NoVersion}] /\ RowsRemain
      BY <1>3, <1>5, SetsGrow DEF JobType
  <2> QED BY <1>7, <2>1, <2>2, <2>3
          DEF StoreTypeOK, StoresSound, VersionsStay, NothingPublished
<1>12. WorkersSound'
    BY <1>11, FaultsCounted, WorkersRest
<1> QED BY <1>8, <1>9, <1>10, <1>11, <1>12 DEF StepSound, Ordered
-----------------------------------------------------------------------------
(* Whose mark calls a document ready has read it opened, and still         *)
(* executes the same job.                                                  *)
MarksFromReads ==
    \A u \in Ingester : work'[u].mark.doc = "ready" =>
        /\ work[u].step # "idle" /\ work'[u].step # "idle" /\ work'[u].job = work[u].job
        /\ Opened(JobOf(u).doc)

LEMMA MarksAreRead ==
    ASSUME IInv, [Next]_vars
    PROVE  MarksFromReads
<1>1. work \in [Ingester -> WorkRow]
    BY DEF IInv, TypeOK, WorkTypeOK
<1>2. CASE UNCHANGED work
    BY <1>2 DEF MarksFromReads, IInv, MarksSound
<1>3. ASSUME NEW w \in Ingester, NEW row, work' = [work EXCEPT ![w] = row],
             row.mark.doc = "ready" =>
                 /\ work[w].step # "idle" /\ row.step # "idle" /\ row.job = work[w].job
                 /\ Opened(JobOf(w).doc)
      PROVE  MarksFromReads
    BY <1>1, <1>3 DEF MarksFromReads, IInv, MarksSound
<1>4. ASSUME NEW w \in Ingester, Stop(w)
      PROVE  MarksFromReads
    BY <1>3, <1>4 DEF Stop, IdleWork, NoMark
<1>5. ASSUME NEW w \in Ingester, NEW row, work' = [work EXCEPT ![w] = row],
             row.mark = work[w].mark, row.job = work[w].job, row.step # "idle"
      PROVE  MarksFromReads
    BY <1>3, <1>5 DEF IInv, MarksSound
<1>6. ASSUME NEW w \in Ingester, NEW step, step # "idle", Goto(w, step)
      PROVE  MarksFromReads
  <2> DEFINE row == [work[w] EXCEPT !.step = step]
  <2>1. work' = [work EXCEPT ![w] = row]
      BY <1>6 DEF Goto
  <2>2. row.mark = work[w].mark /\ row.job = work[w].job /\ row.step # "idle"
      BY <1>1, <1>6 DEF WorkRow
  <2> HIDE DEF row
  <2> QED BY <1>5, <2>1, <2>2
<1>7. ASSUME NEW w \in Ingester, NextStage(w)
      PROVE  MarksFromReads
  <2> DEFINE row == [work[w] EXCEPT !.step = "checkpoint", !.stage = @ + 1]
  <2>1. work' = [work EXCEPT ![w] = row]
      BY <1>7 DEF NextStage
  <2>2. row.mark = work[w].mark /\ row.job = work[w].job /\ row.step # "idle"
      BY <1>1 DEF WorkRow
  <2> HIDE DEF row
  <2> QED BY <1>5, <2>1, <2>2
<1>8. ASSUME NEW w \in Ingester, NEW step \in {"settling", "marking"}, work[w].step # "idle",
             ReadMark(w, step)
      PROVE  MarksFromReads
  <2> DEFINE row == [work[w] EXCEPT !.step = step, !.mark = MarkOf(VersionOf(w))]
  <2>1. work' = [work EXCEPT ![w] = row]
      BY <1>8 DEF ReadMark
  <2>2. row.mark = MarkOf(VersionOf(w)) /\ row.job = work[w].job /\ row.step = step
      BY <1>1 DEF WorkRow
  <2>3. vers[VersionOf(w)].doc = JobOf(w).doc
      BY <1>8, WorkerHasJob
  <2>4. MarkOf(VersionOf(w)).doc = "ready" => Opened(JobOf(w).doc)
      BY <2>3 DEF MarkOf, Opened
  <2> HIDE DEF row
  <2> QED BY <1>3, <1>8, <2>1, <2>2, <2>4
<1>9. ASSUME NEW w \in Ingester, NEW j \in JobId, Lease(w, j)
      PROVE  MarksFromReads
  <2> DEFINE row == [IdleWork EXCEPT !.step = "prepare", !.job = j]
  <2>1. work' = [work EXCEPT ![w] = row]
      BY <1>9 DEF Lease
  <2>2. row.mark.doc = "kept"
      BY DEF IdleWork, NoMark
  <2> HIDE DEF row
  <2> QED BY <1>3, <2>1, <2>2
<1>10. ASSUME NEW w \in Ingester, Compute(w)
       PROVE  MarksFromReads
  <2>1. CASE NextStage(w)
      BY <1>7, <2>1
  <2>2. CASE \E b : work' = [work EXCEPT ![w].step = "undo_vectors", ![w].terminal = b]
    <3>1. PICK b : work' = [work EXCEPT ![w].step = "undo_vectors", ![w].terminal = b]
        BY <2>2
    <3> DEFINE row == [work[w] EXCEPT !.step = "undo_vectors", !.terminal = b]
    <3>2. work' = [work EXCEPT ![w] = row]
        BY <3>1
    <3>3. row.mark = work[w].mark /\ row.job = work[w].job /\ row.step # "idle"
        BY <1>1 DEF WorkRow
    <3> HIDE DEF row
    <3> QED BY <1>5, <3>2, <3>3
  <2> QED BY <1>10, <2>1, <2>2 DEF Compute
<1>11. ASSUME NEW w \in Ingester,
              \/ Settle(w) \/ SettleFailed(w) \/ ReadCancelled(w) \/ MarkCancelled(w)
       PROVE  MarksFromReads
    BY <1>4, <1>8, <1>11 DEF Settle, SettleFailed, ReadCancelled, MarkCancelled, At
<1>12. ASSUME NEW w \in Ingester,
              \/ Prepare(w) \/ Checkpoint(w) \/ Persist(w) \/ StageVectors(w)
              \/ ActivateVectors(w) \/ VerifyVectors(w) \/ RejectCount(w) \/ Unproject(w)
              \/ Finalize(w) \/ RemoveVectors(w) \/ RemoveRoots(w)
       PROVE  MarksFromReads
  <2>1. \/ Stop(w) \/ NextStage(w) \/ \E step : step # "idle" /\ Goto(w, step)
      BY <1>12 DEF Prepare, Checkpoint, Persist, StageVectors, ActivateVectors, VerifyVectors,
                   RejectCount, Unproject, Finalize, RemoveVectors, RemoveRoots, Project
  <2> QED BY <1>4, <1>6, <1>7, <2>1
<1>13. ASSUME NEW w \in Ingester, StepFails(w) \/ Crash(w)
       PROVE  MarksFromReads
  <2>1. Stop(w) \/ \E step : step # "idle" /\ Goto(w, step)
      BY <1>13 DEF StepFails, Crash
  <2> QED BY <1>4, <1>6, <2>1
<1>14. CASE PipelineNext
  <2>1. CASE \E w \in Ingester : Advance(w)
      BY <1>9, <1>10, <1>11, <1>12, <2>1 DEF Advance
  <2>2. CASE \E w \in Ingester : Heartbeat(w)
      BY <1>2, <2>2 DEF Heartbeat, pipelineVars
  <2>3. CASE \E j \in JobId : Recover(j)
      BY <1>2, <2>3 DEF Recover, pipelineVars
  <2> QED BY <1>13, <1>14, <2>1, <2>2, <2>3 DEF PipelineNext
<1>15. CASE DeletionNext
    BY <1>2, <1>15 DEF DeletionNext, pipelineVars
<1> QED BY <1>2, <1>14, <1>15 DEF Next, LeaseRunsOut, vars

LEMMA MarksStay ==
    ASSUME IInv, MarksFromReads, RowsRemain, OpenedStay
    PROVE  MarksSound'
<1> SUFFICES ASSUME NEW u \in Ingester, work'[u].mark.doc = "ready"
             PROVE  work'[u].step # "idle" /\ Opened(JobOf(u).doc)'
    BY DEF MarksSound
<1>1. /\ work[u].step # "idle" /\ work'[u].step # "idle" /\ work'[u].job = work[u].job
      /\ Opened(JobOf(u).doc)
    BY DEF MarksFromReads
<1>2. work[u].job \in JobId /\ JobOf(u).status # "absent" /\ JobOf(u).doc \in Doc
    BY <1>1, WorkerHasJob
<1>3. jobs'[work'[u].job].doc = JobOf(u).doc
    BY <1>1, <1>2 DEF RowsRemain, JobOf
<1> QED BY <1>1, <1>2, <1>3 DEF OpenedStay, JobOf

(* A locked row stays its owner's: the others change only rows they own,   *)
(* rows that are waiting and rows nobody has locked.                       *)
LEMMA OthersSettle ==
    ASSUME IInv, NEW w \in Ingester, NEW row, work' = [work EXCEPT ![w] = row],
           row.step = "settling" =>
               jobs[row.job].status = "running" /\ jobs[row.job].owner = w /\ jobs' = jobs,
           \/ jobs' = jobs
           \/ \E j \in JobId : /\ \E next : jobs' = [jobs EXCEPT ![j] = next]
                            /\ (jobs[j].status # "running" \/ jobs[j].owner = w)
    PROVE  SettlersHold'
<1> SUFFICES ASSUME NEW u \in Ingester, work'[u].step = "settling"
             PROVE  jobs'[work'[u].job].status = "running" /\ jobs'[work'[u].job].owner = u
    BY DEF SettlersHold, At, JobOf
<1>1. work \in [Ingester -> WorkRow] /\ jobs \in [JobId -> JobRow]
    BY DEF IInv, TypeOK, WorkTypeOK, StoreTypeOK
<1>2. CASE u = w
    BY <1>1, <1>2
<1>3. CASE u # w
  <2>1. work'[u] = work[u] /\ work[u].step = "settling"
      BY <1>1, <1>3
  <2>2. jobs[work[u].job].status = "running" /\ jobs[work[u].job].owner = u
      BY <2>1 DEF IInv, SettlersHold, At, JobOf
  <2>3. jobs'[work[u].job] = jobs[work[u].job]
    <3>1. work[u].job \in JobId
        BY <2>1, WorkerHasJob
    <3>2. CASE \E j \in JobId : /\ \E next : jobs' = [jobs EXCEPT ![j] = next]
                                 /\ (jobs[j].status # "running" \/ jobs[j].owner = w)
        BY <1>1, <1>3, <2>2, <3>1, <3>2
    <3> QED BY <3>2
  <2> QED BY <2>1, <2>2, <2>3
<1> QED BY <1>2, <1>3

LEMMA SettlersRest ==
    ASSUME IInv, work' = work,
           \A w \in Ingester : At(w, "settling") =>
               /\ jobs'[work[w].job].status = JobOf(w).status
               /\ jobs'[work[w].job].owner = JobOf(w).owner
    PROVE  SettlersHold'
BY DEF SettlersHold, At, JobOf, IInv

LEMMA SettlersStay ==
    ASSUME IInv, [Next]_vars
    PROVE  SettlersHold'
<1>0. work \in [Ingester -> WorkRow] /\ jobs \in [JobId -> JobRow]
    BY DEF IInv, TypeOK, WorkTypeOK, StoreTypeOK
<1>1. ASSUME NEW w \in Ingester, At(w, "settling")
      PROVE  /\ work[w].job \in JobId /\ JobOf(w).status = "running" /\ JobOf(w).owner = w
             /\ JobOf(w).type = "ingest" /\ JobOf(w).doc \in Doc
             /\ work[w].job \in JobsOf(JobOf(w).doc, "ingest") /\ Settling(work[w].job)
  <2>1. work[w].step # "idle"
      BY <1>1 DEF At
  <2> QED BY <1>1, <2>1, WorkerHasJob DEF IInv, SettlersHold, JobsOf, JobOf, Settling
<1>2. CASE (Upload \/ Delete) /\ UNCHANGED <<work, faults, del>>
  <2>1. CASE \E j \in JobId : /\ jobs[j].status = "absent"
                               /\ \E next : jobs' = [jobs EXCEPT ![j] = next]
      BY <1>0, <1>1, <1>2, <2>1, SettlersRest DEF JobOf
  <2>2. CASE jobs' = jobs
      BY <1>2, <2>2, SettlersRest DEF JobOf
  <2>3. CASE Delete
    <3>1. PICK d \in Doc, j \in JobId :
              (\A i \in JobsOf(d, "ingest") : ~Settling(i)) /\ RequestDelete(d, j)
        BY <2>3 DEF Delete
    <3>2. /\ jobs[j].status = "absent"
          /\ \A i \in JobId \ {j} : i \notin JobsOf(d, "ingest") => jobs'[i] = jobs[i]
        BY <1>0, <3>1 DEF RequestDelete, IsNextJob, Enqueued
    <3> QED BY <1>1, <1>2, <3>1, <3>2, SettlersRest DEF JobOf
  <2>4. CASE Upload
      BY <2>1, <2>2, <2>4
         DEF Upload, RegisterNew, RegisterDuplicate, RegisterConflict, IsNextJob, Enqueued
  <2> QED BY <1>2, <2>3, <2>4
<1>3. CASE DeletionNext
  <2>1. work' = work
      BY <1>3 DEF DeletionNext, pipelineVars
  <2>2. CASE jobs' = jobs
      BY <2>1, <2>2, SettlersRest DEF JobOf
  <2>3. CASE \E j \in JobId : /\ jobs[j].type = "delete"
                               /\ \E next : jobs' = [jobs EXCEPT ![j] = next]
      BY <1>0, <1>1, <2>1, <2>3, SettlersRest DEF JobOf
  <2>4. CASE FinalizeDeletion
      BY <2>2, <2>3, <2>4, DeleterHasJob DEF FinalizeDeletion, IdleDeletion
  <2>5. CASE \E j \in JobId : LeaseDeletion(j)
      BY <2>3, <2>5 DEF LeaseDeletion, Leasable
  <2> QED BY <1>3, <2>2, <2>4, <2>5
          DEF DeletionNext, AdvanceDeletion, StopDeletion, LoadDeletion, DeleteVectors,
              CleanupContent, DeleteObjects, storeVars
<1>4. CASE \E j \in JobId : LeaseRunsOut(j)
  <2>1. PICK j \in JobId : LeaseRunsOut(j)
      BY <1>4
  <2>2. \A i \in JobId : jobs'[i].status = jobs[i].status /\ jobs'[i].owner = jobs[i].owner
      BY <1>0, <2>1 DEF LeaseRunsOut, Aged, JobRow
  <2> QED BY <1>1, <2>1, <2>2, SettlersRest DEF LeaseRunsOut, JobOf
<1>5. CASE PipelineNext
  <2>1. ASSUME NEW w \in Ingester, NEW row, work' = [work EXCEPT ![w] = row],
               row.step # "settling", jobs' = jobs
        PROVE  SettlersHold'
      BY <2>1, OthersSettle
  <2>2. ASSUME NEW w \in Ingester, NEW step, step # "settling", Goto(w, step)
        PROVE  \E row : work' = [work EXCEPT ![w] = row] /\ row.step # "settling"
    <3> DEFINE row == [work[w] EXCEPT !.step = step]
    <3>1. work' = [work EXCEPT ![w] = row] /\ row.step # "settling"
        BY <1>0, <2>2 DEF Goto, WorkRow
    <3> QED BY <3>1
  <2>3. ASSUME NEW w \in Ingester, Stop(w)
        PROVE  \E row : work' = [work EXCEPT ![w] = row] /\ row.step # "settling"
    <3>1. work' = [work EXCEPT ![w] = IdleWork] /\ IdleWork.step # "settling"
        BY <2>3 DEF Stop, IdleWork
    <3> QED BY <3>1
  <2>4. ASSUME NEW w \in Ingester, NextStage(w)
        PROVE  \E row : work' = [work EXCEPT ![w] = row] /\ row.step # "settling"
    <3> DEFINE row == [work[w] EXCEPT !.step = "checkpoint", !.stage = @ + 1]
    <3>1. work' = [work EXCEPT ![w] = row] /\ row.step # "settling"
        BY <1>0, <2>4 DEF NextStage, WorkRow
    <3> QED BY <3>1
  <2>5. ASSUME NEW w \in Ingester, NEW next, SetJob(w, next), JobOf(w).owner = w,
               work[w].step # "idle", \E row : work' = [work EXCEPT ![w] = row]
                                              /\ row.step # "settling"
        PROVE  SettlersHold'
    <3>1. work[w].job \in JobId
        BY <2>5, WorkerHasJob
    <3> QED BY <2>5, <3>1, OthersSettle DEF SetJob, JobOf
  <2>6. ASSUME NEW w \in Ingester, NEW j \in JobId, Lease(w, j)
        PROVE  SettlersHold'
    <3> DEFINE row == [IdleWork EXCEPT !.step = "prepare", !.job = j]
    <3>1. work' = [work EXCEPT ![w] = row] /\ row.step = "prepare"
        BY <2>6 DEF Lease, IdleWork
    <3>2. jobs[j].status # "running" /\ \E next : jobs' = [jobs EXCEPT ![j] = next]
        BY <2>6 DEF Lease, Leasable, Waiting
    <3> HIDE DEF row
    <3> QED BY <3>1, <3>2, OthersSettle
  <2>7. ASSUME NEW w \in Ingester, Checkpoint(w) \/ Finalize(w) \/ SettleFailed(w)
        PROVE  SettlersHold'
    <3>1. work[w].step # "idle"
        BY <2>7 DEF Checkpoint, Finalize, SettleFailed, At
    <3>2. \E row : work' = [work EXCEPT ![w] = row] /\ row.step # "settling"
      <4>1. Stop(w) \/ \E step : step # "settling" /\ Goto(w, step)
          BY <2>7 DEF Checkpoint, Finalize, SettleFailed
      <4> QED BY <4>1, <2>2, <2>3
    <3>3. jobs' = jobs \/ (JobOf(w).owner = w /\ \E next : SetJob(w, next))
        BY <2>7
           DEF Checkpoint, Finalize, SettleFailed, CheckpointAccepts, OwnedUncancelled,
               OwnedRunning, OwnedActive, IInv, SettlersHold
    <3> QED BY <2>1, <2>5, <3>1, <3>2, <3>3
  <2>8. ASSUME NEW w \in Ingester, Settle(w)
        PROVE  SettlersHold'
    <3>1. work[w].step # "idle"
        BY <2>8 DEF Settle, At
    <3>2. CASE Stop(w)
      <4>1. jobs' = jobs \/ (JobOf(w).owner = w /\ \E next : SetJob(w, next))
          BY <2>8 DEF Settle, OwnedUncancelled, OwnedRunning, OwnedActive
      <4> QED BY <2>1, <2>3, <2>5, <3>1, <3>2, <4>1
    <3>3. CASE /\ OwnedRunning(JobOf(w), w) /\ jobs' = jobs /\ ReadMark(w, "settling")
      <4> DEFINE row == [work[w] EXCEPT !.step = "settling", !.mark = MarkOf(VersionOf(w))]
      <4>1. work' = [work EXCEPT ![w] = row] /\ row.job = work[w].job
          BY <1>0, <3>3 DEF ReadMark, WorkRow
      <4>2. jobs[row.job].status = "running" /\ jobs[row.job].owner = w
          BY <3>3, <4>1 DEF OwnedRunning, OwnedActive, JobOf
      <4> HIDE DEF row
      <4> QED BY <3>3, <4>1, <4>2, OthersSettle
    <3> QED BY <2>8, <3>2, <3>3 DEF Settle, OwnedUncancelled
  <2>9. ASSUME NEW w \in Ingester,
               \/ Prepare(w) \/ Persist(w) \/ StageVectors(w)
               \/ ActivateVectors(w) \/ VerifyVectors(w) \/ RejectCount(w) \/ Unproject(w)
               \/ RemoveVectors(w) \/ RemoveRoots(w) \/ MarkCancelled(w)
               \/ StepFails(w) \/ Crash(w)
        PROVE  SettlersHold'
    <3>1. jobs' = jobs
        BY <2>9 DEF Prepare, Persist, StageVectors, ActivateVectors, VerifyVectors, RejectCount,
                    Unproject, RemoveVectors, RemoveRoots, MarkCancelled, StepFails, Crash,
                    Project, storeVars
    <3>2. CASE StepFails(w)
      <4>1. work[w].step \in WorkStep
          BY <1>0 DEF WorkRow
      <4>2. "settling" \notin AfterFailure(w)
          BY <4>1 DEF AfterFailure, WorkStep
      <4>3. Stop(w) \/ \E step : step # "settling" /\ Goto(w, step)
          BY <3>2, <4>2 DEF StepFails
      <4> QED BY <2>1, <2>2, <2>3, <3>1, <4>3
    <3>3. CASE ~StepFails(w)
      <4>1. Stop(w) \/ NextStage(w) \/ \E step : step # "settling" /\ Goto(w, step)
          BY <2>9, <3>3 DEF Prepare, Persist, StageVectors, ActivateVectors, VerifyVectors,
                 RejectCount, Unproject, RemoveVectors, RemoveRoots, MarkCancelled, Crash, Project
      <4> QED BY <2>1, <2>2, <2>3, <2>4, <3>1, <4>1
    <3> QED BY <3>2, <3>3
  <2>10. ASSUME NEW w \in Ingester, Compute(w) \/ ReadCancelled(w)
         PROVE  SettlersHold'
    <3>1. jobs' = jobs
        BY <2>10 DEF Compute, ReadCancelled, storeVars
    <3>2. \E row : work' = [work EXCEPT ![w] = row] /\ row.step # "settling"
      <4>1. CASE NextStage(w)
          BY <2>4, <4>1
      <4>2. CASE \E b : work' = [work EXCEPT ![w].step = "undo_vectors", ![w].terminal = b]
        <5>1. PICK b : work' = [work EXCEPT ![w].step = "undo_vectors", ![w].terminal = b]
            BY <4>2
        <5> DEFINE row == [work[w] EXCEPT !.step = "undo_vectors", !.terminal = b]
        <5>2. work' = [work EXCEPT ![w] = row] /\ row.step = "undo_vectors"
            BY <1>0, <5>1 DEF WorkRow
        <5> QED BY <5>2
      <4>3. CASE ReadMark(w, "marking")
        <5> DEFINE row == [work[w] EXCEPT !.step = "marking", !.mark = MarkOf(VersionOf(w))]
        <5>1. work' = [work EXCEPT ![w] = row] /\ row.step = "marking"
            BY <1>0, <4>3 DEF ReadMark, WorkRow
        <5> QED BY <5>1
      <4> QED BY <2>10, <4>1, <4>2, <4>3 DEF Compute, ReadCancelled
    <3> QED BY <2>1, <3>1, <3>2
  <2>11. ASSUME NEW w \in Ingester, Heartbeat(w)
         PROVE  SettlersHold'
    <3>1. /\ work' = work /\ work[w].job \in JobId /\ JobOf(w).owner = w
          /\ work[w].step # "settling" /\ SetJob(w, Renewed(JobOf(w), work[w].stage))
        BY <2>11, WorkerHasJob DEF Heartbeat, HeartbeatAccepts, OwnedActive, pipelineVars
    <3>2. ASSUME NEW u \in Ingester, At(u, "settling")
          PROVE  jobs'[work[u].job] = JobOf(u)
      <4>1. u # w /\ JobOf(u).owner = u
          BY <1>1, <3>1, <3>2 DEF At
      <4>2. work[u].job # work[w].job
          BY <3>1, <4>1 DEF JobOf
      <4> QED BY <1>0, <3>1, <4>2 DEF SetJob, JobOf
    <3> QED BY <3>1, <3>2, SettlersRest
  <2>12. ASSUME NEW j \in JobId, Recover(j)
         PROVE  SettlersHold'
    <3>1. work' = work /\ ~Settling(j) /\ jobs' = [jobs EXCEPT ![j] = Recovered(@)]
        BY <2>12 DEF Recover, pipelineVars
    <3>2. ASSUME NEW u \in Ingester, At(u, "settling")
          PROVE  jobs'[work[u].job] = JobOf(u)
        BY <1>0, <1>1, <3>1, <3>2 DEF JobOf
    <3> QED BY <3>1, <3>2, SettlersRest
  <2> QED BY <1>5, <2>6, <2>7, <2>8, <2>9, <2>10, <2>11, <2>12 DEF PipelineNext, Advance
<1>6. CASE UNCHANGED vars
    BY <1>6, SettlersRest DEF vars, JobOf
<1> QED BY <1>2, <1>3, <1>4, <1>5, <1>6 DEF Next

LEMMA SoundStepKeepsInvariant ==
    ASSUME IInv, [Next]_vars, StepSound, DeleterSound'
    PROVE  IInv'
<1>1. MarksSound' /\ SettlersHold'
    BY MarksAreRead, MarksStay, SettlersStay DEF StepSound
<1> QED
    BY <1>1 DEF StepSound, Ordered, ActiveSound, WorkersSound, DeleterSound, IInv, TypeOK

LEMMA InvariantHoldsInitially ==
    ASSUME Init
    PROVE  IInv
<1> USE DEF Init, StoreInit, PipelineInit, DeletionInit
<1>1. PICK d \in Doc, c \in Content :
          vers = [v \in Version |-> [doc |-> d, content |-> c, status |-> "absent"]]
    OBVIOUS
<1>2. PICK e \in Doc : jobs = [j \in JobId |-> AbsentRow(e)]
    OBVIOUS
<1>3. /\ \A v \in Version : vers[v].status = "absent"
      /\ \A j \in JobId : jobs[j].status = "absent"
    BY <1>1, <1>2 DEF AbsentRow, NewJob
<1>4. StoreTypeOK
  <2>0. 0 \in 0 .. Done
      BY DoneAssumption
  <2>1. AbsentRow(e) \in JobRow
      BY <2>0 DEF AbsentRow, NewJob, JobRow, JobType, JobStatus
  <2> QED BY <1>1, <1>2, <2>1 DEF StoreTypeOK, DocStatus, VersionStatus
<1>5. WorkTypeOK /\ WorkersHaveJobs
  <2>1. 1 \in 1 .. Finalizing /\ "idle" \in WorkStep
      BY StagesAssumption DEF Finalizing, WorkStep
  <2> QED BY <2>1 DEF WorkTypeOK, WorkersHaveJobs, IdleWork, WorkRow, Mark, NoMark
<1>6. DeletionTypeOK /\ DeleterHasItsJob
    BY IdleDeletionSound DEF DeletionTypeOK, DeleterHasItsJob
<1>7. RowsInOrder /\ OnlyLatestIsLive /\ UncancelledIsLater
    BY <1>3 DEF RowsInOrder, OnlyLatestIsLive, UncancelledIsLater, IngestJobsOf, JobsOf
<1>8. LatestExist
    BY <1>3 DEF LatestExist, VersionsOf
<1>9. ActiveIsOwn /\ IndexedIsActive /\ ActiveIsLater
    BY <1>3 DEF ActiveIsOwn, IndexedIsActive, ActiveIsLater
<1>10. MarksSound /\ SettlersHold
    BY DEF MarksSound, SettlersHold, At, IdleWork, NoMark
<1> QED BY <1>4, <1>5, <1>6, <1>7, <1>8, <1>9, <1>10 DEF IInv, TypeOK

LEMMA StepKeepsInvariant ==
    ASSUME IInv, [Next]_vars
    PROVE  IInv'
<1>1. CASE (Upload \/ Delete) /\ UNCHANGED <<work, faults, del>>
  <2>1. StepSound
    <3>1. CASE \E c \in Content, d \in Doc, v \in Version, j \in JobId : RegisterNew(d, c, v, j)
        BY <1>1, <3>1, RegisterNewIsSound
    <3>2. CASE \E c \in Content, j \in JobId : RegisterDuplicate(c, j)
        BY <1>1, <3>2, RegisterDuplicateIsSound
    <3>3. CASE \E c \in Content, d \in Doc : RegisterConflict(d, c)
      <4>1. UNCHANGED <<jobs, target>>
          BY <3>3 DEF RegisterConflict
      <4> QED BY <1>1, <3>3, <4>1, QuietUpload, QuietIsSound
    <3>4. CASE \E d \in Doc, j \in JobId : RequestDelete(d, j)
        BY <1>1, <3>4, RequestDeleteIsSound
    <3> QED BY <1>1, <3>1, <3>2, <3>3, <3>4 DEF Upload, Delete
  <2>2. DeleterSound'
      BY <1>1, <2>1, DeleterRests DEF StepSound
  <2> QED BY <2>1, <2>2, SoundStepKeepsInvariant
<1>2. CASE PipelineNext /\ UNCHANGED del
  <2>1. StepSound
      BY <1>2, PipelineIsQuiet, QuietIsSound, PublishingStepIsSound
  <2>2. DeleterSound'
      BY <1>2, <2>1, DeleterRests DEF StepSound
  <2> QED BY <2>1, <2>2, SoundStepKeepsInvariant
<1>3. CASE DeletionNext
    BY <1>3, DeletionIsQuiet, QuietIsSound, SoundStepKeepsInvariant
<1>4. CASE \E j \in JobId : LeaseRunsOut(j)
  <2>1. StepSound /\ UNCHANGED del
      BY <1>4, RecoveryIsQuiet, QuietIsSound DEF LeaseRunsOut
  <2>2. DeleterSound'
      BY <2>1, DeleterRests DEF StepSound
  <2> QED BY <2>1, <2>2, SoundStepKeepsInvariant
<1>5. CASE UNCHANGED vars
    BY <1>5 DEF vars, IInv, TypeOK, StoreTypeOK, WorkTypeOK, DeletionTypeOK, WorkersHaveJobs,
                DeleterHasItsJob, RowsInOrder, LatestExist, HasLatest, OnlyLatestIsLive,
                ActiveIsOwn, IndexedIsActive, UncancelledIsLater, ActiveIsLater,
                VersionsOf, JobsOf, IngestJobsOf, Live, MarksSound, SettlersHold, Opened,
                Hidden, At, JobOf
<1> QED BY <1>1, <1>2, <1>3, <1>4, <1>5 DEF Next

(* In every reachable state the rows of jobs are in order, only the latest *)
(* job of a version is unfinished, what a deletion met is cancelled, and   *)
(* the active version is the one a later job published.                    *)
THEOREM LifecycleInductive == Spec => []IInv
<1>1. Init => IInv
    BY InvariantHoldsInitially
<1>2. IInv /\ [Next]_vars => IInv'
    BY StepKeepsInvariant
<1> QED BY <1>1, <1>2, PTL DEF Spec

(* Re-uploading never queues a version twice: register reads the latest    *)
(* job alone, and that is enough.                                          *)
THEOREM OneLiveJob == Spec => []OneLiveIngestPerVersion
<1>1. IInv => OneLiveIngestPerVersion
  <2> SUFFICES ASSUME IInv, NEW v \in Version, NEW i \in IngestJobsOf(v), NEW j \in IngestJobsOf(v),
                      Live(i), Live(j)
               PROVE  i = j
      BY DEF OneLiveIngestPerVersion
  <2>1. i \in Nat /\ j \in Nat
      BY BoundsAssumption DEF IngestJobsOf, JobId
  <2>2. ~(i < j) /\ ~(j < i)
      BY DEF IInv, OnlyLatestIsLive
  <2> QED BY <2>1, <2>2
<1> QED BY <1>1, LifecycleInductive, PTL

(* An indexed version is its document's active version, and a ready        *)
(* document has an active version of its own, unless a deletion took it:   *)
(* the mark a worker writes may be older than the deletion, but the        *)
(* deletion request is then there for good.                                *)
THEOREM ActiveIndexed == Spec => []IndexedIsActive
<1>1. IInv => IndexedIsActive
    BY DEF IInv
<1> QED BY <1>1, LifecycleInductive, PTL

(* Deletion wins: what is visible was published by a job queued after      *)
(* every deletion request for the document, though finalize never looks at *)
(* deletions and the saga never at jobs.                                   *)
THEOREM DeletionWins == Spec => []VisibleOnlyByLaterJob
<1>1. IInv => VisibleOnlyByLaterJob
    BY DEF IInv, ActiveIsLater, VisibleOnlyByLaterJob, Visible
<1> QED BY <1>1, LifecycleInductive, PTL

(* Only the step that settles an uncancelled job under its lease publishes *)
(* a version, and it is the version of that job.                           *)
THEOREM PublishedBySuccess == Spec => PublishedOnlyBySuccess
<1> DEFINE BySuccess ==
        \A d \in Doc :
            docs'[d].active \notin {docs[d].active, NoVersion} =>
                \E j \in JobId : /\ target[j] = docs'[d].active
                                 /\ jobs[j].left > 0
                                 /\ ~jobs[j].cancel
                                 /\ jobs[j].status = "running"
                                 /\ jobs'[j].status = "succeeded"
<1>1. ASSUME NothingPublished  PROVE BySuccess
    BY <1>1 DEF NothingPublished
<1>2. ASSUME IInv, NEW w \in Ingester, Publishes(w)  PROVE BySuccess
  <2> DEFINE k == work[w].job
  <2>1. /\ k \in JobId /\ jobs[k] \in JobRow /\ target[k] = VersionOf(w)
        /\ JobOf(w).doc \in Doc /\ vers[VersionOf(w)].doc = JobOf(w).doc
    <3>1. work[w].step # "idle"
        BY <1>2 DEF Publishes, Finalize, At
    <3> QED BY <1>2, <3>1, WorkerHasJob DEF JobOf, VersionOf
  <2>2. /\ docs \in [Doc -> [status : DocStatus, active : Version \cup {NoVersion}]]
        /\ jobs \in [JobId -> JobRow]
      BY <1>2 DEF IInv, TypeOK, StoreTypeOK
  <2>3. /\ docs' = [docs EXCEPT ![JobOf(w).doc] = [status |-> "ready", active |-> VersionOf(w)]]
        /\ jobs' = [jobs EXCEPT ![k] = Succeeded(jobs[k])]
        /\ jobs[k].left > 0 /\ ~jobs[k].cancel /\ jobs[k].status = "running"
      BY <1>2, <2>1
         DEF Publishes, Finalize, SetJob, JobOf, OwnedUncancelled, OwnedRunning, OwnedActive
  <2>4. jobs'[k].status = "succeeded"
      BY <2>1, <2>2, <2>3 DEF Succeeded, Released, JobRow
  <2> HIDE DEF k
  <2>5. ASSUME NEW d \in Doc, docs'[d].active # docs[d].active
        PROVE  docs'[d].active = VersionOf(w)
      BY <2>1, <2>2, <2>3, <2>5
  <2> QED BY <2>1, <2>3, <2>4, <2>5
<1>3. ASSUME IInv, (Upload \/ Delete) /\ UNCHANGED <<work, faults, del>>  PROVE BySuccess
  <2>1. docs \in [Doc -> [status : DocStatus, active : Version \cup {NoVersion}]]
      BY <1>3 DEF IInv, TypeOK, StoreTypeOK
  <2>2. \A d \in Doc : docs'[d].active \in {docs[d].active, NoVersion}
    <3>1. CASE \E c \in Content, d \in Doc, v \in Version, j \in JobId : RegisterNew(d, c, v, j)
        BY <2>1, <3>1 DEF RegisterNew
    <3>2. CASE \E c \in Content, j \in JobId : RegisterDuplicate(c, j)
        BY <2>1, <3>2 DEF RegisterDuplicate, ReviveClaim
    <3>3. CASE \E c \in Content, d \in Doc : RegisterConflict(d, c)
        BY <3>3 DEF RegisterConflict
    <3>4. CASE \E d \in Doc, j \in JobId : RequestDelete(d, j)
        BY <2>1, <3>4 DEF RequestDelete
    <3> QED BY <1>3, <3>1, <3>2, <3>3, <3>4 DEF Upload, Delete
  <2> QED BY <2>2
<1> HIDE DEF BySuccess
<1>4. IInv /\ [Next]_vars => [BySuccess]_vars
  <2> SUFFICES ASSUME IInv, [Next]_vars  PROVE BySuccess \/ UNCHANGED vars
      OBVIOUS
  <2>1. CASE PipelineNext
      BY <1>1, <1>2, <2>1, PipelineIsQuiet DEF QuietStep, Quiet
  <2>2. CASE DeletionNext
      BY <1>1, <2>2, DeletionIsQuiet DEF QuietStep, Quiet
  <2>3. CASE \E j \in JobId : LeaseRunsOut(j)
      BY <1>1, <2>3, RecoveryIsQuiet DEF QuietStep, Quiet
  <2> QED BY <1>3, <2>1, <2>2, <2>3 DEF Next
<1>5. Spec => [][BySuccess]_vars
    BY <1>4, LifecycleInductive, PTL DEF Spec
<1> QED BY <1>5 DEF PublishedOnlyBySuccess, BySuccess
=============================================================================
