------------------------------- MODULE Fencing -------------------------------
(***************************************************************************)
(* Rows of the execution queue and the lease fence                         *)
(* (infrastructure/database/queue/fencing.py, lease.py and the row models  *)
(* of contracts/runtime/execution.py).                                     *)
(*                                                                         *)
(* An attempt is named by its ordinal within its job, so active = 0 stands *)
(* for active_attempt_id = None.  finished and rejectionCode say whether   *)
(* the column is set.  A fence is what a worker remembers of its claim:    *)
(* [job, attempt, generation]; the worker id is the worker itself.         *)
(***************************************************************************)
EXTENDS Naturals, Sequences

JobStatus == {"absent", "queued", "leased", "completed", "rejected"}

AttemptStatus == {"leased", "completed", "released", "expired", "rejected"}

JobRow == [status: JobStatus, active: Nat, generation: Nat,
           availableAt: Nat, createdAt: Nat,
           finished: BOOLEAN, rejectionCode: BOOLEAN]

AbsentJob == [status |-> "absent", active |-> 0, generation |-> 0,
              availableAt |-> 0, createdAt |-> 0,
              finished |-> FALSE, rejectionCode |-> FALSE]

QueuedJob(at) == [AbsentJob EXCEPT !.status = "queued",
                                   !.availableAt = at, !.createdAt = at]

(* Faulty variants: the fence without the expiry check, and a fence that    *)
(* looks only at the worker's own attempt.                                 *)
ActiveLeaseNoExpiry(job, attempt, fence, worker, at) ==
    /\ job.status = "leased"
    /\ job.active = fence.attempt
    /\ attempt.status = "leased"

ActiveLeaseByOwner(job, attempt, fence, worker, at) ==
    /\ job.status = "leased"
    /\ attempt.worker = worker
    /\ attempt.generation = fence.generation

(* The checks of require_active_lease on the two rows it reads. *)
ActiveLease(job, attempt, fence, worker, at) ==
    /\ job.status = "leased"
    /\ job.active = fence.attempt
    /\ job.generation = fence.generation
    /\ attempt.status = "leased"
    /\ attempt.worker = worker
    /\ attempt.generation = fence.generation
    /\ attempt.expiresAt > at

(* RunExecutionJob.validate_state, run whenever a row leaves the store. *)
ValidJob(job) ==
    /\ (job.status = "leased") <=> (job.active # 0)
    /\ (job.status \in {"completed", "rejected"}) <=> job.finished
    /\ (job.status = "rejected") <=> job.rejectionCode

(* A faulty variant: a claim that keeps the generation. *)
LeasedRowSameGeneration(job) ==
    [job EXCEPT !.status = "leased", !.active = job.generation + 1]

(* The column updates of a claim, a lapse, a release, a rejection and a    *)
(* completion.  Columns that are not assigned keep their value.            *)
LeasedRow(job) == [job EXCEPT !.status = "leased", !.active = job.generation + 1,
                              !.generation = job.generation + 1]

RequeuedRow(job, at) == [job EXCEPT !.status = "queued", !.active = 0,
                                    !.availableAt = at]

RejectedRow(job) == [job EXCEPT !.status = "rejected", !.active = 0,
                                !.finished = TRUE, !.rejectionCode = TRUE]

CompletedRow(job) == [job EXCEPT !.status = "completed", !.active = 0,
                                 !.finished = TRUE]
=============================================================================
