-------------------------- MODULE ExecutionStatus --------------------------
(***************************************************************************)
(* The durable status of an execution attempt and the transitions the      *)
(* state machine of src/resolution/execution/stateMachine.ts allows.  A    *)
(* row that has not been inserted yet has the status NoRow.                *)
(***************************************************************************)
NoRow == "NO_ROW"

EXECUTION_STATUSES ==
  { "PREPARED", "CLAIMED", "DISPATCHING", "DISPATCHED", "OUTCOME_UNKNOWN",
    "OBSERVED_SUCCESS", "OBSERVED_FAILURE", "RECONCILIATION_REQUIRED",
    "RECONCILED", "COMPLETED", "FAILED" }

ALLOWED ==
  [ PREPARED |-> {"CLAIMED", "FAILED"},
    CLAIMED |-> {"DISPATCHING", "PREPARED", "FAILED"},
    DISPATCHING |-> {"DISPATCHED", "OUTCOME_UNKNOWN", "OBSERVED_SUCCESS",
                     "OBSERVED_FAILURE", "FAILED", "RECONCILIATION_REQUIRED"},
    DISPATCHED |-> {"OUTCOME_UNKNOWN", "OBSERVED_SUCCESS",
                    "OBSERVED_FAILURE", "RECONCILIATION_REQUIRED"},
    OUTCOME_UNKNOWN |-> {"RECONCILIATION_REQUIRED", "OBSERVED_SUCCESS",
                         "OBSERVED_FAILURE", "RECONCILED"},
    RECONCILIATION_REQUIRED |-> {"OBSERVED_SUCCESS", "OBSERVED_FAILURE",
                                 "RECONCILED", "OUTCOME_UNKNOWN"},
    OBSERVED_SUCCESS |-> {"RECONCILED", "COMPLETED"},
    OBSERVED_FAILURE |-> {"RECONCILED", "FAILED", "COMPLETED"},
    RECONCILED |-> {"COMPLETED", "FAILED"},
    COMPLETED |-> {},
    FAILED |-> {} ]

canTransitionExecutionStatus(from, to) == to \in ALLOWED[from]

\* Statuses that mean a network call may already have occurred.
mayHaveBeenSent ==
  { "DISPATCHING", "DISPATCHED", "OUTCOME_UNKNOWN", "RECONCILIATION_REQUIRED" }

SUCCESS_STATUSES == { "OBSERVED_SUCCESS", "COMPLETED", "RECONCILED" }

\* A row in one of these blocks a new attempt of the same logical operation;
\* they are also the statuses of the partial unique index
\* execution_attempts_one_live_logical_op_uidx.
BLOCKING_STATUSES ==
  { "PREPARED", "CLAIMED", "DISPATCHING", "DISPATCHED", "OUTCOME_UNKNOWN",
    "RECONCILIATION_REQUIRED" } \cup SUCCESS_STATUSES
=============================================================================
