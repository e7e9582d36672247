--------------------------- MODULE ExecutionContract ---------------------------
(***************************************************************************)
(* What a user is promised about SOLAR requests, with no processes, locks  *)
(* or workers: a user has one current request, an attempt that starts ends *)
(* in one outcome, success applies the request's changes once and failure  *)
(* applies nothing.                                                        *)
(***************************************************************************)
EXTENDS Naturals

CONSTANTS Users, Requests, Owner

VARIABLES status, attempt, applied

contractVars == <<status, attempt, applied>>

OwnCurrent(r) ==
  {s \in Requests : /\ Owner[s] = Owner[r]
                    /\ status[s] \in {"FINAL_REVIEW", "EXECUTING", "FAILED", "COMPLETED"}}

ContractInit ==
  /\ status = [r \in Requests |-> "ABSENT"]
  /\ attempt = [r \in Requests |-> 0]
  /\ applied = [r \in Requests |-> 0]

Move(r, from, to) == status[r] \in from /\ status' = [status EXCEPT ![r] = to]

Submit(r) ==
  /\ OwnCurrent(r) = {}
  /\ Move(r, {"ABSENT"}, "FINAL_REVIEW")
  /\ UNCHANGED <<attempt, applied>>

Begin(r) ==
  /\ Move(r, {"FINAL_REVIEW", "FAILED"}, "EXECUTING")
  /\ attempt' = [attempt EXCEPT ![r] = @ + 1]
  /\ UNCHANGED applied

Succeed(r) ==
  /\ Move(r, {"EXECUTING"}, "COMPLETED")
  /\ applied' = [applied EXCEPT ![r] = 1]
  /\ UNCHANGED attempt

Fail(r) == Move(r, {"EXECUTING"}, "FAILED") /\ UNCHANGED <<attempt, applied>>

Withdraw(r) == Move(r, {"FINAL_REVIEW", "FAILED"}, "DELETED") /\ UNCHANGED <<attempt, applied>>

Acknowledge(r) == Move(r, {"COMPLETED"}, "ACKED") /\ UNCHANGED <<attempt, applied>>

ContractNext ==
  \E r \in Requests :
    Submit(r) \/ Begin(r) \/ Succeed(r) \/ Fail(r) \/ Withdraw(r) \/ Acknowledge(r)

Contract == ContractInit /\ [][ContractNext]_contractVars
===============================================================================
