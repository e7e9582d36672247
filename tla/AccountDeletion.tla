-------------------------- MODULE AccountDeletion --------------------------
(***************************************************************************)
(* The deletion of an account: app/services/account_deletion_service.py    *)
(* deletes the user's rows in one transaction, then                        *)
(* app/services/supabase_admin_client.py deletes the Auth account, with    *)
(* three attempts.  Beside it run the transactions that write rows of the  *)
(* same user, and onboarding, which makes a profile again.                 *)
(*                                                                         *)
(* Of each table it matters whether it has rows of the user.  Statements   *)
(* are steps; a transaction that waits for a lock has no step.  The cards  *)
(* and messages of a request count as the request.                         *)
(***************************************************************************)
EXTENDS Integers, Sequences, FiniteSets

CONSTANTS
    Calls,            \* DELETE /me of the user, each repeated at will
    Writers,
    NoTransaction,
    MaxFaults,        \* bound: kills, lost answers, errors of the Auth service
    MaxWrites,        \* bound: transactions of the writers
    MaxOnboardings    \* bound: profiles made anew

ASSUME BoundsAssumption == {MaxFaults, MaxWrites, MaxOnboardings} \subseteq Nat

(* The order of the DELETE statements.                                     *)
Order == << "plan_blocks", "solar_requests", "fixed_schedules", "tasks", "check_ins",
            "planning_cycles", "user_profiles" >>
Tables == {Order[i] : i \in DOMAIN Order}

(* The tables whose rows may keep a row from being deleted: RESTRICT, and  *)
(* for a fixed schedule the CHECK of the cards that change it.             *)
ReferredToBy(t) ==
    CASE t = "tasks" -> {"plan_blocks", "solar_requests"}
      [] t = "fixed_schedules" -> {"solar_requests"}
      [] t = "check_ins" -> {"plan_blocks"}
      [] t = "planning_cycles" -> {"plan_blocks", "solar_requests", "fixed_schedules", "tasks", "check_ins"}
      [] t = "user_profiles" -> Tables \ {"user_profiles"}
      [] OTHER -> {}

(* What a row cannot be without.                                           *)
Parents(t) ==
    CASE t = "plan_blocks" -> {"tasks", "planning_cycles", "user_profiles"}
      [] t \in {"tasks", "fixed_schedules", "check_ins"} -> {"planning_cycles", "user_profiles"}
      [] t \in {"solar_requests", "planning_cycles"} -> {"user_profiles"}
      [] OTHER -> {}

(* The transactions that insert rows: what they must find, which rows they *)
(* lock first, and what they insert.                                       *)
Transactions ==
    { \* create_solar_request
      [needs |-> {}, locks |-> {}, inserts |-> {"solar_requests"}],
      \* add_solar_message
      [needs |-> {"solar_requests"}, locks |-> {"solar_requests"}, inserts |-> {"solar_requests"}],
      \* execute_new_cycle
      [needs |-> {"solar_requests"}, locks |-> {},
       inserts |-> {"planning_cycles", "tasks", "fixed_schedules", "plan_blocks"}],
      \* execute_active_cycle
      [needs |-> {"solar_requests", "planning_cycles"},
       locks |-> {"planning_cycles", "plan_blocks", "tasks", "fixed_schedules"},
       inserts |-> {"tasks", "fixed_schedules", "plan_blocks"}],
      \* the two transactions of settle_period
      [needs |-> {"planning_cycles", "plan_blocks"}, locks |-> {"planning_cycles", "plan_blocks"},
       inserts |-> {"check_ins"}],
      [needs |-> {"planning_cycles", "check_ins", "plan_blocks"},
       locks |-> {"planning_cycles", "check_ins", "plan_blocks", "tasks"}, inserts |-> {"plan_blocks"}] }

MaxAttempts == 3

VARIABLES
    rows,       \* tables with committed rows of the user
    auth,       \* the Auth account exists
    call,       \* where a call is; "conflict" stands for an IntegrityError
    statement,  \* the next DELETE of its transaction
    deleted,    \* tables it has emptied, not yet committed
    attempt,    \* attempts at the Auth account that have failed
    writer,     \* where a writer is
    tx,         \* its transaction
    told,       \* some call was answered 204
    faults, writes, onboardings

callVars == << call, statement, deleted, attempt >>
writerVars == << writer, tx, writes >>
vars == << rows, auth, callVars, writerVars, told, faults, onboardings >>

TypeOK ==
    /\ rows \subseteq Tables
    /\ auth \in BOOLEAN
    /\ call \in [Calls -> {"idle", "called", "deleting", "auth", "conflict"}]
    /\ statement \in [Calls -> 1 .. Len(Order) + 1]
    /\ deleted \in [Calls -> SUBSET Tables]
    /\ attempt \in [Calls -> 0 .. MaxAttempts - 1]
    /\ writer \in [Writers -> {"idle", "locked", "inserted"}]
    /\ tx \in [Writers -> Transactions \union {NoTransaction}]
    /\ told \in BOOLEAN
    /\ faults \in 0 .. MaxFaults
    /\ writes \in 0 .. MaxWrites
    /\ onboardings \in 0 .. MaxOnboardings

(* A user with a profile and any rows.                                     *)
Init ==
    /\ rows \in {R \in SUBSET Tables : "user_profiles" \in R /\ \A t \in R : Parents(t) \subseteq R}
    /\ auth = TRUE
    /\ call = [d \in Calls |-> "idle"]
    /\ statement = [d \in Calls |-> 1]
    /\ deleted = [d \in Calls |-> {}]
    /\ attempt = [d \in Calls |-> 0]
    /\ writer = [w \in Writers |-> "idle"]
    /\ tx = [w \in Writers |-> NoTransaction]
    /\ told = FALSE
    /\ faults = 0 /\ writes = 0 /\ onboardings = 0

HasProfile == "user_profiles" \in rows

(* Row locks held to the end of a transaction.                             *)
HeldByWriter(w) == IF writer[w] = "idle" THEN {} ELSE tx[w].locks
ProfileLocked == \E d \in Calls : call[d] = "deleting"
ProfileShared == \E w \in Writers : writer[w] = "inserted"

(* The call is over, whatever it is answered; an open transaction is       *)
(* rolled back.                                                            *)
Ends(d) ==
    /\ call' = [call EXCEPT ![d] = "idle"]
    /\ statement' = [statement EXCEPT ![d] = 1]
    /\ deleted' = [deleted EXCEPT ![d] = {}]
    /\ attempt' = [attempt EXCEPT ![d] = 0]

(***************************************************************************)
(* A call                                                                  *)
(***************************************************************************)
BeginCall(d) ==
    /\ call[d] = "idle"
    /\ call' = [call EXCEPT ![d] = "called"]
    /\ UNCHANGED << rows, auth, statement, deleted, attempt, writerVars, told, faults, onboardings >>

\* Mutant of LockProfile: the profile is read without FOR UPDATE.
ReadProfile(d) ==
    /\ call[d] = "called" /\ HasProfile
    /\ call' = [call EXCEPT ![d] = "deleting"]
    /\ UNCHANGED << rows, auth, statement, deleted, attempt, writerVars, told, faults, onboardings >>

(* FOR UPDATE waits for inserts, which share the profile by their foreign  *)
(* key, and for another call.                                              *)
LockProfile(d) ==
    /\ call[d] = "called" /\ HasProfile
    /\ ~ProfileLocked /\ ~ProfileShared
    /\ call' = [call EXCEPT ![d] = "deleting"]
    /\ UNCHANGED << rows, auth, statement, deleted, attempt, writerVars, told, faults, onboardings >>

\* Mutant of SkipRows: a call that finds no profile takes the account for gone.
SkipAll(d) ==
    /\ call[d] = "called" /\ ~HasProfile
    /\ Ends(d)
    /\ told' = TRUE
    /\ UNCHANGED << rows, auth, writerVars, faults, onboardings >>

(* The rows are gone since an earlier call; only the Auth account is left. *)
SkipRows(d) ==
    /\ call[d] = "called" /\ ~HasProfile
    /\ call' = [call EXCEPT ![d] = "auth"]
    /\ UNCHANGED << rows, auth, statement, deleted, attempt, writerVars, told, faults, onboardings >>

Undone(d) == statement[d] <= Len(Order)

(* A DELETE sees what is committed when it begins.                         *)
DeleteRows(d) ==
    /\ call[d] = "deleting" /\ Undone(d)
    /\ LET t == Order[statement[d]]
           others == rows \ deleted[d]
       IN  /\ \A w \in Writers : t \notin HeldByWriter(w)
           /\ IF t \in others /\ ReferredToBy(t) \intersect others # {}
              THEN call' = [call EXCEPT ![d] = "conflict"] /\ UNCHANGED << statement, deleted >>
              ELSE /\ deleted' = [deleted EXCEPT ![d] = @ \union ({t} \intersect rows)]
                   /\ statement' = [statement EXCEPT ![d] = @ + 1]
                   /\ UNCHANGED call
    /\ UNCHANGED << rows, auth, attempt, writerVars, told, faults, onboardings >>

CommitRows(d) ==
    /\ call[d] = "deleting" /\ ~Undone(d)
    /\ rows' = rows \ deleted[d]
    /\ call' = [call EXCEPT ![d] = "auth"]
    /\ statement' = [statement EXCEPT ![d] = 1]
    /\ deleted' = [deleted EXCEPT ![d] = {}]
    /\ UNCHANGED << auth, attempt, writerVars, told, faults, onboardings >>

(* The call waits for a row that the writer has locked, and the writer for *)
(* the profile: the database ends one of the two.                          *)
Deadlocked(d, w) ==
    /\ call[d] = "deleting" /\ Undone(d)
    /\ writer[w] = "locked" /\ Order[statement[d]] \in HeldByWriter(w)

AbortCall(d) ==
    /\ \E w \in Writers : Deadlocked(d, w)
    /\ Ends(d)
    /\ UNCHANGED << rows, auth, writerVars, told, faults, onboardings >>

(***************************************************************************)
(* delete_auth_user                                                        *)
(***************************************************************************)
(* The foreign key of the profile keeps the Auth service from deleting.    *)
Deletable == auth /\ ~HasProfile

Succeeds(d) ==
    /\ Ends(d)
    /\ told' = TRUE
    /\ UNCHANGED << rows, writerVars, onboardings >>

AuthDeleted(d) ==
    /\ call[d] = "auth" /\ Deletable
    /\ auth' = FALSE
    /\ Succeeds(d)
    /\ UNCHANGED faults

\* Mutant of AuthAbsent: 404 is an error like other 4xx.
AuthAbsentFails(d) ==
    /\ call[d] = "auth" /\ ~auth
    /\ Ends(d)
    /\ UNCHANGED << rows, auth, writerVars, told, faults, onboardings >>

AuthAbsent(d) ==
    /\ call[d] = "auth" /\ ~auth
    /\ Succeeds(d)
    /\ UNCHANGED << auth, faults >>

\* Mutant of LastAttempt: one attempt more than there are delays.
LastAttemptLate(d) == attempt[d] = MaxAttempts

LastAttempt(d) == attempt[d] = MaxAttempts - 1

(* 429, 5xx and network errors are tried again; the last one is answered   *)
(* 500.                                                                    *)
NextAttempt(d) ==
    /\ IF LastAttempt(d)
       THEN Ends(d)
       ELSE attempt' = [attempt EXCEPT ![d] = @ + 1] /\ UNCHANGED << call, statement, deleted >>
    /\ UNCHANGED << rows, writerVars, told, onboardings >>

AuthRestricted(d) ==
    /\ call[d] = "auth" /\ auth /\ HasProfile
    /\ NextAttempt(d)
    /\ UNCHANGED << auth, faults >>

(* The service fails, or deletes the account and its answer is lost.       *)
AuthFails(d) ==
    /\ call[d] = "auth"
    /\ faults < MaxFaults
    /\ faults' = faults + 1
    /\ auth' \in IF Deletable THEN {TRUE, FALSE} ELSE {auth}
    /\ NextAttempt(d)

AuthRefuses(d) ==
    /\ call[d] = "auth"
    /\ faults < MaxFaults
    /\ faults' = faults + 1
    /\ Ends(d)
    /\ UNCHANGED << rows, auth, writerVars, told, onboardings >>

(***************************************************************************)
(* Transactions that write rows of the user                                *)
(***************************************************************************)
BeginWrite(w) ==
    /\ writer[w] = "idle" /\ writes < MaxWrites
    /\ \E x \in Transactions :
          /\ x.needs \subseteq rows
          /\ \A v \in Writers \ {w} : x.locks \intersect HeldByWriter(v) = {}
          /\ \A d \in Calls : call[d] = "deleting" => x.locks \intersect deleted[d] = {}
          /\ tx' = [tx EXCEPT ![w] = x]
    /\ writer' = [writer EXCEPT ![w] = "locked"]
    /\ writes' = writes + 1
    /\ UNCHANGED << rows, auth, callVars, told, faults, onboardings >>

EndWrite(w) ==
    /\ writer' = [writer EXCEPT ![w] = "idle"]
    /\ tx' = [tx EXCEPT ![w] = NoTransaction]
    /\ UNCHANGED << auth, call, statement, attempt, writes, told, faults, onboardings >>

(* An insert shares the profile, so it waits for a deletion to commit; if  *)
(* the profile is gone then, the foreign key refuses it.                   *)
Insert(w) ==
    /\ writer[w] = "locked" /\ ~ProfileLocked /\ HasProfile
    /\ writer' = [writer EXCEPT ![w] = "inserted"]
    /\ UNCHANGED << rows, auth, callVars, tx, writes, told, faults, onboardings >>

InsertRefused(w) ==
    /\ writer[w] = "locked" /\ ~HasProfile
    /\ EndWrite(w)
    /\ UNCHANGED << rows, deleted >>

(* Rows that come after the DELETE of their table stay.                    *)
CommitWrite(w) ==
    /\ writer[w] = "inserted"
    /\ rows' = rows \union tx[w].inserts
    /\ deleted' = [d \in Calls |-> deleted[d] \ tx[w].inserts]
    /\ EndWrite(w)

AbortWrite(w) ==
    /\ \E d \in Calls : Deadlocked(d, w)
    /\ EndWrite(w)
    /\ UNCHANGED << rows, deleted >>

(* upsert_onboarding_profile: a token outlives the profile, and the        *)
(* account too, but not the foreign key of the profile.                    *)
Onboard ==
    /\ auth /\ ~HasProfile
    /\ onboardings < MaxOnboardings
    /\ rows' = rows \union {"user_profiles"}
    /\ onboardings' = onboardings + 1
    /\ UNCHANGED << auth, callVars, writerVars, told, faults >>

(* The server is killed: open transactions are rolled back, and calls      *)
(* between the rows and the Auth account stop there.                       *)
Crash ==
    /\ faults < MaxFaults
    /\ faults' = faults + 1
    /\ call' = [d \in Calls |-> "idle"]
    /\ statement' = [d \in Calls |-> 1]
    /\ deleted' = [d \in Calls |-> {}]
    /\ attempt' = [d \in Calls |-> 0]
    /\ writer' = [w \in Writers |-> "idle"]
    /\ tx' = [w \in Writers |-> NoTransaction]
    /\ UNCHANGED << rows, auth, writes, told, onboardings >>

CallStep(d) ==
    \/ LockProfile(d) \/ SkipRows(d) \/ DeleteRows(d) \/ CommitRows(d) \/ AbortCall(d)
    \/ AuthDeleted(d) \/ AuthAbsent(d) \/ AuthRestricted(d)

WriterStep(w) == Insert(w) \/ InsertRefused(w) \/ CommitWrite(w) \/ AbortWrite(w)

Next ==
    \/ \E d \in Calls : BeginCall(d) \/ CallStep(d) \/ AuthFails(d) \/ AuthRefuses(d)
    \/ \E w \in Writers : BeginWrite(w) \/ WriterStep(w)
    \/ Onboard
    \/ Crash

Spec == Init /\ [][Next]_vars

(* Calls and transactions go on; the database grants a lock in the order   *)
(* of asking, so an insert that waits for the profile has it in the end;   *)
(* and the user repeats the call, as the docstring of the service asks for *)
(* after a failure.                                                        *)
RepeatingSpec ==
    /\ Spec
    /\ \A d \in Calls : WF_vars(BeginCall(d)) /\ WF_vars(CallStep(d))
    /\ \A w \in Writers : WF_vars(WriterStep(w)) /\ SF_vars(Insert(w))

(***************************************************************************)
(* Properties                                                              *)
(***************************************************************************)
(* No DELETE is refused because rows still refer to what it deletes: the   *)
(* statements come in an order that fits the foreign keys, and whatever    *)
(* other transactions do, no row comes in between.                         *)
NeverInConflict == \A d \in Calls : call[d] # "conflict"

(* Once a call was answered 204, nothing of the user exists, and nothing   *)
(* comes back: not by a second call, a late transaction or onboarding.     *)
GoneIsGone == told => rows = {} /\ ~auth

(* Repeating is enough: however the first calls fail, between the rows and *)
(* the account or after a lost answer, a repeated one is answered 204.     *)
DeletionCompletes == <>told

=============================================================================
