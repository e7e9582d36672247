----------------------- MODULE AccountDeletionProofs -----------------------
(***************************************************************************)
(* Proofs about AccountDeletion, for any number of calls and writers and   *)
(* any bounds.  The inductive invariant says what the lock of the profile  *)
(* is good for: while a call deletes, no insert is open, so the tables it  *)
(* has been through stay empty for it.                                     *)
(***************************************************************************)
EXTENDS AccountDeletion, TLAPS

(* One call at a time holds the profile, and none while an insert is open. *)
LocksExclude ==
    /\ \A d, e \in Calls : call[d] = "deleting" /\ call[e] = "deleting" => d = e
    /\ \A d \in Calls, w \in Writers : ~(call[d] = "deleting" /\ writer[w] = "inserted")

(* What has no profile has no rows and no insert under way.                *)
NoOrphans ==
    /\ rows # {} => HasProfile
    /\ \A d \in Calls : call[d] = "deleting" => HasProfile
    /\ \A w \in Writers : writer[w] = "inserted" => HasProfile

(* A call has emptied the tables before its next statement.                *)
Progress ==
    \A d \in Calls :
        /\ call[d] = "deleting" => \A i \in DOMAIN Order : i < statement[d] /\ Order[i] \in rows => Order[i] \in deleted[d]
        /\ call[d] \notin {"deleting", "conflict"} => statement[d] = 1 /\ deleted[d] = {}

(* A transaction that goes on is one of those that insert rows.            *)
WritesKnown == \A w \in Writers : writer[w] # "idle" => tx[w] \in Transactions

AccountFollows == (HasProfile => auth) /\ (told => ~auth)

IInv == TypeOK /\ LocksExclude /\ NoOrphans /\ Progress /\ WritesKnown /\ AccountFollows /\ NeverInConflict

(* The order of the statements fits the references: a row is referred to   *)
(* by rows of earlier tables only.                                         *)
LEMMA OrderFits ==
    /\ Len(Order) = 7 /\ DOMAIN Order = 1 .. 7
    /\ Tables = {"plan_blocks", "solar_requests", "fixed_schedules", "tasks", "check_ins", "planning_cycles",
                 "user_profiles"}
    /\ \A i \in 1 .. 7 : Order[i] \in Tables
    /\ \A i \in 1 .. 7 : \A t \in ReferredToBy(Order[i]) : \E j \in 1 .. i - 1 : t = Order[j]
<1>1. /\ Len(Order) = 7 /\ DOMAIN Order = 1 .. 7
      /\ Order[1] = "plan_blocks" /\ Order[2] = "solar_requests" /\ Order[3] = "fixed_schedules"
      /\ Order[4] = "tasks" /\ Order[5] = "check_ins" /\ Order[6] = "planning_cycles"
      /\ Order[7] = "user_profiles"
  BY DEF Order
<1>2. Tables = {"plan_blocks", "solar_requests", "fixed_schedules", "tasks", "check_ins", "planning_cycles",
                "user_profiles"}
  <2>1. Tables = {Order[i] : i \in 1 .. 7}
    BY <1>1 DEF Tables
  <2> QED
    BY <1>1, <2>1
<1>3. \A i \in 1 .. 7 : Order[i] \in Tables
  BY <1>1, <1>2
<1>4. ASSUME NEW i \in 1 .. 7, NEW t \in ReferredToBy(Order[i])
      PROVE  \E j \in 1 .. i - 1 : t = Order[j]
  <2>1. i \in {1, 2, 3, 4, 5, 6, 7}
    OBVIOUS
  <2>2. CASE i \in {1, 2}
    BY <1>1, <1>4, <2>2 DEF ReferredToBy
  <2>3. CASE i = 3
    <3>1. t = Order[2]
      BY <1>1, <1>4, <2>3 DEF ReferredToBy
    <3> QED
      BY <3>1, <2>3
  <2>4. CASE i = 4
    <3>1. t \in {Order[1], Order[2]}
      BY <1>1, <1>4, <2>4 DEF ReferredToBy
    <3> QED
      BY <3>1, <2>4
  <2>5. CASE i = 5
    <3>1. t = Order[1]
      BY <1>1, <1>4, <2>5 DEF ReferredToBy
    <3> QED
      BY <3>1, <2>5
  <2>6. CASE i = 6
    <3>1. t \in {Order[1], Order[2], Order[3], Order[4], Order[5]}
      BY <1>1, <1>4, <2>6 DEF ReferredToBy
    <3> QED
      BY <3>1, <2>6
  <2>7. CASE i = 7
    <3>1. t \in {Order[1], Order[2], Order[3], Order[4], Order[5], Order[6]}
      BY <1>1, <1>2, <1>4, <2>7 DEF ReferredToBy
    <3> QED
      BY <3>1, <2>7
  <2> QED
    BY <2>1, <2>2, <2>3, <2>4, <2>5, <2>6, <2>7
<1> QED
  BY <1>1, <1>2, <1>3, <1>4

(* A call that ends, whatever it is answered, keeps the invariant.         *)
LEMMA CallOver ==
    ASSUME IInv, NEW d \in Calls, Ends(d), UNCHANGED << rows, writerVars, onboardings >>,
           auth' \in BOOLEAN, told' \in BOOLEAN, faults' \in 0 .. MaxFaults, AccountFollows'
    PROVE  IInv'
<1>0. 1 \in 1 .. Len(Order) + 1 /\ 0 \in 0 .. MaxAttempts - 1
  BY OrderFits DEF MaxAttempts
<1>1. TypeOK'
  BY <1>0
  DEF IInv, TypeOK, MaxAttempts, Ends, writerVars
<1>2. LocksExclude'
  BY DEF IInv, TypeOK, LocksExclude, Ends, writerVars
<1>3. NoOrphans'
  BY DEF IInv, TypeOK, NoOrphans, HasProfile, Ends, writerVars
<1>4. Progress'
  BY DEF IInv, TypeOK, Progress, Ends, writerVars
<1>5. WritesKnown'
  BY DEF IInv, TypeOK, WritesKnown, Ends, writerVars
<1>6. AccountFollows'
  OBVIOUS
<1>7. NeverInConflict'
  BY DEF IInv, TypeOK, NeverInConflict, Ends, writerVars
<1> QED
  BY <1>1, <1>2, <1>3, <1>4, <1>5, <1>6, <1>7 DEF IInv

(* So does an attempt at the Auth account that failed.                     *)
LEMMA AttemptOver ==
    ASSUME IInv, NEW d \in Calls, NextAttempt(d), auth' \in BOOLEAN, faults' \in 0 .. MaxFaults,
           AccountFollows'
    PROVE  IInv'
<1>1. CASE LastAttempt(d)
  BY <1>1, CallOver DEF NextAttempt, IInv, TypeOK
<1>2. CASE ~LastAttempt(d)
  <2>1. TypeOK'
    BY <1>2
    DEF IInv, TypeOK, LastAttempt, MaxAttempts, NextAttempt, writerVars
  <2>2. LocksExclude'
    BY <1>2
    DEF IInv, TypeOK, LocksExclude, NextAttempt, writerVars
  <2>3. NoOrphans'
    BY <1>2
    DEF IInv, TypeOK, NoOrphans, HasProfile, NextAttempt, writerVars
  <2>4. Progress'
    BY <1>2
    DEF IInv, TypeOK, Progress, NextAttempt, writerVars
  <2>5. WritesKnown'
    BY <1>2
    DEF IInv, TypeOK, WritesKnown, NextAttempt, writerVars
  <2>6. AccountFollows'
    OBVIOUS
  <2>7. NeverInConflict'
    BY <1>2
    DEF IInv, TypeOK, NeverInConflict, NextAttempt, writerVars
  <2> QED
    BY <2>1, <2>2, <2>3, <2>4, <2>5, <2>6, <2>7 DEF IInv
<1> QED
  BY <1>1, <1>2

(* The steps of a call beside its DELETE statements.                       *)
LEMMA CallSteps ==
    ASSUME IInv, NEW d \in Calls,
           \/ BeginCall(d) \/ LockProfile(d) \/ SkipRows(d) \/ AbortCall(d)
           \/ AuthDeleted(d) \/ AuthAbsent(d) \/ AuthRestricted(d) \/ AuthFails(d) \/ AuthRefuses(d)
    PROVE  IInv'
<1>1. CASE BeginCall(d)
  <2>1. TypeOK'
    BY <1>1
    DEF IInv, TypeOK, BeginCall, writerVars
  <2>2. LocksExclude'
    BY <1>1
    DEF IInv, TypeOK, LocksExclude, BeginCall, writerVars
  <2>3. NoOrphans'
    BY <1>1
    DEF IInv, TypeOK, NoOrphans, HasProfile, BeginCall, writerVars
  <2>4. Progress'
    BY <1>1
    DEF IInv, TypeOK, Progress, BeginCall, writerVars
  <2>5. WritesKnown'
    BY <1>1
    DEF IInv, TypeOK, WritesKnown, BeginCall, writerVars
  <2>6. AccountFollows'
    BY <1>1
    DEF IInv, AccountFollows, HasProfile, BeginCall, writerVars
  <2>7. NeverInConflict'
    BY <1>1
    DEF IInv, TypeOK, NeverInConflict, BeginCall, writerVars
  <2> QED
    BY <2>1, <2>2, <2>3, <2>4, <2>5, <2>6, <2>7 DEF IInv
<1>2. CASE LockProfile(d)
  <2>1. TypeOK'
    BY <1>2
    DEF IInv, TypeOK, LockProfile, ProfileLocked, ProfileShared, HasProfile, writerVars
  <2>2. LocksExclude'
    BY <1>2
    DEF IInv, TypeOK, LocksExclude, LockProfile, ProfileLocked, ProfileShared, HasProfile, writerVars
  <2>3. NoOrphans'
    BY <1>2
    DEF IInv, TypeOK, NoOrphans, HasProfile, LockProfile, ProfileLocked, ProfileShared, writerVars
  <2>4. Progress'
    BY <1>2, OrderFits
    DEF IInv, TypeOK, Progress, LockProfile, ProfileLocked, ProfileShared, HasProfile, writerVars
  <2>5. WritesKnown'
    BY <1>2
    DEF IInv, TypeOK, WritesKnown, LockProfile, ProfileLocked, ProfileShared, HasProfile, writerVars
  <2>6. AccountFollows'
    BY <1>2
    DEF IInv, AccountFollows, HasProfile, LockProfile, ProfileLocked, ProfileShared, writerVars
  <2>7. NeverInConflict'
    BY <1>2
    DEF IInv, TypeOK, NeverInConflict, LockProfile, ProfileLocked, ProfileShared, HasProfile, writerVars
  <2> QED
    BY <2>1, <2>2, <2>3, <2>4, <2>5, <2>6, <2>7 DEF IInv
<1>3. CASE SkipRows(d)
  <2>1. TypeOK'
    BY <1>3
    DEF IInv, TypeOK, SkipRows, HasProfile, writerVars
  <2>2. LocksExclude'
    BY <1>3
    DEF IInv, TypeOK, LocksExclude, SkipRows, HasProfile, writerVars
  <2>3. NoOrphans'
    BY <1>3
    DEF IInv, TypeOK, NoOrphans, HasProfile, SkipRows, writerVars
  <2>4. Progress'
    BY <1>3
    DEF IInv, TypeOK, Progress, SkipRows, HasProfile, writerVars
  <2>5. WritesKnown'
    BY <1>3
    DEF IInv, TypeOK, WritesKnown, SkipRows, HasProfile, writerVars
  <2>6. AccountFollows'
    BY <1>3
    DEF IInv, AccountFollows, HasProfile, SkipRows, writerVars
  <2>7. NeverInConflict'
    BY <1>3
    DEF IInv, TypeOK, NeverInConflict, SkipRows, HasProfile, writerVars
  <2> QED
    BY <2>1, <2>2, <2>3, <2>4, <2>5, <2>6, <2>7 DEF IInv
<1>4. CASE AbortCall(d)
  <2>1. AccountFollows'
    BY <1>4 DEF AbortCall, IInv, AccountFollows, HasProfile
  <2> QED
    BY <1>4, <2>1, CallOver DEF AbortCall, IInv, TypeOK
<1>5. CASE AuthDeleted(d)
  <2>1. AccountFollows'
    BY <1>5 DEF AuthDeleted, Succeeds, Deletable, AccountFollows, HasProfile
  <2> QED
    BY <1>5, <2>1, CallOver DEF AuthDeleted, Succeeds, IInv, TypeOK
<1>6. CASE AuthAbsent(d)
  <2>1. AccountFollows'
    BY <1>6 DEF AuthAbsent, Succeeds, IInv, AccountFollows, HasProfile
  <2> QED
    BY <1>6, <2>1, CallOver DEF AuthAbsent, Succeeds, IInv, TypeOK
<1>7. CASE AuthRestricted(d)
  <2>1. AccountFollows'
    BY <1>7 DEF AuthRestricted, NextAttempt, IInv, AccountFollows, HasProfile
  <2> QED
    BY <1>7, <2>1, AttemptOver DEF AuthRestricted, IInv, TypeOK
<1>8. CASE AuthFails(d)
  <2>1. AccountFollows'
    BY <1>8 DEF AuthFails, NextAttempt, Deletable, IInv, AccountFollows, HasProfile
  <2>2. faults' \in 0 .. MaxFaults
    BY <1>8, BoundsAssumption DEF AuthFails, IInv, TypeOK
  <2> QED
    BY <1>8, <2>1, <2>2, AttemptOver DEF AuthFails, IInv, TypeOK
<1>9. CASE AuthRefuses(d)
  <2>1. AccountFollows'
    BY <1>9 DEF AuthRefuses, IInv, AccountFollows, HasProfile
  <2>2. faults' \in 0 .. MaxFaults
    BY <1>9, BoundsAssumption DEF AuthRefuses, IInv, TypeOK
  <2> QED
    BY <1>9, <2>1, <2>2, CallOver DEF AuthRefuses, IInv, TypeOK
<1> QED
  BY <1>1, <1>2, <1>3, <1>4, <1>5, <1>6, <1>7, <1>8, <1>9

(* A DELETE finds no row that refers to its table: the tables such rows    *)
(* could be in come earlier, and the call has emptied them.                *)
LEMMA NoConflict ==
    ASSUME IInv, NEW d \in Calls, call[d] = "deleting", Undone(d)
    PROVE  ReferredToBy(Order[statement[d]]) \intersect (rows \ deleted[d]) = {}
<1> DEFINE i == statement[d]
<1>1. i \in 1 .. 7
  BY OrderFits DEF IInv, TypeOK, Undone
<1>2. SUFFICES ASSUME NEW t \in ReferredToBy(Order[i]), t \in rows
               PROVE  t \in deleted[d]
  OBVIOUS
<1>3. PICK j \in 1 .. i - 1 : t = Order[j]
  BY <1>1, <1>2, OrderFits
<1>4. j \in DOMAIN Order /\ j < i
  BY <1>1, OrderFits
<1> QED
  BY <1>2, <1>3, <1>4 DEF IInv, Progress

(* A statement of a deletion, or its commit.                               *)
LEMMA DeletionSteps ==
    ASSUME IInv, NEW d \in Calls, DeleteRows(d) \/ CommitRows(d)
    PROVE  IInv'
<1>1. CASE DeleteRows(d)
  <2> DEFINE t == Order[statement[d]]
  <2>0. /\ call[d] = "deleting" /\ Undone(d)
        /\ deleted' = [deleted EXCEPT ![d] = deleted[d] \union ({t} \intersect rows)]
        /\ statement' = [statement EXCEPT ![d] = statement[d] + 1]
        /\ UNCHANGED << rows, auth, call, attempt, writerVars, told, faults, onboardings >>
    BY <1>1, NoConflict DEF DeleteRows
  <2>00. statement[d] \in 1 .. 7 /\ statement[d] \in DOMAIN Order /\ t \in Tables
    BY <2>0, OrderFits DEF IInv, TypeOK, Undone
  <2> HIDE DEF t
  <2>1. TypeOK'
    BY <2>0, <2>00, OrderFits
    DEF IInv, TypeOK, writerVars
  <2>2. LocksExclude'
    BY <2>0
    DEF IInv, TypeOK, LocksExclude, writerVars
  <2>3. NoOrphans'
    BY <2>0
    DEF IInv, TypeOK, NoOrphans, HasProfile, writerVars
  <2>4. Progress'
    <3>1. ASSUME NEW i \in DOMAIN Order, i < statement[d] + 1, Order[i] \in rows
          PROVE  Order[i] \in deleted[d] \union ({t} \intersect rows)
      <4>1. CASE i = statement[d]
        BY <3>1, <4>1 DEF t
      <4>2. CASE i < statement[d]
        BY <2>0, <3>1, <4>2 DEF IInv, Progress
      <4> QED
        BY <2>00, <3>1, <4>1, <4>2, OrderFits
    <3>2. statement'[d] = statement[d] + 1 /\ deleted'[d] = deleted[d] \union ({t} \intersect rows)
      BY <2>0 DEF IInv, TypeOK
    <3>3. \A e \in Calls \ {d} : statement'[e] = statement[e] /\ deleted'[e] = deleted[e]
      BY <2>0 DEF IInv, TypeOK
    <3> QED
      BY <2>0, <3>1, <3>2, <3>3 DEF IInv, Progress
  <2>5. WritesKnown'
    BY <2>0
    DEF IInv, TypeOK, WritesKnown, writerVars
  <2>6. AccountFollows'
    BY <2>0
    DEF IInv, AccountFollows, HasProfile, writerVars
  <2>7. NeverInConflict'
    BY <2>0
    DEF IInv, TypeOK, NeverInConflict, writerVars
  <2> QED
    BY <2>1, <2>2, <2>3, <2>4, <2>5, <2>6, <2>7 DEF IInv
<1>2. CASE CommitRows(d)
  <2>1. rows' = {} /\ HasProfile
    <3>1. statement[d] \in 1 .. 8 /\ ~(statement[d] <= 7)
      BY <1>2, OrderFits DEF CommitRows, Undone, IInv, TypeOK
    <3>2. ASSUME NEW i \in DOMAIN Order, Order[i] \in rows
          PROVE  Order[i] \in deleted[d]
      <4>1. i < statement[d]
        BY <3>1, OrderFits
      <4> QED
        BY <1>2, <3>2, <4>1 DEF CommitRows, IInv, Progress
    <3>3. rows \subseteq deleted[d]
      BY <3>2 DEF IInv, TypeOK, Tables
    <3> QED
      BY <1>2, <3>3 DEF CommitRows, IInv, NoOrphans
  <2>2. TypeOK'
    <3>1. 1 \in 1 .. Len(Order) + 1
      BY OrderFits
    <3> QED
      BY <1>2, <2>1, <3>1 DEF IInv, TypeOK, CommitRows, writerVars
  <2>3. LocksExclude'
    BY <1>2, <2>1
    DEF IInv, TypeOK, LocksExclude, CommitRows, writerVars
  <2>4. NoOrphans'
    BY <1>2, <2>1
    DEF IInv, TypeOK, NoOrphans, HasProfile, LocksExclude, CommitRows, writerVars
  <2>5. Progress'
    BY <1>2, <2>1
    DEF IInv, TypeOK, Progress, CommitRows, writerVars
  <2>6. WritesKnown'
    BY <1>2, <2>1
    DEF IInv, TypeOK, WritesKnown, CommitRows, writerVars
  <2>7. AccountFollows'
    BY <1>2, <2>1
    DEF IInv, AccountFollows, HasProfile, CommitRows, writerVars
  <2>8. NeverInConflict'
    BY <1>2, <2>1
    DEF IInv, TypeOK, NeverInConflict, CommitRows, writerVars
  <2> QED
    BY <2>2, <2>3, <2>4, <2>5, <2>6, <2>7, <2>8 DEF IInv
<1> QED
  BY <1>1, <1>2

(* A transaction that ends without a row keeps the invariant.              *)
LEMMA WriteOver ==
    ASSUME IInv, NEW w \in Writers, EndWrite(w), UNCHANGED << rows, deleted >>
    PROVE  IInv'
<1>1. TypeOK'
  BY DEF IInv, TypeOK, EndWrite
<1>2. LocksExclude'
  BY DEF IInv, TypeOK, LocksExclude, EndWrite
<1>3. NoOrphans'
  BY DEF IInv, TypeOK, NoOrphans, HasProfile, EndWrite
<1>4. Progress'
  BY DEF IInv, TypeOK, Progress, EndWrite
<1>5. WritesKnown'
  BY DEF IInv, TypeOK, WritesKnown, EndWrite
<1>6. AccountFollows'
  BY DEF IInv, AccountFollows, HasProfile, EndWrite
<1>7. NeverInConflict'
  BY DEF IInv, TypeOK, NeverInConflict, EndWrite
<1> QED
  BY <1>1, <1>2, <1>3, <1>4, <1>5, <1>6, <1>7 DEF IInv

(* The steps of the requests that write while an account is deleted.       *)
LEMMA WriterSteps ==
    ASSUME IInv, NEW w \in Writers,
           BeginWrite(w) \/ Insert(w) \/ InsertRefused(w) \/ CommitWrite(w) \/ AbortWrite(w)
    PROVE  IInv'
<1>1. CASE BeginWrite(w)
  <2>1. TypeOK'
    BY <1>1, BoundsAssumption
    DEF IInv, TypeOK, BeginWrite, callVars
  <2>2. LocksExclude'
    BY <1>1
    DEF IInv, TypeOK, LocksExclude, BeginWrite, callVars
  <2>3. NoOrphans'
    BY <1>1
    DEF IInv, TypeOK, NoOrphans, HasProfile, BeginWrite, callVars
  <2>4. Progress'
    BY <1>1
    DEF IInv, TypeOK, Progress, BeginWrite, callVars
  <2>5. WritesKnown'
    BY <1>1
    DEF IInv, TypeOK, WritesKnown, BeginWrite, callVars
  <2>6. AccountFollows'
    BY <1>1
    DEF IInv, AccountFollows, HasProfile, BeginWrite, callVars
  <2>7. NeverInConflict'
    BY <1>1
    DEF IInv, TypeOK, NeverInConflict, BeginWrite, callVars
  <2> QED
    BY <2>1, <2>2, <2>3, <2>4, <2>5, <2>6, <2>7 DEF IInv
<1>2. CASE Insert(w)
  <2>1. TypeOK'
    BY <1>2
    DEF IInv, TypeOK, Insert, ProfileLocked, HasProfile, callVars
  <2>2. LocksExclude'
    BY <1>2
    DEF IInv, TypeOK, LocksExclude, Insert, ProfileLocked, HasProfile, callVars
  <2>3. NoOrphans'
    BY <1>2
    DEF IInv, TypeOK, NoOrphans, HasProfile, Insert, ProfileLocked, callVars
  <2>4. Progress'
    BY <1>2
    DEF IInv, TypeOK, Progress, Insert, ProfileLocked, HasProfile, callVars
  <2>5. WritesKnown'
    BY <1>2
    DEF IInv, TypeOK, WritesKnown, Insert, ProfileLocked, HasProfile, callVars
  <2>6. AccountFollows'
    BY <1>2
    DEF IInv, AccountFollows, HasProfile, Insert, ProfileLocked, callVars
  <2>7. NeverInConflict'
    BY <1>2
    DEF IInv, TypeOK, NeverInConflict, Insert, ProfileLocked, HasProfile, callVars
  <2> QED
    BY <2>1, <2>2, <2>3, <2>4, <2>5, <2>6, <2>7 DEF IInv
<1>3. CASE InsertRefused(w)
  BY <1>3, WriteOver DEF InsertRefused
<1>4. CASE AbortWrite(w)
  BY <1>4, WriteOver DEF AbortWrite
<1>5. CASE CommitWrite(w)
  <2>0. tx[w].inserts \subseteq Tables
    BY <1>5, OrderFits DEF CommitWrite, IInv, WritesKnown, Transactions
  <2>00. HasProfile /\ \A d \in Calls : call[d] # "deleting"
    BY <1>5 DEF CommitWrite, IInv, LocksExclude, NoOrphans
  <2>1. TypeOK'
    BY <1>5, <2>00, <2>0
    DEF IInv, TypeOK, CommitWrite, EndWrite
  <2>2. LocksExclude'
    BY <1>5, <2>00
    DEF IInv, TypeOK, LocksExclude, CommitWrite, EndWrite
  <2>3. NoOrphans'
    BY <1>5, <2>00
    DEF IInv, TypeOK, NoOrphans, HasProfile, CommitWrite, EndWrite
  <2>4. Progress'
    BY <1>5, <2>00
    DEF IInv, TypeOK, Progress, CommitWrite, EndWrite
  <2>5. WritesKnown'
    BY <1>5, <2>00
    DEF IInv, TypeOK, WritesKnown, CommitWrite, EndWrite
  <2>6. AccountFollows'
    BY <1>5, <2>00
    DEF IInv, AccountFollows, HasProfile, CommitWrite, EndWrite
  <2>7. NeverInConflict'
    BY <1>5, <2>00
    DEF IInv, TypeOK, NeverInConflict, CommitWrite, EndWrite
  <2> QED
    BY <2>1, <2>2, <2>3, <2>4, <2>5, <2>6, <2>7 DEF IInv
<1> QED
  BY <1>1, <1>2, <1>3, <1>4, <1>5

(* Nothing is deleted and nobody writes at first.                          *)
LEMMA InitialState == Init => IInv
<1> SUFFICES ASSUME Init PROVE IInv
  OBVIOUS
<1>0. 1 \in 1 .. Len(Order) + 1 /\ 0 \in 0 .. MaxAttempts - 1
  BY OrderFits DEF MaxAttempts
<1>1. TypeOK
  <2>1. 0 \in 0 .. MaxFaults /\ 0 \in 0 .. MaxWrites /\ 0 \in 0 .. MaxOnboardings
    BY BoundsAssumption
  <2> QED
    BY <1>0, <2>1 DEF TypeOK, Init
<1>2. LocksExclude
  BY DEF TypeOK, LocksExclude, Init
<1>3. NoOrphans
  BY DEF TypeOK, NoOrphans, HasProfile, Init
<1>4. Progress
  BY OrderFits
  DEF TypeOK, Progress, Init
<1>5. WritesKnown
  BY DEF TypeOK, WritesKnown, Init
<1>6. AccountFollows
  BY DEF AccountFollows, HasProfile, Init
<1>7. NeverInConflict
  BY DEF TypeOK, NeverInConflict, Init
<1> QED
  BY <1>1, <1>2, <1>3, <1>4, <1>5, <1>6, <1>7 DEF IInv

(* The inductive invariant holds in every reachable state.                 *)
LEMMA Invariance == Spec => []IInv
<1>1. ASSUME IInv, [Next]_vars
      PROVE  IInv'
  <2>1. CASE \E d \in Calls : BeginCall(d) \/ CallStep(d) \/ AuthFails(d) \/ AuthRefuses(d)
    BY <1>1, <2>1, CallSteps, DeletionSteps DEF CallStep
  <2>2. CASE \E w \in Writers : BeginWrite(w) \/ WriterStep(w)
    BY <1>1, <2>2, WriterSteps DEF WriterStep
  <2>3. CASE Onboard
    <3>1. TypeOK'
      BY <1>1, <2>3, OrderFits, BoundsAssumption
      DEF IInv, TypeOK, Onboard, HasProfile, callVars, writerVars
    <3>2. LocksExclude'
      BY <1>1, <2>3
      DEF IInv, TypeOK, LocksExclude, Onboard, HasProfile, callVars, writerVars
    <3>3. NoOrphans'
      BY <1>1, <2>3
      DEF IInv, TypeOK, NoOrphans, HasProfile, Onboard, callVars, writerVars
    <3>4. Progress'
      BY <1>1, <2>3
      DEF IInv, TypeOK, Progress, NoOrphans, Onboard, HasProfile, callVars, writerVars
    <3>5. WritesKnown'
      BY <1>1, <2>3
      DEF IInv, TypeOK, WritesKnown, Onboard, HasProfile, callVars, writerVars
    <3>6. AccountFollows'
      BY <1>1, <2>3
      DEF IInv, AccountFollows, HasProfile, Onboard, callVars, writerVars
    <3>7. NeverInConflict'
      BY <1>1, <2>3
      DEF IInv, TypeOK, NeverInConflict, Onboard, HasProfile, callVars, writerVars
    <3> QED
      BY <3>1, <3>2, <3>3, <3>4, <3>5, <3>6, <3>7 DEF IInv
  <2>4. CASE Crash
    <3>1. TypeOK'
      BY <1>1, <2>4, OrderFits, BoundsAssumption
      DEF IInv, TypeOK, MaxAttempts, Crash, HasProfile
    <3>2. LocksExclude'
      BY <1>1, <2>4
      DEF IInv, TypeOK, LocksExclude, Crash, HasProfile
    <3>3. NoOrphans'
      BY <1>1, <2>4
      DEF IInv, TypeOK, NoOrphans, HasProfile, Crash
    <3>4. Progress'
      BY <1>1, <2>4
      DEF IInv, TypeOK, Progress, Crash, HasProfile
    <3>5. WritesKnown'
      BY <1>1, <2>4
      DEF IInv, TypeOK, WritesKnown, Crash, HasProfile
    <3>6. AccountFollows'
      BY <1>1, <2>4
      DEF IInv, AccountFollows, HasProfile, Crash
    <3>7. NeverInConflict'
      BY <1>1, <2>4
      DEF IInv, TypeOK, NeverInConflict, Crash, HasProfile
    <3> QED
      BY <3>1, <3>2, <3>3, <3>4, <3>5, <3>6, <3>7 DEF IInv
  <2>5. CASE UNCHANGED vars
    <3>1. TypeOK'
      BY <1>1, <2>5
      DEF IInv, TypeOK, vars, callVars, writerVars
    <3>2. LocksExclude'
      BY <1>1, <2>5
      DEF IInv, TypeOK, LocksExclude, vars, callVars, writerVars
    <3>3. NoOrphans'
      BY <1>1, <2>5
      DEF IInv, TypeOK, NoOrphans, HasProfile, vars, callVars, writerVars
    <3>4. Progress'
      BY <1>1, <2>5
      DEF IInv, TypeOK, Progress, vars, callVars, writerVars
    <3>5. WritesKnown'
      BY <1>1, <2>5
      DEF IInv, TypeOK, WritesKnown, vars, callVars, writerVars
    <3>6. AccountFollows'
      BY <1>1, <2>5
      DEF IInv, AccountFollows, HasProfile, vars, callVars, writerVars
    <3>7. NeverInConflict'
      BY <1>1, <2>5
      DEF IInv, TypeOK, NeverInConflict, vars, callVars, writerVars
    <3> QED
      BY <3>1, <3>2, <3>3, <3>4, <3>5, <3>6, <3>7 DEF IInv
  <2> QED
    BY <1>1, <2>1, <2>2, <2>3, <2>4, <2>5 DEF Next
<1> QED
  BY <1>1, InitialState, PTL DEF Spec

(* Every variable has its type.                                            *)
THEOREM TypeCorrect == Spec => []TypeOK
<1>1. IInv => TypeOK
  BY DEF IInv
<1> QED
  BY <1>1, Invariance, PTL

(* No DELETE statement is refused by a foreign key, however many calls and *)
(* transactions run beside each other.                                     *)
THEOREM NeverConflicts == Spec => []NeverInConflict
<1>1. IInv => NeverInConflict
  BY DEF IInv
<1> QED
  BY <1>1, Invariance, PTL

(* What a call has reported as deleted stays deleted.                      *)
THEOREM GoneForGood == Spec => []GoneIsGone
<1>1. IInv => GoneIsGone
  BY DEF IInv, AccountFollows, NoOrphans, GoneIsGone
<1> QED
  BY <1>1, Invariance, PTL

=============================================================================
