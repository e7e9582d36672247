----------------------- MODULE SolarConversationProofs -----------------------
(***************************************************************************)
(* Theorems about SolarConversation, for any number of clients, threads,   *)
(* events, entities, cards, operations, lines and turns and whatever the   *)
(* language model answers: first the counts, the promises and the          *)
(* refinement, then the cards and the questions asked about them.          *)
(***************************************************************************)
EXTENDS SolarConversation, FiniteSetTheorems, TLAPS

(* Counting needs a finite set of events.                                  *)
Counted ==
    /\ IsFiniteSet(used)
    /\ turns = Cardinality(used)

(* A message or decision whose client event is new keeps the count.        *)
LEMMA CommitCounts ==
    ASSUME NEW d, NEW e, Counted, e \notin used, Commit(d, e)
    PROVE  Counted'
<1>1. used' = used \union {e} /\ turns' = turns + 1
    BY DEF Commit
<1>2. IsFiniteSet(used \union {e}) /\ Cardinality(used \union {e}) = Cardinality(used) + 1
    BY FS_AddElement DEF Counted
<1> QED
    BY <1>1, <1>2 DEF Counted

(* Deleting or acknowledging a request forgets its events with it.         *)
LEMMA ForgetCounts ==
    ASSUME Forget
    PROVE  Counted'
<1>1. used' = {} /\ turns' = 0
    BY DEF Forget
<1>2. IsFiniteSet({}) /\ Cardinality({}) = 0
    BY FS_EmptySet
<1> QED
    BY <1>1, <1>2 DEF Counted

(* Every step counts the messages it takes.                                *)
LEMMA StepsCount ==
    ASSUME Counted, [Next]_vars
    PROVE  Counted'
<1>1. ASSUME NEW c \in Clients, NEW e \in Events, NEW purpose, BeginCreate(c, e, purpose)
      PROVE  Counted'
    BY <1>1 DEF BeginCreate, Counted
<1>2. ASSUME NEW c \in Clients, FinishCreate(c)
      PROVE  Counted'
    <2>1. CASE used' = {call[c].event} /\ turns' = 1
        <3>1. IsFiniteSet({call[c].event}) /\ Cardinality({call[c].event}) = 1
            BY FS_Singleton
        <3> QED
            BY <2>1, <3>1 DEF Counted
    <2>2. CASE UNCHANGED << used, turns >>
        BY <2>2 DEF Counted
    <2> QED
        BY <1>2, <2>1, <2>2 DEF FinishCreate
<1>3. ASSUME NEW c \in Clients, CreateRefused(c) \/ AnalysisFails(c) \/ StaleMessage(c)
      PROVE  Counted'
    BY <1>3 DEF CreateRefused, AnalysisFails, StaleMessage, Counted
<1>4. ASSUME NEW c \in Clients, NEW e \in Events, BeginMessage(c, e)
      PROVE  Counted'
    BY <1>4 DEF BeginMessage, Counted
<1>5. ASSUME NEW c \in Clients, FinishMessage(c)
      PROVE  Counted'
    <2>1. call[c].event \notin used
        BY <1>5 DEF FinishMessage, Fits
    <2>2. (\E d : Commit(d, call[c].event)) \/ UNCHANGED << used, turns >>
        BY <1>5 DEF FinishMessage
    <2>3. CASE UNCHANGED << used, turns >>
        BY <2>3 DEF Counted
    <2> QED
        BY <2>1, <2>2, <2>3, CommitCounts
<1>6. ASSUME NEW e \in Events, NEW decision, Decide(e, decision)
      PROVE  Counted'
    <2>1. e \notin used /\ \E d : Commit(d, e)
        BY <1>6 DEF Decide
    <2> QED
        BY <2>1, CommitCounts
<1>7. ASSUME Delete \/ Acknowledge
      PROVE  Counted'
    BY <1>7, ForgetCounts DEF Delete, Acknowledge
<1>8. ASSUME Reopen \/ Execute \/ EndCycle
      PROVE  Counted'
    BY <1>8 DEF Reopen, Execute, EndCycle, Counted
<1>9. ASSUME NEW status, ExecutionEnds(status)
      PROVE  Counted'
    BY <1>9 DEF ExecutionEnds, Counted
<1>10. ASSUME NEW t \in Tasks, TaskSettled(t)
       PROVE  Counted'
    BY <1>10 DEF TaskSettled, Counted
<1>11. ASSUME UNCHANGED vars
       PROVE  Counted'
    BY <1>11 DEF vars, Counted
<1> QED
    BY <1>1, <1>2, <1>3, <1>4, <1>5, <1>6, <1>7, <1>8, <1>9, <1>10, <1>11 DEF Next

(* A message or decision counts once, however many threads carry copies of *)
(* it between the read and the write transaction, and whatever requests    *)
(* were deleted and created meanwhile.                                     *)
THEOREM EventsOnce == Spec => []EventOnce
<1>1. Init => Counted
    BY FS_EmptySet DEF Init, Counted
<1>2. Counted /\ [Next]_vars => Counted'
    BY StepsCount
<1>3. Counted => EventOnce
    BY DEF Counted, EventOnce
<1> QED
    BY <1>1, <1>2, <1>3, PTL DEF Spec

(***************************************************************************)
(* Reviewed cards are complete, and the conversation keeps its contract    *)
(***************************************************************************)
(* What a thread keeps from its read transaction.                          *)
Answers(k) ==
    /\ k.op \in {"create", "message"} => k.event \in Events
    /\ k.op = "message" => k.kind # "refused"

CallsAnswer ==
    /\ call = [c \in Clients |-> call[c]]
    /\ \A c \in Clients : Answers(call[c])

(* The fields of a request, without the values they have.                  *)
RequestFields ==
    request = [no |-> request.no, status |-> request.status, purpose |-> request.purpose,
               cycle |-> request.cycle, cursor |-> request.cursor, minted |-> request.minted]

ConversationInv == CallsAnswer /\ RequestFields /\ ReviewedComplete

(* What a transaction may leave behind: it collects, edits, or confirms    *)
(* cards that are all complete.                                            *)
Told(d) ==
    /\ d.status \in {"COLLECTING", "CHANGE_CONFIRMATION", "CHANGE_INPUT"}
    /\ d.status = "CHANGE_CONFIRMATION" => d.cards # << >> /\ Missing(d.cards) = {}

(* Whatever was done to the cards before, the recomputation at the end of  *)
(* an answer tells the truth about them.                                   *)
LEMMA RecomputeTells ==
    ASSUME NEW d
    PROVE  Told(Recompute(d))
<1>1. CASE d.cards = << >>
    <2>1. Missing(d.cards) = {}
        BY <1>1 DEF Missing
    <2>2. Recompute(d) = Settle(d, "CHANGE_INPUT")
        BY <1>1, <2>1 DEF Recompute
    <2> QED
        BY <2>2 DEF Settle, Told
<1>2. CASE d.cards # << >> /\ Missing(d.cards) # {}
    BY <1>2 DEF Recompute, AskCard, Told
<1>3. CASE d.cards # << >> /\ Missing(d.cards) = {}
    BY <1>3 DEF Recompute, Settle, Told
<1> QED
    BY <1>1, <1>2, <1>3

(* The next question about a card is one that tells what is missing.       *)
LEMMA AdvanceTells ==
    ASSUME NEW d, NEW i, NEW remaining
    PROVE  Told(AdvanceCard(d, i, remaining))
<1>1. CASE remaining = {}
    BY <1>1, RecomputeTells DEF AdvanceCard
<1>2. CASE remaining # {}
    BY <1>2 DEF AdvanceCard, AskCard, Told
<1> QED
    BY <1>1, <1>2

(* The first message.                                                      *)
LEMMA FirstDraftTells ==
    ASSUME NEW targets, NEW a \in FirstAnalyses(targets)
    PROVE  Told(FirstDraft(a)) /\ FirstDraft(a).status # "CHANGE_INPUT"
<1>1. CASE a.unresolved # NoQuestion
    BY <1>1 DEF FirstDraft, Told
<1>2. CASE a.unresolved = NoQuestion /\ Missing(Stored(a.lines)) # {}
    BY <1>2 DEF FirstDraft, AskCard, Told
<1>3. CASE a.unresolved = NoQuestion /\ Missing(Stored(a.lines)) = {}
    <2>1. Stored(a.lines) # << >>
        BY <1>3 DEF FirstAnalyses, Stored
    <2> QED
        BY <1>3, <2>1 DEF FirstDraft, Settle, Told
<1> QED
    BY <1>1, <1>2, <1>3

(* Every other message whose answer is not refused.                        *)
LEMMA OutcomesTell ==
    ASSUME NEW k, Fits(k), k.kind # "refused", NEW d \in Outcomes(k), d.refused = NoRefusal
    PROVE  Told(d) /\ request.status \in {"COLLECTING", "CHANGE_INPUT"}
<1>1. request.status \in {"COLLECTING", "CHANGE_INPUT"}
    BY DEF Fits, DispatchKind
<1> SUFFICES Told(d)
    BY <1>1
<1>2. CASE k.kind = "card"
    <2>1. request.status = "COLLECTING"
        BY <1>2 DEF Fits, DispatchKind
    <2>2. ASSUME NEW i, NEW card, NEW q
          PROVE  Told([SetCard(Draft, i, card) EXCEPT !.question = q])
        BY <2>1 DEF SetCard, Draft, Told
    <2>3. d \in CardAnswers(k)
        BY <1>2 DEF Outcomes
    <2>4. \/ \E cs, remaining : d = AdvanceCard(cs, request.cursor, remaining)
          \/ \E card, q : d = [SetCard(Draft, request.cursor, card) EXCEPT !.question = q]
        BY <2>3 DEF CardAnswers
    <2>5. CASE \E cs, remaining : d = AdvanceCard(cs, request.cursor, remaining)
        BY <2>5, AdvanceTells
    <2>6. CASE \E card, q : d = [SetCard(Draft, request.cursor, card) EXCEPT !.question = q]
        <3>1. PICK card, q : d = [SetCard(Draft, request.cursor, card) EXCEPT !.question = q]
            BY <2>6
        <3> QED
            BY <3>1, <2>2, Zenon
    <2> QED
        BY <2>4, <2>5, <2>6
<1>3. CASE k.kind = "recurrence"
    <2>1. \A i, card : Told(AskCard(Draft, i, card))
        BY DEF AskCard, Told
    <2> QED
        BY <1>3, <2>1, RecomputeTells DEF Outcomes, RecurrenceAnswers
<1>4. ASSUME NEW kind, NEW action, NEW entity, NEW key
      PROVE  Told(AskTarget(kind, action, entity, key))
    BY DEF AskTarget, Draft, Told
<1>5. CASE k.kind = "edit"
    BY <1>4, <1>5, RecomputeTells DEF Outcomes, ChangeAnswers, ChangeUnresolved
<1>6. CASE k.kind \notin {"card", "recurrence", "edit"}
    <2>1. \A x : Refuse(Draft, Ambiguous(x)).refused # NoRefusal
        BY DEF Refuse, Draft, Ambiguous, NoRefusal
    <2>2. \A kind, entity, x :
              Told([Draft EXCEPT !.status = "COLLECTING", !.cursor = 0,
                                 !.question = DetailsQuestion(kind, entity, x)])
        BY DEF Draft, Told
    <2>3. ASSUME NEW x, d = ResolvedTargetOnly(k.ctx, x)
          PROVE  Told(d)
        BY <2>1, <2>2, <2>3, RecomputeTells DEF ResolvedTargetOnly
    <2>4. ASSUME NEW x, d \in ResolvedItems(k.ctx, x)
          PROVE  Told(d)
        BY <2>1, <2>4, RecomputeTells DEF ResolvedItems
    <2>5. ASSUME d = StillUnresolved(k.ctx)
          PROVE  Told(d)
        BY <1>4, <2>5 DEF StillUnresolved
    <2>6. d \in TargetAnswers(k)
        BY <1>6 DEF Outcomes
    <2>7. (\E x : d = ResolvedTargetOnly(k.ctx, x) \/ d \in ResolvedItems(k.ctx, x)) \/ d = StillUnresolved(k.ctx)
        BY <2>6 DEF TargetAnswers
    <2> QED
        BY <2>3, <2>4, <2>5, <2>7
<1> QED
    BY <1>2, <1>3, <1>5, <1>6

(* A commit writes a draft and keeps the rest of the request.              *)
LEMMA CommitKeeps ==
    ASSUME RequestFields, NEW d, NEW e, Commit(d, e)
    PROVE  /\ RequestFields'
           /\ request'.status = d.status
           /\ cards' = d.cards
<1>1. request' = [no |-> request.no, status |-> d.status, purpose |-> request.purpose,
                  cycle |-> request.cycle, cursor |-> d.cursor, minted |-> d.minted]
    BY DEF Commit, RequestFields
<1> QED
    BY <1>1 DEF Commit, RequestFields

(* A request that is forgotten has no cards.                               *)
LEMMA ForgetKeeps ==
    ASSUME RequestFields, Forget
    PROVE  /\ RequestFields'
           /\ request'.status = "NONE"
           /\ cards' = << >>
<1>1. request' = [no |-> request.no, status |-> "NONE", purpose |-> "NEW_CYCLE",
                  cycle |-> 0, cursor |-> 0, minted |-> 0]
    BY DEF Forget, RequestFields
<1> QED
    BY <1>1 DEF Forget, RequestFields

(* What the two write transactions commit.                                 *)
LEMMA CreationCommits ==
    ASSUME NEW c \in Clients, FinishCreate(c), ConversationInv
    PROVE  \/ UNCHANGED << request, cards, used >>
           \/ /\ request.status = "NONE"
              /\ RequestFields'
              /\ request'.status \in {"COLLECTING", "CHANGE_CONFIRMATION"}
              /\ request'.status = "CHANGE_CONFIRMATION" => cards' # << >> /\ Missing(cards') = {}
              /\ used' = {call[c].event}
<1>1. CASE UNCHANGED << request, cards, used >>
    BY <1>1
<1>2. CASE ~UNCHANGED << request, cards, used >>
    <2>1. PICK a \in FirstAnalyses(call[c].targets) :
              /\ FirstDraft(a).refused = NoRefusal
              /\ request' = [no |-> request.no + 1, status |-> FirstDraft(a).status, purpose |-> call[c].purpose,
                             cycle |-> call[c].cycle, cursor |-> FirstDraft(a).cursor,
                             minted |-> FirstDraft(a).minted]
              /\ cards' = FirstDraft(a).cards
              /\ used' = {call[c].event}
        BY <1>2 DEF FinishCreate
    <2>2. Told(FirstDraft(a)) /\ FirstDraft(a).status # "CHANGE_INPUT"
        BY FirstDraftTells
    <2>3. request.status = "NONE"
        BY DEF FinishCreate, CreateFits, Current
    <2> QED
        BY <2>1, <2>2, <2>3 DEF Told, RequestFields
<1> QED
    BY <1>1, <1>2

(* What the answer to a message may commit.                                *)
LEMMA AnswerCommits ==
    ASSUME NEW c \in Clients, FinishMessage(c), ConversationInv
    PROVE  \/ UNCHANGED << request, cards, used >>
           \/ /\ request.status \in {"COLLECTING", "CHANGE_INPUT"}
              /\ RequestFields'
              /\ request'.status \in {"COLLECTING", "CHANGE_CONFIRMATION", "CHANGE_INPUT"}
              /\ request'.status = "CHANGE_CONFIRMATION" => cards' # << >> /\ Missing(cards') = {}
              /\ call[c].event \notin used
              /\ used' = used \union {call[c].event}
<1>1. CASE UNCHANGED << request, cards, used >>
    BY <1>1
<1>2. CASE ~UNCHANGED << request, cards, used >>
    <2>1. Fits(call[c]) /\ call[c].kind # "refused"
        BY DEF FinishMessage, ConversationInv, CallsAnswer, Answers
    <2>2. PICK d \in Outcomes(call[c]) : d.refused = NoRefusal /\ Commit(d, call[c].event)
        BY <1>2 DEF FinishMessage
    <2>3. Told(d) /\ request.status \in {"COLLECTING", "CHANGE_INPUT"}
        BY <2>1, <2>2, OutcomesTell
    <2>4. RequestFields' /\ request'.status = d.status /\ cards' = d.cards
        BY <2>2, CommitKeeps DEF ConversationInv
    <2>5. call[c].event \notin used /\ used' = used \union {call[c].event}
        BY <2>1, <2>2 DEF Fits, Commit
    <2> QED
        BY <2>3, <2>4, <2>5 DEF Told
<1> QED
    BY <1>1, <1>2

(* A call that fits may take the place of another.                         *)
LEMMA CallChanges ==
    ASSUME CallsAnswer, NEW c \in Clients, NEW k, Answers(k), call' = [call EXCEPT ![c] = k]
    PROVE  CallsAnswer'
<1>1. call' = [x \in Clients |-> IF x = c THEN k ELSE call[x]]
    BY DEF CallsAnswer
<1> QED
    BY <1>1 DEF CallsAnswer

(* Calls in flight keep fitting what they were begun for.                  *)
LEMMA CallsKept ==
    ASSUME CallsAnswer, [Next]_vars
    PROVE  CallsAnswer'
<1>1. ASSUME NEW c \in Clients, NEW e \in Events, NEW purpose, BeginCreate(c, e, purpose)
      PROVE  CallsAnswer'
    <2> DEFINE k == [op |-> "create", event |-> e, purpose |-> purpose,
                     cycle |-> IF purpose = "ACTIVE_CYCLE" THEN cycle.no ELSE 0,
                     targets |-> IF purpose = "ACTIVE_CYCLE" THEN live ELSE {}]
    <2>1. call' = [call EXCEPT ![c] = k]
        BY <1>1 DEF BeginCreate
    <2>2. Answers(k)
        BY DEF Answers
    <2> HIDE DEF k
    <2> QED
        BY <2>1, <2>2, CallChanges
<1>2. ASSUME NEW c \in Clients, NEW e \in Events, BeginMessage(c, e)
      PROVE  CallsAnswer'
    <2> DEFINE k == [op |-> "message", event |-> e, no |-> request.no,
                     kind |-> DispatchKind, ctx |-> ContextOf(DispatchKind)]
    <2>1. call' = [call EXCEPT ![c] = k]
        BY <1>2 DEF BeginMessage
    <2>2. DispatchKind # "refused"
        <3>1. ~Answerable("refused")
            BY DEF Answerable
        <3> QED
            BY <1>2, <3>1 DEF BeginMessage
    <2>3. Answers(k)
        BY <2>2 DEF Answers
    <2> HIDE DEF k
    <2> QED
        BY <2>1, <2>3, CallChanges
<1>3. ASSUME NEW c \in Clients,
             FinishCreate(c) \/ CreateRefused(c) \/ AnalysisFails(c) \/ FinishMessage(c) \/ StaleMessage(c)
      PROVE  CallsAnswer'
    <2>1. call' = [call EXCEPT ![c] = Idle]
        BY <1>3 DEF FinishCreate, CreateRefused, AnalysisFails, FinishMessage, StaleMessage
    <2>2. Answers(Idle)
        BY DEF Answers, Idle
    <2> QED
        BY <2>1, <2>2, CallChanges
<1>4. ASSUME UNCHANGED call
      PROVE  CallsAnswer'
    BY <1>4 DEF CallsAnswer
<1>5. ASSUME NEW e \in Events, NEW decision, Decide(e, decision)
      PROVE  UNCHANGED call
    BY <1>5 DEF Decide
<1>6. ASSUME Reopen \/ Delete \/ Execute \/ Acknowledge \/ EndCycle
      PROVE  UNCHANGED call
    BY <1>6 DEF Reopen, Delete, Execute, Acknowledge, EndCycle
<1>7. ASSUME NEW status, ExecutionEnds(status)
      PROVE  UNCHANGED call
    BY <1>7 DEF ExecutionEnds
<1>8. ASSUME NEW t \in Tasks, TaskSettled(t)
      PROVE  UNCHANGED call
    BY <1>8 DEF TaskSettled
<1>9. ASSUME UNCHANGED vars
      PROVE  UNCHANGED call
    BY <1>9 DEF vars
<1> QED
    BY <1>1, <1>2, <1>3, <1>4, <1>5, <1>6, <1>7, <1>8, <1>9 DEF Next

(* What the steps of one transaction do to the request and its cards.      *)
LEMMA DecisionKeeps ==
    ASSUME ConversationInv, NEW e, NEW decision, Decide(e, decision)
    PROVE  /\ RequestFields'
           /\ request.status = "CHANGE_CONFIRMATION"
           /\ request'.status \in {"CHANGE_INPUT", "FINAL_REVIEW"}
           /\ UNCHANGED cards
           /\ e \notin used
           /\ used' = used \union {e}
<1> DEFINE to == IF decision = "YES" THEN "CHANGE_INPUT" ELSE "FINAL_REVIEW"
           d == [Draft EXCEPT !.status = to, !.cursor = 0]
<1>1. Commit(d, e) /\ request.status = "CHANGE_CONFIRMATION" /\ e \notin used
    BY DEF Decide
<1>2. d.status = to /\ d.cards = cards
    BY DEF Draft
<1>3. RequestFields' /\ request'.status = d.status /\ cards' = d.cards
    BY <1>1, CommitKeeps DEF ConversationInv
<1>4. used' = used \union {e}
    BY <1>1 DEF Commit
<1> QED
    BY <1>1, <1>2, <1>3, <1>4

(* Moves of the status keep cards and events.                              *)
LEMMA MovesKeep ==
    ASSUME RequestFields, Reopen \/ Execute \/ \E status : ExecutionEnds(status)
    PROVE  RequestFields' /\ UNCHANGED << cards, used >>
<1>1. request' = [no |-> request.no, status |-> request'.status, purpose |-> request.purpose,
                  cycle |-> request.cycle, cursor |-> request'.cursor, minted |-> request.minted]
    BY DEF Reopen, Execute, ExecutionEnds, RequestFields
<1> QED
    BY <1>1 DEF RequestFields, Reopen, Execute, ExecutionEnds

(* A step of the contract, or none.                                        *)
Allowed == [Contract!Next]_(Contract!vars)

(* Every step keeps the invariant and is one the contract allows.          *)
LEMMA StepsKeepPromises ==
    ASSUME ConversationInv, [Next]_vars
    PROVE  RequestFields' /\ ReviewedComplete' /\ Allowed
<1> DEFINE Goal == RequestFields' /\ ReviewedComplete' /\ Allowed
<1>1. ASSUME UNCHANGED << request, cards, used >>
      PROVE  Goal
    BY <1>1 DEF ConversationInv, RequestFields, ReviewedComplete, Missing, Allowed, Complete, Contract!vars
<1>2. ASSUME NEW c \in Clients, FinishCreate(c), ~UNCHANGED << request, cards, used >>
      PROVE  Goal
    <2>1. /\ request.status = "NONE"
          /\ RequestFields'
          /\ request'.status \in {"COLLECTING", "CHANGE_CONFIRMATION"}
          /\ request'.status = "CHANGE_CONFIRMATION" => cards' # << >> /\ Missing(cards') = {}
          /\ used' = {call[c].event}
        BY <1>2, CreationCommits
    <2>2. call[c].event \in Events
        BY <1>2 DEF FinishCreate, ConversationInv, CallsAnswer, Answers
    <2>3. ReviewedComplete'
        BY <2>1 DEF ReviewedComplete, Missing
    <2>4. Contract!Open(call[c].event)
        BY <2>1 DEF Contract!Open, Contract!Told, Complete, Missing
    <2> QED
        BY <2>1, <2>2, <2>3, <2>4 DEF Allowed, Contract!Next
<1>3. ASSUME NEW c \in Clients, FinishMessage(c), ~UNCHANGED << request, cards, used >>
      PROVE  Goal
    <2>1. /\ request.status \in {"COLLECTING", "CHANGE_INPUT"}
          /\ RequestFields'
          /\ request'.status \in {"COLLECTING", "CHANGE_CONFIRMATION", "CHANGE_INPUT"}
          /\ request'.status = "CHANGE_CONFIRMATION" => cards' # << >> /\ Missing(cards') = {}
          /\ call[c].event \notin used
          /\ used' = used \union {call[c].event}
        BY <1>3, AnswerCommits
    <2>2. call[c].event \in Events
        BY <1>3 DEF FinishMessage, ConversationInv, CallsAnswer, Answers
    <2>3. ReviewedComplete'
        BY <2>1 DEF ReviewedComplete, Missing
    <2>4. Contract!Accept(call[c].event)
        BY <2>1 DEF Contract!Accept, Contract!Told, Complete, Missing
    <2> QED
        BY <2>1, <2>2, <2>3, <2>4 DEF Allowed, Contract!Next
<1>4. ASSUME NEW e \in Events, NEW decision, Decide(e, decision)
      PROVE  Goal
    <2>1. /\ RequestFields'
          /\ request.status = "CHANGE_CONFIRMATION"
          /\ request'.status \in {"CHANGE_INPUT", "FINAL_REVIEW"}
          /\ UNCHANGED cards
          /\ e \notin used
          /\ used' = used \union {e}
        BY <1>4, DecisionKeeps
    <2>2. ReviewedComplete'
        BY <2>1 DEF ConversationInv, ReviewedComplete, Missing
    <2>3. Contract!Decide(e)
        BY <2>1 DEF Contract!Decide, Complete, Missing
    <2> QED
        BY <2>1, <2>2, <2>3 DEF Allowed, Contract!Next
<1>5. ASSUME Reopen
      PROVE  Goal
    <2>1. RequestFields' /\ UNCHANGED << cards, used >>
        BY <1>5, MovesKeep DEF ConversationInv
    <2>2. request.status = "FINAL_REVIEW" /\ request'.status = "CHANGE_INPUT"
        BY <1>5 DEF Reopen, ConversationInv, RequestFields
    <2>3. ReviewedComplete'
        BY <2>2 DEF ReviewedComplete
    <2>4. Contract!Reopen
        BY <2>1, <2>2 DEF Contract!Reopen, Complete, Missing
    <2> QED
        BY <2>1, <2>3, <2>4 DEF Allowed, Contract!Next
<1>6. ASSUME Execute
      PROVE  Goal
    <2>1. RequestFields' /\ UNCHANGED << cards, used >>
        BY <1>6, MovesKeep DEF ConversationInv
    <2>2. request.status \in {"FINAL_REVIEW", "FAILED"} /\ request'.status = "EXECUTING"
        BY <1>6 DEF Execute, ConversationInv, RequestFields
    <2>3. Complete /\ Complete'
        BY <2>1, <2>2 DEF ConversationInv, ReviewedComplete, Complete, Missing
    <2>4. ReviewedComplete'
        BY <2>3 DEF ReviewedComplete, Complete
    <2>5. Contract!Execute
        BY <2>1, <2>2, <2>3 DEF Contract!Execute
    <2> QED
        BY <2>1, <2>4, <2>5 DEF Allowed, Contract!Next
<1>7. ASSUME NEW status \in {"COMPLETED", "FAILED"}, ExecutionEnds(status)
      PROVE  Goal
    <2>1. RequestFields' /\ UNCHANGED << cards, used >>
        BY <1>7, MovesKeep DEF ConversationInv
    <2>2. request.status = "EXECUTING" /\ request'.status = status
        BY <1>7 DEF ExecutionEnds, ConversationInv, RequestFields
    <2>3. ReviewedComplete'
        BY <2>1, <2>2 DEF ConversationInv, ReviewedComplete, Missing
    <2>4. Contract!End
        BY <2>1, <2>2 DEF Contract!End, Complete, Missing
    <2> QED
        BY <2>1, <2>3, <2>4 DEF Allowed, Contract!Next
<1>8. ASSUME Delete \/ Acknowledge
      PROVE  Goal
    <2>1. RequestFields' /\ request'.status = "NONE" /\ cards' = << >> /\ used' = {}
        BY <1>8, ForgetKeeps DEF Delete, Acknowledge, Forget, ConversationInv
    <2>2. request.status \notin {"NONE", "EXECUTING"}
        BY <1>8 DEF Delete, Acknowledge
    <2>3. ReviewedComplete'
        BY <2>1 DEF ReviewedComplete
    <2>4. Contract!Forget
        BY <2>1, <2>2 DEF Contract!Forget, Complete
    <2> QED
        BY <2>1, <2>3, <2>4 DEF Allowed, Contract!Next
<1>9. ASSUME NEW c \in Clients, NEW e \in Events, NEW purpose, BeginCreate(c, e, purpose) \/ BeginMessage(c, e)
      PROVE  UNCHANGED << request, cards, used >>
    BY <1>9 DEF BeginCreate, BeginMessage
<1>10. ASSUME NEW c \in Clients, CreateRefused(c) \/ AnalysisFails(c) \/ StaleMessage(c)
       PROVE  UNCHANGED << request, cards, used >>
    BY <1>10 DEF CreateRefused, AnalysisFails, StaleMessage
<1>11. ASSUME EndCycle \/ \E t \in Tasks : TaskSettled(t)
       PROVE  UNCHANGED << request, cards, used >>
    BY <1>11 DEF EndCycle, TaskSettled
<1>12. ASSUME UNCHANGED vars
       PROVE  UNCHANGED << request, cards, used >>
    BY <1>12 DEF vars
<1> QED
    BY <1>1, <1>2, <1>3, <1>4, <1>5, <1>6, <1>7, <1>8, <1>9, <1>10, <1>11, <1>12 DEF Next

(* The invariant holds throughout.                                         *)
LEMMA ConversationInvariant == Spec => []ConversationInv
<1>1. Init => ConversationInv
    BY DEF Init, ConversationInv, CallsAnswer, Answers, Idle, RequestFields, ReviewedComplete
<1>2. ConversationInv /\ [Next]_vars => ConversationInv'
    BY CallsKept, StepsKeepPromises DEF ConversationInv
<1> QED
    BY <1>1, <1>2, PTL DEF Spec

(* Whatever the model answers and however many cards and operations an     *)
(* answer has, nothing incomplete is confirmed, reviewed or executed.      *)
THEOREM ReviewsComplete == Spec => []ReviewedComplete
<1>1. ConversationInv => ReviewedComplete
    BY DEF ConversationInv
<1> QED
    BY <1>1, ConversationInvariant, PTL

(* Cards, questions, threads and the model implement the promise the user  *)
(* is given.                                                               *)
THEOREM ImplementsConversationContract == Spec => ImplementsContract
<1>1. Init => Contract!Init
    BY DEF Init, Contract!Init, Complete
<1>2. ConversationInv /\ [Next]_vars => [Contract!Next]_(Contract!vars)
    BY StepsKeepPromises DEF Allowed
<1> QED
    BY <1>1, <1>2, ConversationInvariant, PTL DEF Spec, ImplementsContract, Contract!Spec

(***************************************************************************)
(* The cards of a request and the questions it asks about them             *)
(***************************************************************************)

AllFields == TaskFields \union ScheduleFields
EntityKinds == {"TASK", "FIXED_SCHEDULE"}

(***************************************************************************)
(* The invariant                                                           *)
(***************************************************************************)
(* A row of the request.  A marked card is a task whose totals are asked;  *)
(* that of a new task misses nothing else.                                 *)
CardFits(card) ==
    /\ card \in Cards
    /\ (card.action = "CREATE") = (card.target = NoEntity)
    /\ card.target # NoEntity => EntityOf(card.target) = card.entity
    /\ (card.status = "INFO_MISSING") = (card.missing # {})
    /\ card.action = "CREATE" /\ card.entity = "TASK" => card.unset \subseteq card.missing
    /\ card.action = "UPDATE" /\ card.entity = "TASK" =>
          card.missing \subseteq card.updateFields \union (IF card.marked THEN TotalFields ELSE {})
    /\ card.marked => card.entity = "TASK"
    /\ card.action = "CREATE" /\ card.marked => card.missing = TotalFields /\ card.unset \subseteq TotalFields

(* The rows of a request that has given out the ids up to minted.          *)
RowsFit(cs, minted) ==
    /\ minted \in Nat
    /\ cs \in Seq(Cards)
    /\ \A i \in 1 .. Len(cs) : CardFits(cs[i]) /\ cs[i].id \in 1 .. minted
    /\ \A i, j \in 1 .. Len(cs) : cs[i].id = cs[j].id => i = j

OneEach(cs) ==
    \A i, j \in 1 .. Len(cs) : i # j /\ cs[i].target # NoEntity => cs[i].target # cs[j].target

(* A card with an open question asks for its totals or for a field.        *)
AsksRight(card) ==
    IF card.marked THEN card.asked = Recurrence ELSE card.asked \in card.missing

(* What the last message asks, and what it asks it about.                  *)
AsksAboutCard(cursor, cs, q) ==
    /\ cursor \in 1 .. Len(cs)
    /\ cs[cursor].status = "INFO_MISSING"
    /\ AsksRight(cs[cursor])
    /\ q = CardQuestion(cs[cursor])
AsksAboutTarget(cursor, q) ==
    /\ cursor = 0
    /\ q.type \in {"unresolved", "details"}
    /\ q.entity \in EntityKinds

Asks(status, cursor, cs, q) ==
    /\ cursor \in Nat
    /\ q.type \in {"none", "card", "recurrence", "unresolved", "details"}
    /\ status = "COLLECTING" => AsksAboutCard(cursor, cs, q) \/ AsksAboutTarget(cursor, q)
    /\ status = "CHANGE_INPUT" => Missing(cs) = {}

(* What a thread keeps between its two transactions.                       *)
CallFits(k) ==
    \/ k = Idle
    \/ k \in [op : {"create"}, event : Events, purpose : {"NEW_CYCLE", "ACTIVE_CYCLE"}, cycle : 0 .. MaxCycles,
              targets : SUBSET Entities]
    \/ /\ k.op = "message"
       /\ k.event \in Events
       /\ k.kind \in {"unresolved", "details"} =>
             /\ k.ctx.entity \in EntityKinds
             /\ k.ctx.kind # "REQUEST_ITEM" => \A x \in k.ctx.ids : x \in Entities /\ EntityOf(x) = k.ctx.entity
       /\ k.kind = "edit" => k.ctx.targets \subseteq Entities

CallsFit ==
    /\ call = [c \in Clients |-> call[c]]
    /\ \A c \in Clients : CallFits(call[c])

RequestFits ==
    /\ request \in [no : Nat, status : Statuses, purpose : {"NEW_CYCLE", "ACTIVE_CYCLE"},
                    cycle : 0 .. MaxCycles, cursor : Nat, minted : Nat]
    /\ used \subseteq Events
    /\ turns \in Nat

CycleFits ==
    /\ cycle \in [no : 1 .. MaxCycles, active : BOOLEAN]
    /\ live \subseteq Entities

CardsInv ==
    /\ RequestFits
    /\ CycleFits
    /\ CallsFit
    /\ RowsFit(cards, request.minted)
    /\ Asks(request.status, request.cursor, cards, question)

(* The counters, with what the threads under way may still add to them.    *)
Creating == {c \in Clients : call[c].op = "create"}
Messaging == {c \in Clients : call[c].op = "message"}
CountersFit ==
    /\ request.no + Cardinality(Creating) <= MaxRequests + Cardinality(Clients)
    /\ turns + Cardinality(Messaging) <= MaxTurns + Cardinality(Clients)

(***************************************************************************)
(* Transactions                                                            *)
(***************************************************************************)
(* No card is marked that was not.                                         *)
KeepsMarks(cs) == \A i \in 1 .. Len(cs) : cs[i].marked => MarkedCard(cs[i].id)

(* A draft whose cards are rows.  It has at most one card for each target  *)
(* if the request had, and no card marked anew.                            *)
DraftFits(d) ==
    /\ d = [status |-> d.status, cursor |-> d.cursor, cards |-> d.cards, minted |-> d.minted,
            question |-> NoQuestion, refused |-> d.refused]
    /\ RowsFit(d.cards, d.minted)
    /\ OneEach(cards) => OneEach(d.cards)
    /\ KeepsMarks(d.cards)

(* In a free edit no card of a new task is marked.                         *)
EditFits(d) ==
    /\ DraftFits(d)
    /\ \A i \in 1 .. Len(d.cards) : d.cards[i].action = "CREATE" => ~d.cards[i].marked

(* What a transaction may commit.                                          *)
FinalFits(d) ==
    /\ RowsFit(d.cards, d.minted)
    /\ Asks(d.status, d.cursor, d.cards, d.question)
    /\ OneEach(cards) => OneEach(d.cards)
    /\ KeepsMarks(d.cards)

(* Rows of which at most the question has changed.                         *)
KeepsRows(cs, ds) ==
    /\ Len(ds) = Len(cs)
    /\ \A j \in 1 .. Len(cs) : \A x \in {"id", "missing", "marked"} : ds[j][x] = cs[j][x]

(* Nothing is given but field f of the card at the cursor.                 *)
GivesOnly(f, cs) ==
    /\ Len(cs) = Len(cards)
    /\ \A j \in 1 .. Len(cards) :
          cards[j].missing \ cs[j].missing \subseteq IF j = request.cursor THEN {f} ELSE {}

(* What the parsers let through of a line or an operation.                 *)
LineFits(p) ==
    p \in [entity : EntityKinds, fields : SUBSET AllFields, missing : SUBSET AllFields,
           startAt : Times, endAt : Times]
ChangeFits(p) ==
    /\ LineFits(p)
    /\ p.entity = "TASK" => p.missing \subseteq p.fields

Folded == INSTANCE FoldFacts WITH Op <- ApplyOperation, Good <- EditFits

------------------------------------------------------------------------------
(* Cards                                                                    *)

(* The first of some missing fields is one of them.                        *)
LEMMA FirstIsMissing ==
    ASSUME NEW missing \in SUBSET AllFields, missing # {}
    PROVE  FirstMissing(missing) \in missing
<1>1. \A f \in AllFields : Rank(f) \in 1 .. 7
    BY DEF Rank, MissingOrder, AllFields, TaskFields, ScheduleFields
<1> DEFINE ranks == {Rank(f) : f \in missing}
<1>2. ranks \in SUBSET (1 .. 7) /\ ranks # {}
    BY <1>1
<1>3. PICK m \in ranks : \A r \in ranks : m <= r
    <2> HIDE DEF ranks
    <2> QED
        BY <1>2, Folded!LeastExists
<1>4. \E f \in missing : \A g \in missing : Rank(f) <= Rank(g)
    BY <1>3
<1> QED
    BY <1>4 DEF FirstMissing

(* Asking changes the question of a card and nothing else.                 *)
LEMMA AskFits ==
    ASSUME NEW card \in Cards, NEW field \in AllFields \union {NoField, Recurrence}, NEW attempts \in Nat
    PROVE  /\ Ask(card, field, attempts) \in Cards
           /\ Ask(card, field, attempts).asked = field
           /\ \A x \in {"id", "entity", "action", "status", "target", "missing", "unset", "marked",
                         "updateFields", "startAt", "endAt"} : Ask(card, field, attempts)[x] = card[x]
BY DEF Ask, Cards, AllFields

(* The question about a recurrence.                                        *)
LEMMA AskRecurrence ==
    ASSUME NEW card \in Cards
    PROVE  /\ Ask(card, Recurrence, 0) \in Cards
           /\ Ask(card, Recurrence, 0).asked = Recurrence
           /\ \A x \in {"id", "entity", "action", "status", "target", "missing", "unset", "marked",
                         "updateFields", "startAt", "endAt"} : Ask(card, Recurrence, 0)[x] = card[x]
BY DEF Ask, Cards, AllFields

(* A card given what it misses.                                            *)
LEMMA WithMissingFits ==
    ASSUME NEW card \in Cards, NEW missing \in SUBSET AllFields
    PROVE  /\ WithMissing(card, missing) \in Cards
           /\ WithMissing(card, missing).missing = missing
           /\ (WithMissing(card, missing).status = "INFO_MISSING") = (missing # {})
           /\ missing # {} => WithMissing(card, missing).asked \in missing
           /\ \A x \in {"id", "entity", "action", "target", "unset", "marked",
                         "updateFields", "startAt", "endAt"} : WithMissing(card, missing)[x] = card[x]
<1>1. CASE missing = {}
    BY <1>1 DEF WithMissing, Ask, Cards, AllFields
<1>2. CASE missing # {}
    <2>1. FirstMissing(missing) \in missing
        BY <1>2, FirstIsMissing
    <2> QED
        BY <1>2, <2>1 DEF WithMissing, Ask, Cards, AllFields
<1> QED
    BY <1>1, <1>2

(* The end of a schedule that is asked anew leaves a row behind.           *)
LEMMA NormalizeFits ==
    ASSUME NEW card, CardFits(card)
    PROVE  /\ CardFits(NormalizeTimes(card))
           /\ \A x \in {"id", "action", "target", "marked"} : NormalizeTimes(card)[x] = card[x]
<1>1. CASE card.entity = "FIXED_SCHEDULE" /\ Inverted(card.startAt, card.endAt)
    <2> DEFINE c == [card EXCEPT !.endAt = NoTime, !.unset = @ \union {"endAt"}]
               n == WithMissing(c, card.missing \union {"endAt"})
    <2>1. /\ c \in Cards
          /\ \A x \in {"id", "entity", "action", "target", "marked", "updateFields"} : c[x] = card[x]
        <3>1. card \in Cards /\ card.unset \union {"endAt"} \in SUBSET (TaskFields \union ScheduleFields) /\ NoTime \in Times
            BY DEF CardFits, Cards, Times, NoTime, ScheduleFields
        <3> QED
            BY <3>1 DEF Cards
    <2>2. card.missing \union {"endAt"} \in SUBSET AllFields
        BY DEF CardFits, Cards, AllFields, ScheduleFields
    <2>3. /\ n \in Cards
          /\ n.missing # {} /\ n.status = "INFO_MISSING"
          /\ \A x \in {"id", "entity", "action", "target", "marked"} : n[x] = card[x]
        <3> HIDE DEF c
        <3> QED
            BY <2>1, <2>2, WithMissingFits
    <2>4. NormalizeTimes(card) = n
        BY <1>1 DEF NormalizeTimes
    <2> HIDE DEF n
    <2> QED
        BY <1>1, <2>3, <2>4 DEF CardFits
<1>2. CASE ~(card.entity = "FIXED_SCHEDULE" /\ Inverted(card.startAt, card.endAt))
    BY <1>2 DEF NormalizeTimes
<1> QED
    BY <1>1, <1>2

(* Patching the card of something new keeps what it lacks missing.         *)
LEMMA PatchKeepsFit ==
    ASSUME NEW card, CardFits(card), card.action = "CREATE", ~card.marked, NEW p, LineFits(p)
    PROVE  /\ CardFits(ApplyCreateMergePatch(card, p))
           /\ \A x \in {"id", "action", "target", "marked"} : ApplyCreateMergePatch(card, p)[x] = card[x]
<1> DEFINE left == (card.missing \ p.fields) \union p.missing
           c == [card EXCEPT !.unset = (@ \ p.fields) \union p.missing,
                             !.startAt = PatchedTime(p.fields, "startAt", p.startAt, @),
                             !.endAt = PatchedTime(p.fields, "endAt", p.endAt, @)]
           n == WithMissing(c, left)
<1>1. left \in SUBSET AllFields
    BY DEF CardFits, Cards, AllFields, LineFits
<1>2. /\ c \in Cards
      /\ \A x \in {"id", "entity", "action", "target", "marked"} : c[x] = card[x]
      /\ c.unset = (card.unset \ p.fields) \union p.missing
    BY DEF CardFits, Cards, AllFields, LineFits, PatchedTime
<1>3. /\ n \in Cards
      /\ n.missing = left /\ (n.status = "INFO_MISSING") = (left # {})
      /\ \A x \in {"id", "entity", "action", "target", "marked", "unset"} : n[x] = c[x]
    <2> HIDE DEF c, left
    <2> QED
        BY <1>1, <1>2, WithMissingFits
<1>4. card.entity = "TASK" => c.unset \subseteq left
    BY <1>2 DEF CardFits
<1>5. ApplyCreateMergePatch(card, p) = n
    BY DEF ApplyCreateMergePatch
<1> HIDE DEF n, c, left
<1> QED
    BY <1>2, <1>3, <1>4, <1>5 DEF CardFits

(* A card made of a line.                                                  *)
LEMMA CardFromFits ==
    ASSUME NEW action \in {"CREATE", "UPDATE", "DELETE"}, NEW target \in Entities \union {NoEntity},
           NEW p, LineFits(p), NEW attempts \in Nat,
           (action = "CREATE") = (target = NoEntity),
           target # NoEntity => EntityOf(target) = p.entity,
           action = "UPDATE" => ChangeFits(p)
    PROVE  /\ CardFits(CardFrom(action, target, p, attempts))
           /\ CardFrom(action, target, p, attempts).action = action
           /\ CardFrom(action, target, p, attempts).target = target
           /\ CardFrom(action, target, p, attempts).entity = p.entity
           /\ CardFrom(action, target, p, attempts).missing = p.missing
           /\ CardFrom(action, target, p, attempts).unset = p.missing
           /\ ~CardFrom(action, target, p, attempts).marked
           /\ p.missing # {} /\ attempts # 0 => CardFrom(action, target, p, attempts).asked \in p.missing
<1>1. p.missing # {} => FirstMissing(p.missing) \in p.missing
    BY FirstIsMissing DEF LineFits
<1> DEFINE c == CardFrom(action, target, p, attempts)
<1>2. /\ c.id = 0 /\ c.entity = p.entity /\ c.action = action /\ c.target = target /\ ~c.marked
      /\ c.status = StatusFor(p.missing) /\ c.missing = p.missing /\ c.unset = p.missing
      /\ c.asked = IF p.missing = {} \/ attempts = 0 THEN NoField ELSE FirstMissing(p.missing)
      /\ c.updateFields = p.fields
    BY DEF CardFrom, Blank
<1>3. c \in Cards
    <2>1. Blank \in Cards
        BY DEF Blank, Cards, Times, NoTime
    <2> DEFINE status == StatusFor(p.missing)
               asked == IF p.missing = {} \/ attempts = 0 THEN NoField ELSE FirstMissing(p.missing)
               times == IF p.missing = {} THEN 0 ELSE attempts
    <2>2. /\ p.entity \in {"TASK", "FIXED_SCHEDULE"} /\ p.missing \in SUBSET (TaskFields \union ScheduleFields)
          /\ p.fields \in SUBSET (TaskFields \union ScheduleFields) /\ p.startAt \in Times /\ p.endAt \in Times
        BY DEF LineFits, EntityKinds, AllFields
    <2>3. /\ status \in {"INFO_MISSING", "READY"} /\ times \in Nat
          /\ asked \in TaskFields \union ScheduleFields \union {NoField, Recurrence}
        BY <1>1, <2>2 DEF StatusFor
    <2>4. c = [Blank EXCEPT !.entity = p.entity, !.action = action, !.target = target,
                  !.missing = p.missing, !.unset = p.missing, !.status = status,
                  !.asked = asked, !.attempts = times,
                  !.updateFields = p.fields, !.startAt = p.startAt, !.endAt = p.endAt]
        BY DEF CardFrom
    <2> HIDE DEF status, asked, times, c
    <2> QED
        BY <2>1, <2>2, <2>3, <2>4 DEF Cards
<1> HIDE DEF c
<1>4. CardFits(c)
    BY <1>2, <1>3 DEF CardFits, StatusFor, ChangeFits
<1> QED
    BY <1>1, <1>2, <1>4 DEF c

(* The lines of the parsers.                                               *)
LEMMA PatchesFit ==
    ASSUME NEW entity, NEW allowed, NEW p \in Patches(entity, allowed)
    PROVE  ChangeFits(p) /\ (entity \in EntityKinds => p.entity = entity)
<1>1. CASE entity = "TASK"
    BY <1>1 DEF Patches, ChangeFits, LineFits, EntityKinds, AllFields, FieldsOf, Times, NoTime
<1>2. CASE entity # "TASK"
    <2> DEFINE touched == (SUBSET (Fields \intersect allowed \intersect FieldsOf(entity))) \ {{}}
               Line(f, t, m) == [entity |-> "FIXED_SCHEDULE", fields |-> f, missing |-> OpenTimes(f, t) \union m,
                                 startAt |-> t.startAt, endAt |-> t.endAt]
    <2>0. PICK f \in touched : p \in {Line(f, t, m) : t \in TimesFor(f), m \in SUBSET ({"title"} \intersect f)}
        BY <1>2 DEF Patches
    <2>1. PICK t \in TimesFor(f), m \in SUBSET ({"title"} \intersect f) : p = Line(f, t, m)
        BY <2>0
    <2>3. f \in SUBSET ScheduleFields
        BY <1>2 DEF FieldsOf
    <2>2. t.startAt \in Times /\ t.endAt \in Times
        BY DEF TimesFor
    <2> QED
        BY <1>2, <2>1, <2>2, <2>3 DEF ChangeFits, LineFits, EntityKinds, AllFields, ScheduleFields, OpenTimes
<1> QED
    BY <1>1, <1>2

(* Of something new any field of its kind may be missing.                  *)
LEMMA NewsFit ==
    ASSUME NEW entity, NEW allowed \in SUBSET AllFields, NEW p \in News(entity, allowed)
    PROVE  LineFits(p) /\ (entity \in EntityKinds => p.entity = entity) /\ (p.entity = "TASK" => p.missing \subseteq allowed)
<1>1. CASE entity = "TASK"
    BY <1>1 DEF News, LineFits, EntityKinds, Times, NoTime
<1>2. CASE entity # "TASK"
    <2>1. PICK t \in IF {"startAt", "endAt"} \subseteq Fields THEN TimesFor(ScheduleFields) ELSE {RowTimes},
               m \in SUBSET ({"title"} \intersect Fields) :
              p = [entity |-> "FIXED_SCHEDULE", fields |-> {}, missing |-> OpenTimes(ScheduleFields, t) \union m,
                   startAt |-> t.startAt, endAt |-> t.endAt]
        BY <1>2 DEF News
    <2>2. t.startAt \in Times /\ t.endAt \in Times
        BY DEF TimesFor, RowTimes, Times
    <2> QED
        BY <1>2, <2>1, <2>2 DEF LineFits, EntityKinds, AllFields, ScheduleFields, OpenTimes
<1> QED
    BY <1>1, <1>2

(* The values of the target leave the fields of a line alone.              *)
LEMMA BackfilledFits ==
    ASSUME NEW p, ChangeFits(p)
    PROVE  ChangeFits(Backfilled(p)) /\ Backfilled(p).entity = p.entity
<1>1. CASE p.entity = "TASK"
    BY <1>1 DEF Backfilled
<1>2. CASE p.entity # "TASK"
    <2>1. RowTimes.startAt \in Times /\ RowTimes.endAt \in Times
        BY DEF RowTimes, Times
    <2> DEFINE s == IF "startAt" \in p.fields THEN p.startAt ELSE RowTimes.startAt
               e == IF "endAt" \in p.fields THEN p.endAt ELSE RowTimes.endAt
    <2>2. s \in Times /\ e \in Times
        BY <2>1 DEF ChangeFits, LineFits
    <2>3. Backfilled(p) = [p EXCEPT !.startAt = s, !.endAt = e]
        BY <1>2 DEF Backfilled
    <2> HIDE DEF s, e
    <2> QED
        BY <1>2, <2>2, <2>3 DEF ChangeFits, LineFits
<1> QED
    BY <1>1, <1>2

(* Two cards for one target become one row of that target.                 *)
LEMMA MergedFits ==
    ASSUME NEW old, CardFits(old), NEW new, CardFits(new), old.target = new.target, new.target # NoEntity,
           ~new.marked
    PROVE  /\ CardFits(Merged(old, new))
           /\ Merged(old, new).id = old.id
           /\ Merged(old, new).target = new.target
           /\ Merged(old, new).marked => old.marked
<1> DEFINE fields == IF old.action = "DELETE" THEN new.updateFields
                     ELSE old.updateFields \union new.updateFields
           base == IF old.action = "DELETE" THEN [new EXCEPT !.id = old.id]
                   ELSE [old EXCEPT !.unset = (@ \ new.updateFields) \union (new.unset \intersect new.updateFields),
                                    !.startAt = PatchedTime(new.updateFields, "startAt", new.startAt, @),
                                    !.endAt = PatchedTime(new.updateFields, "endAt", new.endAt, @)]
           written == [base EXCEPT !.updateFields = fields]
           missing == (old.missing \union new.missing) \intersect fields
           card == WithMissing(written, missing)
<1>1. /\ old \in Cards /\ new \in Cards
      /\ old.action \in {"UPDATE", "DELETE"} /\ new.action \in {"UPDATE", "DELETE"}
      /\ old.entity = new.entity
    BY DEF CardFits, Cards
<1>2. fields \in SUBSET AllFields /\ missing \in SUBSET AllFields /\ missing \subseteq fields
    BY <1>1 DEF Cards, AllFields
<1>3. base \in Cards
    BY <1>1 DEF Cards, PatchedTime
<1>4. /\ base.id = old.id /\ base.entity = new.entity /\ base.target = new.target
      /\ base.action \in {"UPDATE", "DELETE"} /\ base.marked \in {new.marked, old.marked}
    BY <1>1 DEF Cards
<1>5. /\ written \in Cards /\ written.updateFields = fields
      /\ \A x \in {"id", "entity", "target", "action", "marked"} : written[x] = base[x]
    <2> HIDE DEF fields, base
    <2> QED
        BY <1>2, <1>3 DEF Cards, AllFields
<1>6. /\ card \in Cards /\ card.missing = missing
      /\ (card.status = "INFO_MISSING") = (missing # {})
      /\ \A x \in {"id", "entity", "target", "action", "marked", "updateFields"} : card[x] = written[x]
    <2> HIDE DEF written, missing
    <2> QED
        BY <1>2, <1>5, WithMissingFits
<1> HIDE DEF card, written, base, missing, fields
<1>7. /\ CardFits(card) /\ card.id = old.id /\ card.target = new.target
      /\ card.action \in {"UPDATE", "DELETE"} /\ (card.marked => old.marked)
    <2>1. /\ card.id = old.id /\ card.entity = new.entity /\ card.target = new.target
          /\ card.action \in {"UPDATE", "DELETE"} /\ card.marked \in {new.marked, old.marked}
          /\ card.missing \subseteq card.updateFields
        BY <1>2, <1>4, <1>5, <1>6
    <2> QED
        BY <1>1, <1>6, <2>1 DEF CardFits
<1>8. CASE new.action = "DELETE"
    <2>1. Merged(old, new) = [new EXCEPT !.id = old.id]
        BY <1>8 DEF Merged
    <2> QED
        BY <1>1, <2>1 DEF CardFits, Cards
<1>9. CASE new.action # "DELETE" /\ missing # {} /\ new.attempts > 0 /\ card.asked = new.asked
    <2>1. Merged(old, new) = Ask(card, new.asked, new.attempts)
        BY <1>1, <1>6, <1>9 DEF Merged, card, written, base, missing, fields
    <2>2. new.asked \in AllFields \union {NoField, Recurrence} /\ new.attempts \in Nat
        BY <1>1 DEF Cards, AllFields
    <2> QED
        BY <1>6, <1>7, <2>1, <2>2, AskFits DEF CardFits
<1>10. CASE new.action # "DELETE" /\ ~(missing # {} /\ new.attempts > 0 /\ card.asked = new.asked)
    <2>1. Merged(old, new) = card
        BY <1>1, <1>6, <1>10 DEF Merged, card, written, base, missing, fields
    <2> QED
        BY <1>7, <2>1
<1> QED
    BY <1>8, <1>9, <1>10

------------------------------------------------------------------------------
(* Drafts                                                                   *)

(* A card changed in its place.                                            *)
LEMMA SetCardFits ==
    ASSUME NEW d, DraftFits(d), NEW i \in 1 .. Len(d.cards), NEW card, CardFits(card),
           card.id = d.cards[i].id, card.target = d.cards[i].target, card.marked => d.cards[i].marked
    PROVE  /\ DraftFits(SetCard(d, i, card))
           /\ SetCard(d, i, card).cards = [d.cards EXCEPT ![i] = card]
           /\ SetCard(d, i, card).minted = d.minted
           /\ Len(SetCard(d, i, card).cards) = Len(d.cards)
<1> DEFINE cs == [d.cards EXCEPT ![i] = card]
<1>1. SetCard(d, i, card) = [status |-> d.status, cursor |-> d.cursor, cards |-> cs, minted |-> d.minted,
                             question |-> NoQuestion, refused |-> d.refused]
    BY DEF SetCard, DraftFits
<1>2. d.cards \in Seq(Cards) /\ card \in Cards
    BY DEF DraftFits, RowsFit, CardFits
<1>3. /\ cs \in Seq(Cards) /\ Len(cs) = Len(d.cards)
      /\ \A j \in 1 .. Len(cs) : cs[j] = IF j = i THEN card ELSE d.cards[j]
    BY <1>2
<1> HIDE DEF cs
<1>4. RowsFit(cs, d.minted)
    BY <1>3, ZenonT(30) DEF DraftFits, RowsFit
<1>5. OneEach(d.cards) => OneEach(cs)
    BY <1>3 DEF OneEach
<1>6. KeepsMarks(cs)
    BY <1>3 DEF KeepsMarks, DraftFits
<1> QED
    BY <1>1, <1>3, <1>4, <1>5, <1>6 DEF DraftFits, cs

(* A card put behind the others.                                           *)
LEMMA AppendFits ==
    ASSUME NEW d, DraftFits(d), NEW card, CardFits(card), ~card.marked,
           card.target # NoEntity => \A i \in 1 .. Len(d.cards) : d.cards[i].target # card.target
    PROVE  /\ DraftFits(Append1(d, card))
           /\ Len(Append1(d, card).cards) = Len(d.cards) + 1
           /\ \A i \in 1 .. Len(d.cards) : Append1(d, card).cards[i] = d.cards[i]
           /\ \A x \in {"action", "marked", "target"} :
                  Append1(d, card).cards[Len(d.cards) + 1][x] = card[x]
<1> DEFINE new == [card EXCEPT !.id = d.minted + 1]
           cs == Append(d.cards, new)
<1>1. Append1(d, card) = [status |-> d.status, cursor |-> d.cursor, cards |-> cs, minted |-> d.minted + 1,
                          question |-> NoQuestion, refused |-> d.refused]
    <2> DEFINE next == d.minted + 1
    <2>1. Append1(d, card) = [d EXCEPT !.cards = cs, !.minted = next]
        BY DEF Append1
    <2>2. d = [status |-> d.status, cursor |-> d.cursor, cards |-> d.cards, minted |-> d.minted,
               question |-> NoQuestion, refused |-> d.refused]
        BY DEF DraftFits
    <2> HIDE DEF cs, next
    <2> DEFINE e == [d EXCEPT !.cards = cs]
    <2>3. e = [status |-> d.status, cursor |-> d.cursor, cards |-> cs, minted |-> d.minted,
               question |-> NoQuestion, refused |-> d.refused]
        BY <2>2
    <2>4. Append1(d, card) = [e EXCEPT !.minted = next]
        BY <2>1
    <2> HIDE DEF e
    <2>5. [e EXCEPT !.minted = next]
          = [status |-> d.status, cursor |-> d.cursor, cards |-> cs, minted |-> next,
             question |-> NoQuestion, refused |-> d.refused]
        BY <2>3
    <2> QED
        BY <2>4, <2>5 DEF next
<1>2. d.minted \in Nat /\ d.cards \in Seq(Cards) /\ card \in Cards
    BY DEF DraftFits, RowsFit, CardFits
<1>4. /\ new \in Cards /\ new.id = d.minted + 1
      /\ \A x \in {"entity", "action", "status", "target", "missing", "unset", "marked", "updateFields"} :
            new[x] = card[x]
    <2> DEFINE id == d.minted + 1
    <2>1. id \in Nat
        BY <1>2
    <2> HIDE DEF id
    <2>2. [card EXCEPT !.id = id] \in Cards /\ [card EXCEPT !.id = id].id = id
        BY <1>2, <2>1 DEF Cards
    <2>3. \A x \in {"entity", "action", "status", "target", "missing", "unset", "marked", "updateFields"} :
              [card EXCEPT !.id = id][x] = card[x]
        BY <1>2 DEF Cards
    <2> QED
        BY <2>2, <2>3 DEF id
<1>3. CardFits(new)
    <2> HIDE DEF new
    <2> QED
        BY <1>4 DEF CardFits
<1> HIDE DEF new
<1>5. /\ cs \in Seq(Cards) /\ Len(cs) = Len(d.cards) + 1
      /\ \A j \in 1 .. Len(d.cards) : cs[j] = d.cards[j]
      /\ cs[Len(d.cards) + 1] = new
    BY <1>2, <1>4
<1> HIDE DEF cs
<1>6. \A j \in 1 .. Len(cs) : j \in 1 .. Len(d.cards) \/ j = Len(d.cards) + 1
    BY <1>2, <1>5
<1>7. RowsFit(cs, d.minted + 1)
    <2>1. \A j \in 1 .. Len(d.cards) : CardFits(d.cards[j]) /\ d.cards[j].id \in 1 .. d.minted
        BY DEF DraftFits, RowsFit
    <2>2. \A j \in 1 .. Len(cs) : CardFits(cs[j]) /\ cs[j].id \in 1 .. d.minted + 1
        <3>1. \A j \in 1 .. Len(d.cards) : CardFits(cs[j]) /\ cs[j].id \in 1 .. d.minted + 1
            BY <1>2, <1>5, <2>1
        <3>2. CardFits(cs[Len(d.cards) + 1]) /\ cs[Len(d.cards) + 1].id \in 1 .. d.minted + 1
            BY <1>2, <1>3, <1>4, <1>5
        <3> QED
            BY <1>6, <3>1, <3>2
    <2>3. ASSUME NEW i \in 1 .. Len(cs), NEW j \in 1 .. Len(cs), cs[i].id = cs[j].id
          PROVE  i = j
        BY <1>2, <1>4, <1>5, <1>6, <2>1, <2>3 DEF DraftFits, RowsFit
    <2> QED
        BY <1>2, <1>5, <2>2, <2>3 DEF RowsFit
<1>8. OneEach(d.cards) => OneEach(cs)
    <2>1. ASSUME OneEach(d.cards), NEW i \in 1 .. Len(cs), NEW j \in 1 .. Len(cs),
                 i # j, cs[i].target # NoEntity
          PROVE  cs[i].target # cs[j].target
        <3>1. CASE i \in 1 .. Len(d.cards) /\ j \in 1 .. Len(d.cards)
            BY <1>5, <2>1, <3>1 DEF OneEach
        <3>2. CASE i \notin 1 .. Len(d.cards) \/ j \notin 1 .. Len(d.cards)
            BY <1>4, <1>5, <1>6, <2>1, <3>2
        <3> QED
            BY <3>1, <3>2
    <2> QED
        BY <2>1 DEF OneEach
<1>9. KeepsMarks(cs)
    BY <1>4, <1>5, <1>6 DEF KeepsMarks, DraftFits
<1> QED
    BY <1>1, <1>4, <1>5, <1>7, <1>8, <1>9 DEF DraftFits

(* A card taken out from among the others.                                 *)
LEMMA RemovedAt ==
    ASSUME NEW S, NEW s \in Seq(S), NEW i \in 1 .. Len(s)
    PROVE  /\ RemoveAt(s, i) \in Seq(S)
           /\ Len(RemoveAt(s, i)) = Len(s) - 1
           /\ \A j \in 1 .. Len(s) - 1 : RemoveAt(s, i)[j] = IF j < i THEN s[j] ELSE s[j + 1]
<1> DEFINE before == SubSeq(s, 1, i - 1)
           after == SubSeq(s, i + 1, Len(s))
<1>1. /\ before \in Seq(S) /\ Len(before) = i - 1
      /\ \A j \in 1 .. i - 1 : before[j] = s[j]
    OBVIOUS
<1>2. /\ after \in Seq(S) /\ Len(after) = Len(s) - i
      /\ \A j \in 1 .. Len(s) - i : after[j] = s[i + j]
    OBVIOUS
<1>3. RemoveAt(s, i) = before \o after
    BY DEF RemoveAt
<1> HIDE DEF before, after
<1>4. before \o after \in Seq(S) /\ Len(before \o after) = Len(s) - 1
    BY <1>1, <1>2
<1>5. ASSUME NEW j \in 1 .. Len(s) - 1
      PROVE  (before \o after)[j] = IF j < i THEN s[j] ELSE s[j + 1]
    <2>1. CASE j < i
        BY <1>1, <1>2, <2>1
    <2>2. CASE ~(j < i)
        <3>1. (before \o after)[j] = after[j - (i - 1)]
            BY <1>1, <1>2, <2>2
        <3>2. j - (i - 1) \in 1 .. Len(s) - i /\ i + (j - (i - 1)) = j + 1
            BY <2>2
        <3> QED
            BY <1>2, <2>2, <3>1, <3>2
    <2> QED
        BY <2>1, <2>2
<1> QED
    BY <1>3, <1>4, <1>5

(* Taking a card away leaves the others rows, each with its own id.        *)
LEMMA CancelFits ==
    ASSUME NEW d, NEW id, DraftFits(d)
    PROVE  /\ DraftFits(CancelCard(d, id))
           /\ EditFits(d) => EditFits(CancelCard(d, id))
<1>1. CASE id \in IdsOf(d.cards)
    <2> DEFINE i == OrderOf(d.cards, id)
               cs == RemoveAt(d.cards, i)
    <2>1. d.cards \in Seq(Cards)
        BY DEF DraftFits, RowsFit
    <2>2. i \in 1 .. Len(d.cards)
        BY <1>1, <2>1 DEF OrderOf, IdsOf
    <2>3. /\ cs \in Seq(Cards) /\ Len(cs) = Len(d.cards) - 1
          /\ \A j \in 1 .. Len(d.cards) - 1 : cs[j] = IF j < i THEN d.cards[j] ELSE d.cards[j + 1]
        <3> HIDE DEF i
        <3> QED
            BY <2>1, <2>2, RemovedAt
    <2>4. CancelCard(d, id) = [status |-> d.status, cursor |-> d.cursor, cards |-> cs, minted |-> d.minted,
                               question |-> NoQuestion, refused |-> d.refused]
        <3>1. CancelCard(d, id) = [d EXCEPT !.cards = cs]
            BY <1>1 DEF CancelCard, Without
        <3> HIDE DEF cs
        <3> QED
            BY <3>1 DEF DraftFits
    <2> HIDE DEF i, cs
    <2> DEFINE from(j) == IF j < i THEN j ELSE j + 1
    <2>5. \A j \in 1 .. Len(cs) : from(j) \in 1 .. Len(d.cards) /\ cs[j] = d.cards[from(j)]
        BY <2>1, <2>2, <2>3
    <2>6. \A j, n \in 1 .. Len(cs) : from(j) = from(n) => j = n
        BY <2>1, <2>2, <2>3
    <2> HIDE DEF from
    <2>7. RowsFit(cs, d.minted)
        <3>1. \A j \in 1 .. Len(cs) : CardFits(cs[j]) /\ cs[j].id \in 1 .. d.minted
            BY <2>5 DEF DraftFits, RowsFit
        <3>2. \A j, n \in 1 .. Len(cs) : cs[j].id = cs[n].id => j = n
            BY <2>5, <2>6 DEF DraftFits, RowsFit
        <3> QED
            BY <2>3, <3>1, <3>2 DEF DraftFits, RowsFit
    <2>8. OneEach(d.cards) => OneEach(cs)
        BY <2>5, <2>6, SMTT(30) DEF OneEach
    <2>9. KeepsMarks(cs)
        BY <2>5 DEF KeepsMarks, DraftFits
    <2>10. DraftFits(CancelCard(d, id))
        BY <2>4, <2>7, <2>8, <2>9 DEF DraftFits
    <2>11. EditFits(d) => EditFits(CancelCard(d, id))
        BY <2>4, <2>5, <2>10 DEF EditFits
    <2> QED
        BY <2>10, <2>11
<1>2. CASE id \notin IdsOf(d.cards)
    BY <1>2 DEF CancelCard, Refuse, DraftFits, EditFits
<1> QED
    BY <1>1, <1>2

(* Refusing leaves the cards alone.                                        *)
LEMMA RefuseFits ==
    ASSUME NEW d, NEW why, DraftFits(d)
    PROVE  /\ DraftFits(Refuse(d, why))
           /\ EditFits(d) => EditFits(Refuse(d, why))
BY DEF Refuse, DraftFits, EditFits

(* A change of an entity becomes the one card of that entity.              *)
LEMMA RealTargetFits ==
    ASSUME NEW d, DraftFits(d), NEW new, CardFits(new), new.action # "CREATE", ~new.marked
    PROVE  /\ DraftFits(ApplyRealTarget(d, new))
           /\ EditFits(d) => EditFits(ApplyRealTarget(d, new))
<1>1. CASE new.target \notin CandidateEntities
    BY <1>1, RefuseFits DEF ApplyRealTarget
<1> DEFINE same == {i \in DOMAIN d.cards : d.cards[i].target = new.target}
           i == CHOOSE j \in same : \A n \in same : j <= n
<1>2. d.cards \in Seq(Cards) /\ Len(d.cards) \in Nat /\ DOMAIN d.cards = 1 .. Len(d.cards)
    BY DEF DraftFits, RowsFit
<1>3. new.target # NoEntity
    BY DEF CardFits
<1>4. CASE new.target \in CandidateEntities /\ same = {}
    <2>1. ApplyRealTarget(d, new) = Append1(d, new)
        BY <1>4 DEF ApplyRealTarget, MergeInto
    <2>2. \A n \in 1 .. Len(d.cards) : d.cards[n].target # new.target
        BY <1>2, <1>4
    <2>3. /\ DraftFits(Append1(d, new))
          /\ Len(Append1(d, new).cards) = Len(d.cards) + 1
          /\ \A n \in 1 .. Len(d.cards) : Append1(d, new).cards[n] = d.cards[n]
          /\ Append1(d, new).cards[Len(d.cards) + 1].action = new.action
        BY <2>2, AppendFits
    <2>4. \A n \in 1 .. Len(d.cards) + 1 : n \in 1 .. Len(d.cards) \/ n = Len(d.cards) + 1
        BY <1>2
    <2>5. EditFits(d) => EditFits(Append1(d, new))
        BY <2>3, <2>4 DEF EditFits
    <2> QED
        BY <2>1, <2>3, <2>5
<1>5. CASE new.target \in CandidateEntities /\ same # {}
    <2>1. i \in 1 .. Len(d.cards) /\ d.cards[i].target = new.target
        <3>1. same \in SUBSET (1 .. Len(d.cards))
            BY <1>2
        <3> HIDE DEF same
        <3>2. \E j \in same : \A n \in same : j <= n
            BY <1>2, <1>5, <3>1, Folded!LeastExists
        <3>3. i \in same
            BY <3>2
        <3> QED
            BY <1>2, <3>3 DEF same
    <2>2. ApplyRealTarget(d, new) = SetCard(d, i, Merged(d.cards[i], new))
        BY <1>5 DEF ApplyRealTarget, MergeInto
    <2> HIDE DEF i
    <2>3. CardFits(d.cards[i])
        BY <2>1 DEF DraftFits, RowsFit
    <2> DEFINE card == Merged(d.cards[i], new)
    <2>4. /\ CardFits(card) /\ card.id = d.cards[i].id /\ card.target = d.cards[i].target
          /\ card.marked => d.cards[i].marked
        BY <1>3, <2>1, <2>3, MergedFits
    <2> HIDE DEF card
    <2>5. /\ DraftFits(SetCard(d, i, card))
          /\ SetCard(d, i, card).cards = [d.cards EXCEPT ![i] = card]
          /\ Len(SetCard(d, i, card).cards) = Len(d.cards)
        BY <2>1, <2>4, SetCardFits
    <2>6. card.action # "CREATE"
        BY <1>3, <2>1, <2>4 DEF CardFits
    <2>7. EditFits(d) => EditFits(SetCard(d, i, card))
        <3>1. \A n \in 1 .. Len(d.cards) : [d.cards EXCEPT ![i] = card][n] = IF n = i THEN card ELSE d.cards[n]
            BY <1>2
        <3> QED
            BY <2>5, <2>6, <3>1 DEF EditFits
    <2> QED
        BY <2>2, <2>5, <2>7 DEF card
<1> QED
    BY <1>1, <1>4, <1>5

(* Cards that come of a target and what is said of it.                     *)
LEMMA DeleteCardFits ==
    ASSUME NEW x \in Entities
    PROVE  CardFits(DeleteCard(x)) /\ DeleteCard(x).action = "DELETE" /\ ~DeleteCard(x).marked
<1> DEFINE p == [entity |-> EntityOf(x), fields |-> {}, missing |-> {},
                 startAt |-> IF x \in Schedules THEN RowTimes.startAt ELSE NoTime,
                 endAt |-> IF x \in Schedules THEN RowTimes.endAt ELSE NoTime]
<1>1. LineFits(p) /\ p.entity = EntityOf(x)
    BY DEF LineFits, EntityKinds, EntityOf, RowTimes, NoTime, Times
<1>2. DeleteCard(x) = CardFrom("DELETE", x, p, 0)
    BY DEF DeleteCard
<1>3. x # NoEntity
    BY ConstantsAssumption
<1> HIDE DEF p
<1> QED
    BY <1>1, <1>2, <1>3, CardFromFits

(* The card of an update, its times put in order.                          *)
LEMMA UpdateCardFits ==
    ASSUME NEW x \in Entities, NEW p, ChangeFits(p), EntityOf(x) = p.entity, NEW attempts \in Nat
    PROVE  LET card == CardFrom("UPDATE", x, Backfilled(p), attempts)
           IN  CardFits(card) /\ card.action = "UPDATE" /\ ~card.marked
<1>1. x # NoEntity
    BY ConstantsAssumption
<1>2. ChangeFits(Backfilled(p)) /\ Backfilled(p).entity = p.entity
    BY BackfilledFits
<1>3. LineFits(Backfilled(p))
    BY <1>2 DEF ChangeFits
<1> QED
    BY <1>1, <1>2, <1>3, CardFromFits

------------------------------------------------------------------------------
(* Operations of a free edit                                                *)

(* Something new gets a card of its own.                                   *)
LEMMA AddFits ==
    ASSUME NEW d, EditFits(d), NEW k, NEW p \in News(k, TaskFields \ {"remainingMinutes"}), NEW attempts \in Nat
    PROVE  EditFits(Append1(d, NormalizeTimes(CardFrom("CREATE", NoEntity, [p EXCEPT !.fields = {}], attempts))))
<1> DEFINE q == [p EXCEPT !.fields = {}]
           card == CardFrom("CREATE", NoEntity, q, attempts)
           new == NormalizeTimes(card)
<1>1. LineFits(p)
    BY NewsFit DEF AllFields
<1>2. LineFits(q)
    BY <1>1 DEF LineFits
<1>3. CardFits(card) /\ card.action = "CREATE" /\ card.target = NoEntity /\ ~card.marked
    <2> HIDE DEF q
    <2> QED
        BY <1>2, CardFromFits
<1>4. CardFits(new) /\ new.target = NoEntity /\ ~new.marked
    <2> HIDE DEF card
    <2> QED
        BY <1>3, NormalizeFits
<1> HIDE DEF new
<1>5. /\ DraftFits(Append1(d, new))
      /\ Len(Append1(d, new).cards) = Len(d.cards) + 1
      /\ \A n \in 1 .. Len(d.cards) : Append1(d, new).cards[n] = d.cards[n]
      /\ Append1(d, new).cards[Len(d.cards) + 1].marked = new.marked
    BY <1>4, AppendFits DEF EditFits
<1>6. \A n \in 1 .. Len(d.cards) + 1 : n \in 1 .. Len(d.cards) \/ n = Len(d.cards) + 1
    BY DEF EditFits, DraftFits, RowsFit
<1>7. EditFits(Append1(d, new))
    BY <1>4, <1>5, <1>6 DEF EditFits
<1> QED
    BY <1>7 DEF new

(* A patch changes the card it names, or is refused.                       *)
LEMMA PatchItemFits ==
    ASSUME NEW d, EditFits(d), NEW o, LineFits(o.p)
    PROVE  EditFits(PatchItem(d, o))
<1>1. CASE o.ref \notin IdsOf(d.cards) \/ d.cards[OrderOf(d.cards, o.ref)].action # "CREATE"
    BY <1>1, RefuseFits DEF PatchItem, EditFits
<1>2. CASE ~(o.ref \notin IdsOf(d.cards) \/ d.cards[OrderOf(d.cards, o.ref)].action # "CREATE")
    <2> DEFINE i == OrderOf(d.cards, o.ref)
    <2>1. d.cards \in Seq(Cards)
        BY DEF EditFits, DraftFits, RowsFit
    <2>2. i \in 1 .. Len(d.cards) /\ d.cards[i].action = "CREATE"
        BY <1>2, <2>1 DEF OrderOf, IdsOf
    <2> HIDE DEF i
    <2> DEFINE patched == ApplyCreateMergePatch(d.cards[i], o.p)
               card == NormalizeTimes(patched)
    <2>3. CardFits(d.cards[i]) /\ ~d.cards[i].marked
        BY <2>2 DEF EditFits, DraftFits, RowsFit
    <2>4. /\ CardFits(patched)
          /\ \A x \in {"id", "action", "target", "marked"} : patched[x] = d.cards[i][x]
        BY <2>2, <2>3, PatchKeepsFit
    <2> HIDE DEF patched
    <2>5. /\ CardFits(card)
          /\ \A x \in {"id", "action", "target", "marked"} : card[x] = d.cards[i][x]
        BY <2>4, NormalizeFits
    <2>6. PatchItem(d, o) = SetCard(d, i, card)
        BY <1>2 DEF PatchItem, i, patched
    <2> HIDE DEF card
    <2>7. /\ DraftFits(SetCard(d, i, card))
          /\ SetCard(d, i, card).cards = [d.cards EXCEPT ![i] = card]
          /\ Len(SetCard(d, i, card).cards) = Len(d.cards)
        BY <2>2, <2>5, SetCardFits DEF EditFits
    <2>8. \A n \in 1 .. Len(d.cards) : [d.cards EXCEPT ![i] = card][n] = IF n = i THEN card ELSE d.cards[n]
        BY <2>1
    <2> QED
        BY <2>3, <2>5, <2>6, <2>7, <2>8 DEF EditFits
<1> QED
    BY <1>1, <1>2

(* So every operation of a free edit leaves a draft that fits.             *)
LEMMA OperationFits ==
    ASSUME NEW ctx, ctx.targets \subseteq Entities, NEW ops \in OperationLists(ctx), NEW i \in DOMAIN ops,
           NEW d, EditFits(d)
    PROVE  EditFits(ApplyOperation(d, ops[i]))
<1> DEFINE o == ops[i]
<1>1. o \in Adds \union ItemOperations(ctx.items) \union EntityOperations(ctx.targets)
    BY DEF OperationLists
<1> SUFFICES EditFits(ApplyOperation(d, o))
    OBVIOUS
<1> HIDE DEF o
<1>2. DraftFits(d)
    BY DEF EditFits
<1>3. CASE o \in Adds
    <2>0. PICK k \in Kinds : \E p \in News(k, TaskFields \ {"remainingMinutes"}), a \in AiAttempts :
              o = [do |-> "ADD", ref |-> NoEntity, p |-> p, attempts |-> a]
        <3> DEFINE all == UNION {News(k, TaskFields \ {"remainingMinutes"}) : k \in Kinds}
        <3>1. PICK p \in all, a \in AiAttempts : o = [do |-> "ADD", ref |-> NoEntity, p |-> p, attempts |-> a]
            BY <1>3 DEF Adds
        <3> QED
            BY <3>1
    <2>1. PICK p \in News(k, TaskFields \ {"remainingMinutes"}), a \in AiAttempts :
              o = [do |-> "ADD", ref |-> NoEntity, p |-> p, attempts |-> a]
        BY <2>0
    <2>2. a \in Nat
        BY ConstantsAssumption
    <2>3. ApplyOperation(d, o) = Append1(d, NormalizeTimes(CardFrom("CREATE", NoEntity, [p EXCEPT !.fields = {}], a)))
        BY <2>1 DEF ApplyOperation
    <2> QED
        BY <2>2, <2>3, AddFits
<1>4. CASE o \in ItemOperations(ctx.items)
    <2>1. CASE \E it \in ctx.items : o = [do |-> "DELETE_ITEM", ref |-> it.id]
        <3>1. ApplyOperation(d, o) = CancelCard(d, o.ref)
            BY <2>1 DEF ApplyOperation
        <3> QED
            BY <1>2, <3>1, CancelFits
    <2>2. CASE \E it \in ctx.items : \E p \in Patches(it.entity, FieldsOf(it.entity) \ {"remainingMinutes"}) :
                   o = [do |-> "PATCH_ITEM", ref |-> it.id, p |-> p]
        <3>1. ApplyOperation(d, o) = PatchItem(d, o)
            BY <2>2 DEF ApplyOperation
        <3>2. LineFits(o.p)
            BY <2>2, PatchesFit DEF ChangeFits
        <3> QED
            BY <3>1, <3>2, PatchItemFits
    <2> QED
        BY <1>4, <2>1, <2>2 DEF ItemOperations
<1>5. CASE o \in EntityOperations(ctx.targets)
    <2>1. CASE \E e \in ctx.targets : o = [do |-> "DELETE_ENTITY", ref |-> e]
        <3>1. PICK e \in Entities : o = [do |-> "DELETE_ENTITY", ref |-> e]
            BY <2>1
        <3>2. ApplyOperation(d, o) = ApplyRealTarget(d, DeleteCard(e))
            BY <3>1 DEF ApplyOperation
        <3> QED
            BY <1>2, <3>2, DeleteCardFits, RealTargetFits
    <2>2. CASE \E e \in ctx.targets : \E p \in Patches(EntityOf(e), FieldsOf(EntityOf(e))), a \in AiAttempts :
                   o = [do |-> "UPDATE_ENTITY", ref |-> e, p |-> p, attempts |-> a]
        <3>1. PICK e \in Entities : \E p \in Patches(EntityOf(e), FieldsOf(EntityOf(e))), a \in AiAttempts :
                   o = [do |-> "UPDATE_ENTITY", ref |-> e, p |-> p, attempts |-> a]
            BY <2>2
        <3>2. PICK p \in Patches(EntityOf(e), FieldsOf(EntityOf(e))), a \in AiAttempts :
                   o = [do |-> "UPDATE_ENTITY", ref |-> e, p |-> p, attempts |-> a]
            BY <3>1
        <3>3. ChangeFits(p) /\ EntityOf(e) = p.entity /\ a \in Nat
            BY PatchesFit, ConstantsAssumption DEF EntityOf, EntityKinds
        <3> DEFINE card == CardFrom("UPDATE", e, Backfilled(p), a)
        <3>4. CardFits(card) /\ card.action = "UPDATE" /\ ~card.marked
            BY <3>3, UpdateCardFits
        <3>5. ApplyOperation(d, o) = ApplyRealTarget(d, NormalizeTimes(card))
            BY <3>2 DEF ApplyOperation
        <3> HIDE DEF card
        <3>6. /\ CardFits(NormalizeTimes(card)) /\ NormalizeTimes(card).action = "UPDATE"
              /\ ~NormalizeTimes(card).marked
            BY <3>4, NormalizeFits
        <3> QED
            BY <1>2, <3>5, <3>6, RealTargetFits
    <2> QED
        BY <1>5, <2>1, <2>2 DEF EntityOperations
<1> QED
    BY <1>1, <1>3, <1>4, <1>5

(* However many operations an answer has.                                  *)
LEMMA OperationsFit ==
    ASSUME NEW ctx, ctx.targets \subseteq Entities, NEW ops \in OperationLists(ctx), EditFits(Draft)
    PROVE  EditFits(FoldLeft(ApplyOperation, Draft, ops))
<1>1. PICK n \in Nat : DOMAIN ops = 1 .. n
    BY ConstantsAssumption DEF OperationLists
<1>2. \A d : \A i \in 1 .. n : EditFits(d) => EditFits(ApplyOperation(d, ops[i]))
    BY <1>1, OperationFits
<1> QED
    <2>1. EditFits(Folded!Folding(Draft, ops))
        BY <1>1, <1>2, Folded!FoldLeftKeeps
    <2> QED
        BY <2>1 DEF Folded!Folding, Folded!FoldLeft, Folded!MapThenFoldSet, Folded!Max, FoldLeft, MapThenFoldSet, Max

------------------------------------------------------------------------------
(* Questions                                                                *)

(* A card that misses something and asks for it, put into a draft.         *)
LEMMA AskCardFits ==
    ASSUME NEW d, DraftFits(d), NEW i \in 1 .. Len(d.cards), NEW card, CardFits(card),
           card.id = d.cards[i].id, card.target = d.cards[i].target, card.marked => d.cards[i].marked,
           card.status = "INFO_MISSING", AsksRight(card)
    PROVE  FinalFits(AskCard(d, i, card))
<1> DEFINE cs == [d.cards EXCEPT ![i] = card]
           a == AskCard(d, i, card)
<1>1. DraftFits(SetCard(d, i, card)) /\ SetCard(d, i, card).cards = cs /\ SetCard(d, i, card).minted = d.minted
    BY SetCardFits
<1>2. /\ a.status = "COLLECTING" /\ a.cursor = i /\ a.cards = cs /\ a.minted = d.minted
      /\ a.question = CardQuestion(card)
    BY DEF AskCard
<1>3. d.cards \in Seq(Cards)
    BY DEF DraftFits, RowsFit
<1>4. i \in 1 .. Len(cs) /\ cs[i] = card
    BY <1>3
<1>5. AsksAboutCard(i, cs, CardQuestion(card))
    BY <1>4 DEF AsksAboutCard
<1>6. CardQuestion(card).type \in {"card", "recurrence"}
    BY DEF CardQuestion
<1> HIDE DEF a, cs
<1>7. Asks(a.status, a.cursor, a.cards, a.question)
    BY <1>2, <1>5, <1>6 DEF Asks
<1>8. FinalFits(a)
    BY <1>1, <1>2, <1>7 DEF FinalFits, DraftFits
<1> QED
    BY <1>8 DEF a

(* A card that misses something asks for it after it was looked at.        *)
LEMMA EnsureFits ==
    ASSUME NEW card, CardFits(card), card.status = "INFO_MISSING"
    PROVE  /\ CardFits(EnsurePendingQuestion(card))
           /\ AsksRight(EnsurePendingQuestion(card))
           /\ \A x \in {"id", "target", "status", "missing", "marked"} : EnsurePendingQuestion(card)[x] = card[x]
<1>1. card \in Cards /\ card.missing # {} /\ card.missing \in SUBSET AllFields
    BY DEF CardFits, Cards, AllFields
<1>2. FirstMissing(card.missing) \in card.missing
    BY <1>1, FirstIsMissing
<1>3. CASE card.marked
    <2>1. EnsurePendingQuestion(card) = Ask(card, Recurrence, 0)
        BY <1>3 DEF EnsurePendingQuestion
    <2>2. /\ Ask(card, Recurrence, 0) \in Cards /\ Ask(card, Recurrence, 0).asked = Recurrence
          /\ \A x \in {"id", "entity", "action", "status", "target", "missing", "unset", "marked",
                         "updateFields", "startAt", "endAt"} : Ask(card, Recurrence, 0)[x] = card[x]
        BY <1>1, AskRecurrence, Zenon
    <2> QED
        BY <1>1, <1>3, <2>1, <2>2 DEF CardFits, AsksRight
<1>4. CASE ~card.marked /\ card.asked = FirstMissing(card.missing) /\ card.attempts >= 1
    <2>1. EnsurePendingQuestion(card) = card
        BY <1>4 DEF EnsurePendingQuestion
    <2> QED
        BY <1>2, <1>4, <2>1 DEF AsksRight
<1>5. CASE ~card.marked /\ ~(card.asked = FirstMissing(card.missing) /\ card.attempts >= 1)
    <2>1. EnsurePendingQuestion(card) = Ask(card, FirstMissing(card.missing), 1)
        BY <1>5 DEF EnsurePendingQuestion
    <2>2. FirstMissing(card.missing) \in AllFields \union {NoField, Recurrence}
        BY <1>1, <1>2
    <2> QED
        BY <1>1, <1>2, <1>5, <2>1, <2>2, AskFits, SMTT(30) DEF CardFits, AsksRight
<1> QED
    BY <1>3, <1>4, <1>5

(* The first card with an open question.                                   *)
LEMMA FirstOpenFits ==
    ASSUME NEW cs \in Seq(Cards), Missing(cs) # {}
    PROVE  FirstOpen(cs) \in 1 .. Len(cs) /\ cs[FirstOpen(cs)].status = "INFO_MISSING"
<1>1. Missing(cs) \in SUBSET (1 .. Len(cs)) /\ Len(cs) \in Nat
    BY DEF Missing
<1>2. \E i \in Missing(cs) : \A j \in Missing(cs) : i <= j
    BY <1>1, Folded!LeastExists
<1>3. FirstOpen(cs) \in Missing(cs)
    BY <1>2 DEF FirstOpen
<1> QED
    BY <1>1, <1>3 DEF Missing

(* Whatever was done to the cards, what follows asks the right question.   *)
LEMMA RecomputeFits ==
    ASSUME NEW d, DraftFits(d)
    PROVE  FinalFits(Recompute(d)) /\ KeepsRows(d.cards, Recompute(d).cards)
<1>1. d.cards \in Seq(Cards) /\ d.question = NoQuestion
    BY DEF DraftFits, RowsFit
<1>2. CASE Missing(d.cards) # {}
    <2> DEFINE i == FirstOpen(d.cards)
               card == EnsurePendingQuestion(d.cards[i])
    <2>1. i \in 1 .. Len(d.cards) /\ d.cards[i].status = "INFO_MISSING"
        BY <1>1, <1>2, FirstOpenFits
    <2>2. CardFits(d.cards[i])
        BY <2>1 DEF DraftFits, RowsFit
    <2>3. d.cards # << >>
        BY <1>2 DEF Missing
    <2>4. Recompute(d) = AskCard(d, i, card)
        BY <1>2, <2>3 DEF Recompute
    <2> HIDE DEF i
    <2>5. /\ CardFits(card) /\ AsksRight(card)
          /\ card.id = d.cards[i].id /\ card.target = d.cards[i].target /\ card.status = "INFO_MISSING"
          /\ card.marked = d.cards[i].marked /\ card.missing = d.cards[i].missing
        BY <2>1, <2>2, EnsureFits
    <2> HIDE DEF card
    <2>6. FinalFits(Recompute(d))
        BY <2>1, <2>4, <2>5, AskCardFits
    <2>7. Recompute(d).cards = [d.cards EXCEPT ![i] = card]
        BY <2>4 DEF AskCard
    <2>8. KeepsRows(d.cards, Recompute(d).cards)
        BY <1>1, <2>1, <2>5, <2>7 DEF KeepsRows
    <2> QED
        BY <2>6, <2>8
<1>3. CASE Missing(d.cards) = {}
    <2> DEFINE r == Recompute(d)
    <2>1. /\ r.status \in {"CHANGE_INPUT", "CHANGE_CONFIRMATION"} /\ r.cursor = 0
          /\ r.cards = d.cards /\ r.minted = d.minted /\ r.question = NoQuestion
        BY <1>1, <1>3 DEF Recompute, Settle
    <2> HIDE DEF r
    <2>2. Asks(r.status, r.cursor, r.cards, r.question)
        BY <1>3, <2>1 DEF Asks, NoQuestion
    <2>3. FinalFits(r)
        BY <2>1, <2>2 DEF FinalFits, DraftFits
    <2>4. KeepsRows(d.cards, r.cards)
        BY <2>1 DEF KeepsRows
    <2> QED
        BY <2>3, <2>4 DEF r
<1> QED
    BY <1>2, <1>3

(* A card that has got one of the fields it misses.                        *)
LEMMA AdvanceFits ==
    ASSUME NEW d, DraftFits(d), NEW i \in 1 .. Len(d.cards), ~d.cards[i].marked,
           NEW remaining \in SUBSET d.cards[i].missing,
           d.cards[i].action = "CREATE" /\ d.cards[i].entity = "TASK" => d.cards[i].unset \subseteq remaining
    PROVE  /\ FinalFits(AdvanceCard(d, i, remaining))
           /\ Len(AdvanceCard(d, i, remaining).cards) = Len(d.cards)
           /\ \A j \in 1 .. Len(d.cards) :
                 AdvanceCard(d, i, remaining).cards[j].missing = IF j = i THEN remaining ELSE d.cards[j].missing
<1> DEFINE card == WithMissing(d.cards[i], remaining)
<1>1. CardFits(d.cards[i])
    BY DEF DraftFits, RowsFit
<1>2. d.cards[i] \in Cards /\ remaining \in SUBSET AllFields
    BY <1>1 DEF CardFits, Cards, AllFields
<1>3. /\ card \in Cards /\ card.missing = remaining
      /\ (card.status = "INFO_MISSING") = (remaining # {})
      /\ remaining # {} => card.asked \in remaining
      /\ \A x \in {"id", "entity", "action", "target", "unset", "marked", "updateFields"} : card[x] = d.cards[i][x]
    BY <1>2, WithMissingFits
<1> HIDE DEF card
<1> DEFINE cs == [d.cards EXCEPT ![i] = card]
<1>7. /\ Len(cs) = Len(d.cards)
      /\ \A j \in 1 .. Len(d.cards) : cs[j].missing = IF j = i THEN remaining ELSE d.cards[j].missing
    BY <1>3 DEF DraftFits, RowsFit
<1>4. CardFits(card)
    BY <1>1, <1>3 DEF CardFits
<1>5. CASE remaining = {}
    <2>1. AdvanceCard(d, i, remaining) = Recompute(SetCard(d, i, card))
        BY <1>5 DEF AdvanceCard, card
    <2>2. DraftFits(SetCard(d, i, card)) /\ SetCard(d, i, card).cards = cs
        BY <1>3, <1>4, SetCardFits
    <2> HIDE DEF cs
    <2>3. FinalFits(AdvanceCard(d, i, remaining)) /\ KeepsRows(cs, AdvanceCard(d, i, remaining).cards)
        BY <2>1, <2>2, RecomputeFits
    <2> QED
        BY <1>7, <2>3 DEF KeepsRows
<1>6. CASE remaining # {}
    <2>1. AdvanceCard(d, i, remaining) = AskCard(d, i, card)
        BY <1>6 DEF AdvanceCard, card
    <2>2. AsksRight(card)
        BY <1>3, <1>6 DEF AsksRight
    <2>3. FinalFits(AskCard(d, i, card))
        BY <1>3, <1>4, <1>6, <2>2, AskCardFits
    <2>4. AskCard(d, i, card).cards = cs
        BY DEF AskCard
    <2> QED
        BY <1>7, <2>1, <2>3, <2>4
<1> QED
    BY <1>5, <1>6

------------------------------------------------------------------------------
(* Answers                                                                  *)

(* What a transaction starts from.                                         *)
LEMMA DraftIsFit ==
    ASSUME RowsFit(cards, request.minted)
    PROVE  DraftFits(Draft) /\ Draft.cards = cards
BY DEF Draft, DraftFits, KeepsMarks, MarkedCard, RowsFit

(* Asking a card once more.                                                *)
LEMMA AskAgainFits ==
    ASSUME RowsFit(cards, request.minted), request.status = "COLLECTING", request.cursor \in 1 .. Len(cards),
           NEW card, card = cards[request.cursor], card.status = "INFO_MISSING",
           ~card.marked, card.asked \in card.missing, NEW attempts \in Nat,
           NEW again, again = Ask(card, card.asked, attempts)
    PROVE  /\ FinalFits([SetCard(Draft, request.cursor, again) EXCEPT !.question = CardQuestion(again)])
           /\ GivesOnly(card.asked, [SetCard(Draft, request.cursor, again) EXCEPT !.question = CardQuestion(again)].cards)
<1> DEFINE d == SetCard(Draft, request.cursor, again)
           cs == [cards EXCEPT ![request.cursor] = again]
           f == [d EXCEPT !.question = CardQuestion(again)]
<1>1. DraftFits(Draft) /\ Draft.cards = cards
    BY DraftIsFit
<1>2. CardFits(card) /\ card \in Cards /\ card.asked \in AllFields
    BY DEF RowsFit, CardFits, Cards, AllFields
<1>3. /\ again \in Cards /\ again.asked = card.asked
      /\ \A x \in {"id", "entity", "action", "status", "target", "missing", "unset", "marked",
                     "updateFields"} : again[x] = card[x]
    BY <1>2, AskFits
<1>4. CardFits(again) /\ AsksRight(again)
    BY <1>2, <1>3 DEF CardFits, AsksRight
<1>5. DraftFits(d) /\ d.cards = cs /\ Len(cs) = Len(cards)
    <2>1. request.cursor \in 1 .. Len(Draft.cards)
        BY <1>1
    <2>2. /\ again.id = Draft.cards[request.cursor].id /\ again.target = Draft.cards[request.cursor].target
          /\ again.marked => Draft.cards[request.cursor].marked
        BY <1>1, <1>3
    <2> HIDE DEF cs, f
    <2>3. DraftFits(d) /\ d.cards = [Draft.cards EXCEPT ![request.cursor] = again] /\ Len(d.cards) = Len(Draft.cards)
        BY <1>1, <1>4, <2>1, <2>2, SetCardFits, SMTT(30)
    <2> QED
        BY <1>1, <2>3 DEF cs
<1>6. /\ f.status = "COLLECTING" /\ f.cursor = request.cursor /\ f.cards = cs /\ f.minted = d.minted
      /\ f.question = CardQuestion(again)
    BY <1>1, <1>5 DEF SetCard, Draft
<1>7. cards \in Seq(Cards)
    BY DEF RowsFit
<1>8. AsksAboutCard(request.cursor, cs, CardQuestion(again))
    <2>1. cs[request.cursor] = again /\ request.cursor \in 1 .. Len(cs)
        BY <1>5, <1>7
    <2> HIDE DEF cs, f, d
    <2> QED
        BY <1>3, <1>4, <2>1 DEF AsksAboutCard
<1>9. CardQuestion(again).type \in {"card", "recurrence"}
    BY DEF CardQuestion
<1>11. GivesOnly(card.asked, cs)
    <2>1. \A j \in 1 .. Len(cards) : cs[j] = IF j = request.cursor THEN again ELSE cards[j]
        BY <1>7
    <2>2. \A j \in 1 .. Len(cards) : cs[j].missing = cards[j].missing
        BY <1>3, <2>1
    <2> QED
        BY <1>5, <2>2 DEF GivesOnly
<1> HIDE DEF f, d, cs
<1>10. FinalFits(f)
    BY <1>5, <1>6, <1>8, <1>9 DEF FinalFits, DraftFits, Asks
<1>12. GivesOnly(card.asked, f.cards)
    BY <1>6, <1>11
<1> QED
    BY <1>10, <1>12 DEF f, d

(* Giving a card the field it asks for, with a value or without.           *)
LEMMA ResolveFits ==
    ASSUME RowsFit(cards, request.minted), request.cursor \in 1 .. Len(cards), NEW f,
           ~cards[request.cursor].marked, f \in cards[request.cursor].missing,
           NEW c \in Cards,
           \A x \in {"id", "entity", "action", "status", "target", "missing", "unset", "marked", "updateFields"} :
               c[x] = cards[request.cursor][x]
    PROVE  LET given == AdvanceCard(SetCard(Draft, request.cursor, [c EXCEPT !.unset = @ \ {f}]),
                                    request.cursor, cards[request.cursor].missing \ {f})
           IN  FinalFits(given) /\ GivesOnly(f, given.cards)
<1> DEFINE i == request.cursor
           card == [c EXCEPT !.unset = @ \ {f}]
           d == SetCard(Draft, i, card)
<1>1. DraftFits(Draft) /\ Draft.cards = cards
    BY DraftIsFit
<1>2. CardFits(cards[i]) /\ cards \in Seq(Cards)
    BY DEF RowsFit
<1>3. /\ card \in Cards /\ card.unset = c.unset \ {f}
      /\ \A x \in {"id", "entity", "action", "status", "target", "missing", "marked", "updateFields"} :
            card[x] = cards[i][x]
    BY DEF Cards
<1> HIDE DEF card
<1>4. CardFits(card)
    BY <1>2, <1>3 DEF CardFits
<1>5. DraftFits(d) /\ d.cards = [cards EXCEPT ![i] = card] /\ Len(d.cards) = Len(cards)
    BY <1>1, <1>3, <1>4, SetCardFits
<1>6. d.cards[i] = card
    BY <1>2, <1>5
<1> HIDE DEF d
<1>7. card.action = "CREATE" /\ card.entity = "TASK" => card.unset \subseteq cards[i].missing \ {f}
    BY <1>2, <1>3 DEF CardFits
<1>8. cards[i].missing \ {f} \in SUBSET card.missing
    BY <1>3
<1> DEFINE given == AdvanceCard(d, i, cards[i].missing \ {f})
<1>9. /\ FinalFits(given) /\ Len(given.cards) = Len(d.cards)
      /\ \A j \in 1 .. Len(d.cards) :
            given.cards[j].missing = IF j = i THEN cards[i].missing \ {f} ELSE d.cards[j].missing
    <2> DEFINE remaining == cards[i].missing \ {f}
    <2>1. /\ DraftFits(d) /\ i \in 1 .. Len(d.cards) /\ ~d.cards[i].marked
          /\ remaining \in SUBSET d.cards[i].missing
          /\ d.cards[i].action = "CREATE" /\ d.cards[i].entity = "TASK" => d.cards[i].unset \subseteq remaining
        BY <1>3, <1>5, <1>6, <1>7, <1>8
    <2> HIDE DEF remaining
    <2>2. /\ FinalFits(AdvanceCard(d, i, remaining)) /\ Len(AdvanceCard(d, i, remaining).cards) = Len(d.cards)
          /\ \A j \in 1 .. Len(d.cards) :
                AdvanceCard(d, i, remaining).cards[j].missing = IF j = i THEN remaining ELSE d.cards[j].missing
        BY <2>1, AdvanceFits, SMTT(30)
    <2> QED
        BY <2>2 DEF remaining
<1> HIDE DEF given
<1>10. \A j \in 1 .. Len(cards) : j # i => d.cards[j] = cards[j]
    BY <1>2, <1>5
<1>11. GivesOnly(f, given.cards)
    BY <1>5, <1>9, <1>10 DEF GivesOnly
<1> QED
    BY <1>9, <1>11 DEF given, d, card

(* An answer to the question of a card, taken or asked again.              *)
LEMMA CardAnswersFit ==
    ASSUME RowsFit(cards, request.minted), request.status = "COLLECTING", request.cursor \in 1 .. Len(cards),
           cards[request.cursor].status = "INFO_MISSING", ~cards[request.cursor].marked,
           cards[request.cursor].asked \in cards[request.cursor].missing,
           NEW k, k.ctx.field = cards[request.cursor].asked, NEW d \in CardAnswers(k)
    PROVE  FinalFits(d) /\ GivesOnly(k.ctx.field, d.cards)
<1> DEFINE Good(x) == FinalFits(x) /\ GivesOnly(k.ctx.field, x.cards)
<1> DEFINE i == request.cursor
           card == cards[i]
           f == k.ctx.field
           Resolve(c) == AdvanceCard(SetCard(Draft, i, [c EXCEPT !.unset = @ \ {f}]), i, card.missing \ {f})
           AskAgain(n) == [SetCard(Draft, i, Ask(card, f, n)) EXCEPT !.question = CardQuestion(Ask(card, f, n))]
<1>1. CardFits(card) /\ card \in Cards /\ card.attempts \in Nat
    BY DEF RowsFit, CardFits, Cards
<1>2. ASSUME NEW n \in Nat
      PROVE  Good(AskAgain(n))
    BY AskAgainFits
<1>3. Good(Resolve(card))
    BY <1>1, ResolveFits
<1>4. ASSUME NEW t \in Times, f \in {"startAt", "endAt"}
      PROVE  Good(Resolve([card EXCEPT ![f] = t]))
    <2> DEFINE c == [card EXCEPT ![f] = t]
    <2>1. /\ c \in Cards
          /\ \A x \in {"id", "entity", "action", "status", "target", "missing", "unset", "marked", "updateFields"} :
                c[x] = card[x]
        <3>1. CASE f = "startAt"
            BY <1>1, <3>1 DEF Cards
        <3>2. CASE f = "endAt"
            BY <1>1, <3>2 DEF Cards
        <3> QED
            BY <1>4, <3>1, <3>2
    <2> HIDE DEF c
    <2>2. Good(Resolve(c))
        BY <2>1, ResolveFits
    <2> QED
        BY <2>2 DEF c
<1> HIDE DEF Resolve, AskAgain, Good
<1>5. \/ d = Resolve(card)
      \/ \E t \in Times : f \in {"startAt", "endAt"} /\ d = Resolve([card EXCEPT ![f] = t])
      \/ d = AskAgain(card.attempts + 1) \/ d = AskAgain(card.attempts)
    BY DEF CardAnswers, Resolve, AskAgain
<1>6. card.attempts + 1 \in Nat
    BY <1>1
<1>7. ASSUME NEW t \in Times, f \in {"startAt", "endAt"}, d = Resolve([card EXCEPT ![f] = t])
      PROVE  Good(d)
    BY <1>4, <1>7
<1> HIDE DEF card, f
<1>8. Good(d)
    BY <1>1, <1>2, <1>3, <1>5, <1>6, <1>7
<1> QED
    BY <1>8 DEF Good

(* The totals of a recurring task, given at once or not yet.               *)
LEMMA RecurrenceAnswersFit ==
    ASSUME RowsFit(cards, request.minted), NEW k, MarkedCard(k.ctx.card), NEW d \in RecurrenceAnswers(k)
    PROVE  /\ FinalFits(d)
           /\ \/ d.status = "COLLECTING" /\ d.question = [type |-> "recurrence", card |-> k.ctx.card]
              \/ \A j \in 1 .. Len(d.cards) : d.cards[j].id = k.ctx.card => ~d.cards[j].marked
<1> DEFINE i == OrderOf(cards, k.ctx.card)
           card == cards[i]
           open == [card EXCEPT !.status = "INFO_MISSING", !.missing = TotalFields]
           again == Ask(open, Recurrence, 0)
           plain == [card EXCEPT !.marked = FALSE, !.unset = @ \ TotalFields]
           cleared == WithMissing(plain, card.missing \ TotalFields)
<1>1. DraftFits(Draft) /\ Draft.cards = cards
    BY DraftIsFit
<1>2. cards \in Seq(Cards) /\ \A n, m \in 1 .. Len(cards) : cards[n].id = cards[m].id => n = m
    BY DEF RowsFit
<1>3. i \in 1 .. Len(cards) /\ card.marked /\ card.id = k.ctx.card
    <2>1. PICK n \in 1 .. Len(cards) : cards[n].id = k.ctx.card /\ cards[n].marked
        BY <1>2 DEF MarkedCard
    <2>2. i \in 1 .. Len(cards) /\ cards[i].id = k.ctx.card
        BY <1>2, <2>1 DEF OrderOf
    <2> HIDE DEF i
    <2> QED
        BY <1>2, <2>1, <2>2
<1> HIDE DEF i
<1>4. CardFits(card) /\ card \in Cards /\ card.entity = "TASK"
    BY <1>3 DEF RowsFit, CardFits
<1> HIDE DEF card
<1>5. /\ open \in Cards /\ open.status = "INFO_MISSING" /\ open.missing = TotalFields
      /\ \A x \in {"id", "entity", "action", "target", "unset", "marked", "updateFields"} : open[x] = card[x]
    <2>1. TotalFields \in SUBSET (TaskFields \union ScheduleFields)
        BY DEF TotalFields, TaskFields
    <2> QED
        BY <1>4, <2>1 DEF Cards
<1>6. /\ again \in Cards /\ again.asked = Recurrence
      /\ \A x \in {"id", "entity", "action", "status", "target", "missing", "unset", "marked", "updateFields"} :
            again[x] = open[x]
    <2> HIDE DEF open
    <2>1. /\ Ask(open, Recurrence, 0) \in Cards /\ Ask(open, Recurrence, 0).asked = Recurrence
          /\ \A x \in {"id", "entity", "action", "status", "target", "missing", "unset", "marked",
                         "updateFields", "startAt", "endAt"} : Ask(open, Recurrence, 0)[x] = open[x]
        BY <1>5, AskRecurrence, Zenon
    <2> QED
        BY <2>1
<1>7. FinalFits(AskCard(Draft, i, again))
    <2>1. TotalFields # {}
        BY DEF TotalFields
    <2> HIDE DEF again, open
    <2>2. CardFits(again) /\ AsksRight(again)
        BY <1>3, <1>4, <1>5, <1>6, <2>1 DEF CardFits, AsksRight
    <2>3. again.id = card.id /\ again.target = card.target /\ again.status = "INFO_MISSING"
        BY <1>5, <1>6
    <2> QED
        BY <1>1, <1>3, <1>5, <1>6, <2>2, <2>3, AskCardFits DEF card
<1>8. /\ plain \in Cards /\ ~plain.marked /\ plain.unset = card.unset \ TotalFields
      /\ \A x \in {"id", "entity", "action", "target", "missing", "updateFields"} : plain[x] = card[x]
    BY <1>4 DEF Cards
<1>9. /\ cleared \in Cards /\ cleared.missing = card.missing \ TotalFields
      /\ (cleared.status = "INFO_MISSING") = (card.missing \ TotalFields # {})
      /\ \A x \in {"id", "entity", "action", "target", "unset", "marked", "updateFields"} : cleared[x] = plain[x]
    <2>1. card.missing \ TotalFields \in SUBSET AllFields
        BY <1>4 DEF Cards, AllFields
    <2> HIDE DEF plain
    <2> QED
        BY <1>8, <2>1, WithMissingFits
<1>10. /\ FinalFits(Recompute(SetCard(Draft, i, cleared)))
       /\ KeepsRows([cards EXCEPT ![i] = cleared], Recompute(SetCard(Draft, i, cleared)).cards)
    <2> HIDE DEF cleared, plain
    <2>1. CardFits(cleared)
        BY <1>3, <1>4, <1>8, <1>9 DEF CardFits
    <2>2. cleared.id = card.id /\ cleared.target = card.target /\ ~cleared.marked
        BY <1>8, <1>9
    <2>3. DraftFits(SetCard(Draft, i, cleared)) /\ SetCard(Draft, i, cleared).cards = [cards EXCEPT ![i] = cleared]
        BY <1>1, <1>3, <2>1, <2>2, SetCardFits DEF card
    <2> QED
        BY <2>3, RecomputeFits
<1>11. d = AskCard(Draft, i, again) \/ d = Recompute(SetCard(Draft, i, cleared))
    BY DEF RecurrenceAnswers, card, i
<1>12. CASE d = AskCard(Draft, i, again)
    <2> HIDE DEF open
    <2>1. again.id = k.ctx.card /\ again.asked = Recurrence
        BY <1>3, <1>5, <1>6
    <2> HIDE DEF again
    <2>2. d.status = "COLLECTING" /\ d.question = CardQuestion(again)
        BY <1>12 DEF AskCard
    <2> QED
        BY <1>7, <1>12, <2>1, <2>2 DEF CardQuestion
<1>13. CASE d = Recompute(SetCard(Draft, i, cleared))
    <2> DEFINE cs == [cards EXCEPT ![i] = cleared]
    <2>1. ~cleared.marked
        BY <1>8, <1>9
    <2> HIDE DEF cleared
    <2>2. /\ Len(cs) = Len(cards) /\ cs[i] = cleared
          /\ \A j \in 1 .. Len(cards) : j # i => cs[j] = cards[j]
        BY <1>2, <1>3
    <2>3. FinalFits(d) /\ KeepsRows(cs, d.cards)
        BY <1>10, <1>13
    <2> HIDE DEF cs
    <2>4. ASSUME NEW j \in 1 .. Len(d.cards), d.cards[j].id = k.ctx.card
          PROVE  ~d.cards[j].marked
        <3>1. /\ j \in 1 .. Len(cards) /\ d.cards[j].id = cs[j].id /\ d.cards[j].marked = cs[j].marked
            BY <2>2, <2>3 DEF KeepsRows
        <3>2. CASE j = i
            BY <2>1, <2>2, <3>1, <3>2
        <3>3. CASE j # i
            BY <1>2, <1>3, <2>2, <2>4, <3>1, <3>3 DEF card
        <3> QED
            BY <3>2, <3>3
    <2> QED
        BY <2>3, <2>4
<1> QED
    BY <1>11, <1>12, <1>13

(* Asking which entity or card is meant, or what should change about it.   *)
LEMMA AskTargetFits ==
    ASSUME RowsFit(cards, request.minted), NEW d,
           d.status = "COLLECTING", d.cursor = 0, d.cards = cards, d.minted = request.minted,
           d.question.type \in {"unresolved", "details"}, d.question.entity \in EntityKinds
    PROVE  FinalFits(d)
<1>1. Asks("COLLECTING", 0, cards, d.question)
    BY DEF Asks, AsksAboutTarget
<1>2. KeepsMarks(cards)
    BY DraftIsFit DEF DraftFits
<1> QED
    BY <1>1, <1>2 DEF FinalFits

(* An answer about a target: it is asked again, cancelled or merged.       *)
LEMMA TargetAnswersFit ==
    ASSUME RowsFit(cards, request.minted), NEW k, k.ctx.entity \in EntityKinds,
           k.ctx.kind # "REQUEST_ITEM" => \A x \in k.ctx.ids : x \in Entities /\ EntityOf(x) = k.ctx.entity,
           NEW d \in TargetAnswers(k), d.refused = NoRefusal
    PROVE  FinalFits(d)
<1> DEFINE ctx == k.ctx
<1>1. DraftFits(Draft) /\ Draft.cards = cards
    BY DraftIsFit
<1>2. \A x : Refuse(Draft, Ambiguous(x)).refused # NoRefusal
    BY DEF Refuse, Draft, Ambiguous, NoRefusal
<1>3. CASE d = StillUnresolved(ctx)
    <2>1. /\ d.status = "COLLECTING" /\ d.cursor = 0 /\ d.cards = cards /\ d.minted = request.minted
          /\ d.question.type = "unresolved" /\ d.question.entity = ctx.entity
        BY <1>3 DEF StillUnresolved, AskTarget, UnresolvedQuestion, Draft
    <2> QED
        BY <2>1, AskTargetFits
<1>4. ASSUME NEW x \in ctx.ids, ctx.kind = "ENTITY"
      PROVE  FinalFits(Recompute(ApplyRealTarget(Draft, DeleteCard(x))))
    <2>1. x \in Entities
        BY <1>4
    <2>2. DraftFits(ApplyRealTarget(Draft, DeleteCard(x)))
        BY <1>1, <2>1, DeleteCardFits, RealTargetFits
    <2> QED
        BY <2>2, RecomputeFits
<1>5. ASSUME NEW x \in ctx.ids, d = ResolvedTargetOnly(ctx, x)
      PROVE  FinalFits(d)
    <2>1. CASE d = Recompute(CancelCard(Draft, x))
        BY <1>1, <2>1, CancelFits, RecomputeFits
    <2>2. CASE ctx.kind = "ENTITY" /\ d = Recompute(ApplyRealTarget(Draft, DeleteCard(x)))
        BY <1>4, <2>2
    <2>3. CASE d = [Draft EXCEPT !.status = "COLLECTING", !.cursor = 0,
                                 !.question = DetailsQuestion(ctx.kind, ctx.entity, x)]
        <3>1. /\ d.status = "COLLECTING" /\ d.cursor = 0 /\ d.cards = cards /\ d.minted = request.minted
              /\ d.question.type = "details" /\ d.question.entity = ctx.entity
            BY <2>3 DEF DetailsQuestion, Draft
        <3> QED
            BY <3>1, AskTargetFits
    <2> QED
        BY <1>2, <1>5, <2>1, <2>2, <2>3 DEF ResolvedTargetOnly
<1>6. ASSUME NEW x \in ctx.ids, d \in ResolvedItems(ctx, x)
      PROVE  FinalFits(d)
    <2>1. CASE ctx.kind = "REQUEST_ITEM"
        BY <1>2, <1>6, <2>1 DEF ResolvedItems
    <2>2. CASE ctx.kind = "ENTITY" /\ ctx.action = "DELETE"
        BY <1>4, <1>6, <2>2 DEF ResolvedItems
    <2>3. CASE ctx.kind # "REQUEST_ITEM" /\ ~(ctx.kind = "ENTITY" /\ ctx.action = "DELETE")
        <3> DEFINE made(p) == ApplyRealTarget(Draft, CardFrom("UPDATE", x, Backfilled(p), 1))
        <3>1. PICK p \in Patches(ctx.entity, TaskFields \union ScheduleFields) :
                  d = Recompute(IF ComparesNothing(p) THEN Refuse(made(p), Crashed(x)) ELSE made(p))
            BY <1>6, <2>3 DEF ResolvedItems
        <3>2. x \in Entities /\ ChangeFits(p) /\ EntityOf(x) = p.entity
            BY <1>6, <2>3, PatchesFit
        <3> DEFINE card == CardFrom("UPDATE", x, Backfilled(p), 1)
        <3>3. CardFits(card) /\ card.action = "UPDATE" /\ ~card.marked
            BY <3>2, UpdateCardFits
        <3> HIDE DEF card
        <3>4. DraftFits(ApplyRealTarget(Draft, card))
            BY <1>1, <3>3, RealTargetFits
        <3>5. DraftFits(made(p))
            BY <3>4 DEF card
        <3> HIDE DEF made
        <3>6. DraftFits(IF ComparesNothing(p) THEN Refuse(made(p), Crashed(x)) ELSE made(p))
            BY <3>5, RefuseFits
        <3> QED
            BY <3>1, <3>6, RecomputeFits
    <2> QED
        BY <2>1, <2>2, <2>3
<1> QED
    BY <1>3, <1>5, <1>6 DEF TargetAnswers

(* The operations of a free edit, or the question what is meant.           *)
LEMMA ChangeAnswersFit ==
    ASSUME RowsFit(cards, request.minted), Missing(cards) = {},
           NEW k, k.ctx.targets \subseteq Entities, NEW d \in ChangeAnswers(k)
    PROVE  FinalFits(d)
<1>1. DraftFits(Draft) /\ Draft.cards = cards
    BY DraftIsFit
<1>2. EditFits(Draft)
    <2>1. ASSUME NEW i \in 1 .. Len(cards), cards[i].action = "CREATE", cards[i].marked
          PROVE  FALSE
        <3>1. CardFits(cards[i]) /\ cards \in Seq(Cards)
            BY DEF RowsFit
        <3>2. cards[i].missing # {}
            BY <2>1, <3>1 DEF CardFits, TotalFields
        <3>3. i \in Missing(cards)
            BY <3>1, <3>2 DEF CardFits, Missing
        <3> QED
            BY <3>3
    <2> QED
        BY <1>1, <2>1 DEF EditFits
<1>3. ASSUME NEW ops \in OperationLists(k.ctx)
      PROVE  FinalFits(Recompute(FoldLeft(ApplyOperation, Draft, ops)))
    <2>1. EditFits(FoldLeft(ApplyOperation, Draft, ops))
        BY <1>2, OperationsFit
    <2> DEFINE e == FoldLeft(ApplyOperation, Draft, ops)
    <2>2. DraftFits(e)
        BY <2>1 DEF EditFits
    <2> HIDE DEF e
    <2>3. FinalFits(Recompute(e))
        BY <2>2, RecomputeFits
    <2> QED
        BY <2>3 DEF e
<1>4. ASSUME NEW kind, NEW action, NEW entity \in Kinds
      PROVE  FinalFits(AskTarget(kind, action, entity, kind))
    <2> DEFINE a == AskTarget(kind, action, entity, kind)
    <2>1. /\ a.status = "COLLECTING" /\ a.cursor = 0 /\ a.cards = cards /\ a.minted = request.minted
          /\ a.question.type = "unresolved" /\ a.question.entity = entity
        BY DEF AskTarget, UnresolvedQuestion, Draft
    <2>2. entity \in EntityKinds
        BY DEF Kinds, EntityKinds, EntityOf
    <2> HIDE DEF a
    <2>3. FinalFits(a)
        BY <2>1, <2>2, AskTargetFits
    <2> QED
        BY <2>3 DEF a
<1>5. CASE d \in ChangeUnresolved
    BY <1>4, <1>5 DEF ChangeUnresolved
<1>6. CASE d \in {Recompute(FoldLeft(ApplyOperation, Draft, ops)) : ops \in OperationLists(k.ctx)}
    BY <1>3, <1>6
<1> QED
    BY <1>5, <1>6 DEF ChangeAnswers

(* Whatever the model answers, to whatever was asked.                      *)
LEMMA OutcomesFit ==
    ASSUME ConversationInv, CardsInv, NEW k, CallFits(k), k.op = "message", k.kind # "refused", Fits(k),
           NEW d \in Outcomes(k), d.refused = NoRefusal
    PROVE  FinalFits(d)
<1>1. RowsFit(cards, request.minted) /\ Asks(request.status, request.cursor, cards, question)
    BY DEF CardsInv
<1>2. k # Idle /\ k.op # "create"
    BY DEF Idle
<1>3. /\ k.kind \in {"unresolved", "details"} =>
             /\ k.ctx.entity \in EntityKinds
             /\ k.ctx.kind # "REQUEST_ITEM" => \A x \in k.ctx.ids : x \in Entities /\ EntityOf(x) = k.ctx.entity
      /\ k.kind = "edit" => k.ctx.targets \subseteq Entities
    BY <1>2 DEF CallFits
<1>4. CASE k.kind = "card"
    <2>1. /\ request.status = "COLLECTING" /\ question.type \in {"none", "card"} /\ CursorCard
          /\ cards[request.cursor].asked = k.ctx.field
        BY <1>4 DEF Fits, DispatchKind
    <2>2. AsksAboutCard(request.cursor, cards, question)
        BY <1>1, <2>1 DEF Asks, AsksAboutTarget
    <2>3. ~cards[request.cursor].marked
        BY <2>1, <2>2 DEF AsksAboutCard, AsksRight, CardQuestion
    <2>4. cards[request.cursor].asked \in cards[request.cursor].missing
        BY <2>2, <2>3 DEF AsksAboutCard, AsksRight
    <2>5. d \in CardAnswers(k)
        BY <1>4 DEF Outcomes
    <2> QED
        BY <1>1, <2>1, <2>2, <2>3, <2>4, <2>5, CardAnswersFit DEF AsksAboutCard
<1>5. CASE k.kind = "recurrence"
    <2>1. MarkedCard(k.ctx.card) /\ d \in RecurrenceAnswers(k)
        BY <1>5 DEF Fits, Outcomes
    <2> QED
        BY <1>1, <2>1, RecurrenceAnswersFit
<1>6. CASE k.kind = "edit"
    <2>1. request.status = "CHANGE_INPUT" /\ d \in ChangeAnswers(k)
        BY <1>6 DEF Fits, DispatchKind, Outcomes
    <2>2. Missing(cards) = {}
        BY <1>1, <2>1 DEF Asks
    <2> QED
        BY <1>1, <1>3, <1>6, <2>1, <2>2, ChangeAnswersFit
<1>7. CASE k.kind \notin {"card", "recurrence", "edit"}
    <2>1. k.kind \in {"unresolved", "details"}
        BY <1>7 DEF Fits, DispatchKind
    <2>2. d \in TargetAnswers(k)
        BY <1>7 DEF Outcomes
    <2> QED
        BY <1>1, <1>3, <2>1, <2>2, TargetAnswersFit
<1> QED
    BY <1>4, <1>5, <1>6, <1>7

------------------------------------------------------------------------------
(* The first message                                                        *)

(* A line of the first analysis before its recurrence or its date is       *)
(* looked at, and after.                                                   *)
LineCardFits(card) ==
    /\ CardFits(card)
    /\ card.status = "INFO_MISSING" => AsksRight(card)

PlainFits(card) ==
    /\ LineCardFits(card)
    /\ ~card.marked
    /\ card.action \in {"CREATE", "UPDATE"}
    /\ card.action = "CREATE" /\ card.entity = "TASK" => card.unset \subseteq TotalFields

(* The lines of a first message, one kind after the other: something new,  *)
LEMMA CreateLineFits ==
    ASSUME NEW k, NEW p \in News(k, TotalFields)
    PROVE  PlainFits(CardFrom("CREATE", NoEntity, p, 1))
<1> DEFINE card == CardFrom("CREATE", NoEntity, p, 1)
<1>1. TotalFields \in SUBSET AllFields
    BY DEF TotalFields, AllFields, TaskFields
<1>2. LineFits(p) /\ (p.entity = "TASK" => p.missing \subseteq TotalFields)
    BY <1>1, NewsFit
<1>3. /\ CardFits(card) /\ card.action = "CREATE" /\ ~card.marked /\ card.entity = p.entity
      /\ card.missing = p.missing /\ card.unset = p.missing /\ (p.missing # {} => card.asked \in p.missing)
    BY <1>2, CardFromFits
<1> HIDE DEF card
<1>4. PlainFits(card)
    BY <1>2, <1>3 DEF PlainFits, LineCardFits, AsksRight, CardFits
<1> QED
    BY <1>4 DEF card

(* a change of an entity that is live,                                     *)
LEMMA UpdateLineFits ==
    ASSUME NEW x \in Entities, NEW p \in Patches(EntityOf(x), TaskFields \union ScheduleFields)
    PROVE  PlainFits(CardFrom("UPDATE", x, Backfilled(p), 1))
<1> DEFINE q == Backfilled(p)
           card == CardFrom("UPDATE", x, q, 1)
<1>1. ChangeFits(p) /\ p.entity = EntityOf(x)
    BY PatchesFit DEF EntityOf, EntityKinds
<1>2. ChangeFits(q) /\ q.entity = EntityOf(x)
    BY <1>1, BackfilledFits
<1>3. x # NoEntity
    BY ConstantsAssumption
<1> HIDE DEF q
<1>4. LineFits(q)
    BY <1>2 DEF ChangeFits
<1>5. /\ CardFits(card) /\ card.action = "UPDATE" /\ ~card.marked
      /\ card.missing = q.missing /\ (q.missing # {} => card.asked \in q.missing)
    BY <1>2, <1>3, <1>4, CardFromFits
<1> HIDE DEF card
<1>6. PlainFits(card)
    BY <1>5 DEF PlainFits, LineCardFits, AsksRight, CardFits
<1> QED
    BY <1>6 DEF card, q

(* a task of every week,                                                   *)
LEMMA MarkedLineFits ==
    ASSUME NEW card, PlainFits(card), card.entity = "TASK"
    PROVE  LineCardFits(MarkRecurring(card))
<1> DEFINE m == MarkRecurring(card)
<1>1. card \in Cards
    BY DEF PlainFits, LineCardFits, CardFits
<1>2. /\ m.missing = TotalFields /\ m.unset = card.unset \union TotalFields /\ m.status = "INFO_MISSING"
      /\ m.asked = Recurrence /\ m.marked
      /\ \A x \in {"id", "entity", "action", "target", "updateFields"} : m[x] = card[x]
    BY <1>1 DEF MarkRecurring, Cards
<1>3. m \in Cards
    <2>1. TotalFields \in SUBSET (TaskFields \union ScheduleFields)
        BY DEF TotalFields, TaskFields
    <2> QED
        BY <1>1, <2>1 DEF MarkRecurring, Cards
<1>4. TotalFields # {}
    BY DEF TotalFields
<1> HIDE DEF m
<1>5. LineCardFits(m)
    BY <1>2, <1>3, <1>4 DEF PlainFits, LineCardFits, CardFits, AsksRight
<1> QED
    BY <1>5 DEF m

(* a schedule whose day cannot be told,                                    *)
LEMMA DatedLineFits ==
    ASSUME NEW card, PlainFits(card), card.entity = "FIXED_SCHEDULE"
    PROVE  LineCardFits(AskDate(card))
<1> DEFINE m == AskDate(card)
<1>1. card \in Cards
    BY DEF PlainFits, LineCardFits, CardFits
<1>2. /\ m.missing = {"startAt", "endAt"} /\ m.status = "INFO_MISSING" /\ m.asked = "startAt"
      /\ \A x \in {"id", "entity", "action", "target", "updateFields", "marked"} : m[x] = card[x]
    BY <1>1 DEF AskDate, Cards
<1>3. m \in Cards
    <2>1. /\ {"startAt", "endAt"} \in SUBSET (TaskFields \union ScheduleFields)
          /\ card.unset \union {"startAt", "endAt"} \in SUBSET (TaskFields \union ScheduleFields)
          /\ "startAt" \in TaskFields \union ScheduleFields /\ NoTime \in Times
        BY <1>1 DEF ScheduleFields, Cards, Times, NoTime
    <2> QED
        BY <1>1, <2>1 DEF AskDate, Cards
<1> HIDE DEF m
<1>5. LineCardFits(m)
    BY <1>2, <1>3 DEF PlainFits, LineCardFits, CardFits, AsksRight
<1> QED
    BY <1>5 DEF m

(* and whatever the parser lets through.                                   *)
LEMMA FirstLinesFit ==
    ASSUME NEW targets \in SUBSET Entities, NEW l \in FirstLines(targets)
    PROVE  LineCardFits(l.card)
<1> DEFINE created == {[card |-> CardFrom("CREATE", NoEntity, p, 1), crashes |-> FALSE] :
                        p \in {q \in UNION {News(k, TotalFields) : k \in Kinds} : ~Inverted(q.startAt, q.endAt)}}
           updated == UNION {{[card |-> CardFrom("UPDATE", e, Backfilled(p), 1), crashes |-> ComparesNothing(p)] :
                               p \in {q \in Patches(EntityOf(e), TaskFields \union ScheduleFields) :
                                          ~BackfillRefuses(q)}} : e \in targets}
           deleted == {[card |-> DeleteCard(e), crashes |-> FALSE] : e \in targets}
           plain == created \union updated
<1>1. ASSUME NEW m \in created
      PROVE  PlainFits(m.card)
    <2> DEFINE all == {q \in UNION {News(k, TotalFields) : k \in Kinds} : ~Inverted(q.startAt, q.endAt)}
    <2>1. PICK p \in all : m = [card |-> CardFrom("CREATE", NoEntity, p, 1), crashes |-> FALSE]
        OBVIOUS
    <2>2. PICK k \in Kinds : p \in News(k, TotalFields)
        BY <2>1
    <2> QED
        BY <2>1, <2>2, CreateLineFits
<1>2. ASSUME NEW m \in updated
      PROVE  PlainFits(m.card)
    <2>1. PICK e \in targets : \E p \in Patches(EntityOf(e), TaskFields \union ScheduleFields) :
              m = [card |-> CardFrom("UPDATE", e, Backfilled(p), 1), crashes |-> ComparesNothing(p)]
        BY <1>2
    <2>2. PICK p \in Patches(EntityOf(e), TaskFields \union ScheduleFields) :
              m = [card |-> CardFrom("UPDATE", e, Backfilled(p), 1), crashes |-> ComparesNothing(p)]
        BY <2>1
    <2> QED
        BY <2>2, UpdateLineFits
<1>3. ASSUME NEW m \in deleted
      PROVE  LineCardFits(m.card)
    <2>1. PICK e \in Entities : m.card = DeleteCard(e)
        BY <1>3
    <2>2. CardFits(DeleteCard(e))
        BY DeleteCardFits
    <2>3. DeleteCard(e).status = "READY"
        BY DEF DeleteCard, CardFrom, Blank, StatusFor
    <2> QED
        BY <2>1, <2>2, <2>3 DEF LineCardFits
<1>4. \/ l \in plain \/ l \in deleted
      \/ \E m \in plain : m.card.entity = "TASK" /\ l = [m EXCEPT !.card = MarkRecurring(@)]
      \/ \E m \in plain : m.card.entity = "FIXED_SCHEDULE" /\ l = [m EXCEPT !.card = AskDate(@)]
    BY DEF FirstLines
<1>5. \A m \in plain : m = [card |-> m.card, crashes |-> m.crashes]
    OBVIOUS
<1> HIDE DEF created, updated, deleted
<1>6. \A m \in plain : PlainFits(m.card)
    BY <1>1, <1>2
<1> HIDE DEF plain
<1>7. ASSUME NEW m \in plain, m.card.entity = "TASK", l = [m EXCEPT !.card = MarkRecurring(@)]
      PROVE  LineCardFits(l.card)
    <2>1. l.card = MarkRecurring(m.card)
        BY <1>5, <1>7
    <2> QED
        BY <1>6, <1>7, <2>1, MarkedLineFits
<1>8. ASSUME NEW m \in plain, m.card.entity = "FIXED_SCHEDULE", l = [m EXCEPT !.card = AskDate(@)]
      PROVE  LineCardFits(l.card)
    <2>1. l.card = AskDate(m.card)
        BY <1>5, <1>8
    <2> QED
        BY <1>6, <1>8, <2>1, DatedLineFits
<1>9. CASE l \in plain
    BY <1>6, <1>9 DEF PlainFits
<1> QED
    BY <1>3, <1>4, <1>7, <1>8, <1>9

(* The first draft numbers its lines and asks for the first open one.      *)
LEMMA FirstDraftFits ==
    ASSUME NEW targets \in SUBSET Entities, NEW a \in FirstAnalyses(targets)
    PROVE  /\ RowsFit(FirstDraft(a).cards, FirstDraft(a).minted)
           /\ Asks(FirstDraft(a).status, FirstDraft(a).cursor, FirstDraft(a).cards, FirstDraft(a).question)
           /\ Len(FirstDraft(a).cards) \in 0 .. MaxLines
<1> DEFINE cs == Stored(a.lines)
           d == FirstDraft(a)
<1>1. PICK n \in 0 .. MaxLines : a.lines \in [1 .. n -> FirstLines(targets)]
    BY DEF FirstAnalyses
<1>2. n \in Nat
    BY <1>1, ConstantsAssumption
<1>3. cs = [i \in 1 .. n |-> [a.lines[i].card EXCEPT !.id = i]]
    BY <1>1 DEF Stored
<1>4. ASSUME NEW i \in 1 .. n
      PROVE  LineCardFits(cs[i]) /\ cs[i].id = i /\ cs[i] \in Cards
    <2> DEFINE card == a.lines[i].card
               own == [card EXCEPT !.id = i]
    <2>1. LineCardFits(card)
        BY <1>1, FirstLinesFit
    <2>2. cs[i] = own
        BY <1>3
    <2> HIDE DEF card, cs
    <2>3. card \in Cards /\ i \in Nat
        BY <2>1, <1>2 DEF LineCardFits, CardFits
    <2>4. /\ own \in Cards /\ own.id = i
          /\ \A x \in {"entity", "action", "status", "target", "missing", "unset", "asked", "marked", "updateFields"} :
                own[x] = card[x]
        BY <2>3 DEF Cards
    <2> HIDE DEF own
    <2>5. LineCardFits(own)
        BY <2>1, <2>4 DEF LineCardFits, CardFits, AsksRight
    <2> QED
        BY <2>2, <2>4, <2>5
<1>5. cs \in Seq(Cards) /\ Len(cs) = n
    <2>1. cs = [i \in 1 .. n |-> cs[i]]
        BY <1>3
    <2> HIDE DEF cs
    <2> QED
        BY <1>2, <1>4, <2>1
<1> HIDE DEF cs
<1>6. RowsFit(cs, n)
    BY <1>2, <1>4, <1>5 DEF RowsFit, LineCardFits
<1>7. CASE a.unresolved # NoQuestion
    <2>1. /\ d.status = "COLLECTING" /\ d.cursor = 0 /\ d.cards = cs /\ d.minted = n
          /\ d.question = a.unresolved
        BY <1>5, <1>7 DEF FirstDraft, cs
    <2>2. a.unresolved.type = "unresolved" /\ a.unresolved.entity \in EntityKinds
        BY <1>7 DEF FirstAnalyses, UnresolvedQuestion, EntityOf, EntityKinds
    <2> HIDE DEF d
    <2>3. Asks(d.status, d.cursor, d.cards, d.question)
        BY <2>1, <2>2 DEF Asks, AsksAboutTarget
    <2> QED
        BY <1>1, <1>5, <1>6, <2>1, <2>3 DEF d
<1>8. CASE a.unresolved = NoQuestion /\ Missing(cs) # {}
    <2> DEFINE i == FirstOpen(cs)
    <2>1. i \in 1 .. n /\ cs[i].status = "INFO_MISSING"
        BY <1>5, <1>8, FirstOpenFits
    <2>2. /\ d.status = "COLLECTING" /\ d.cursor = i /\ d.cards = [cs EXCEPT ![i] = cs[i]] /\ d.minted = n
          /\ d.question = CardQuestion(cs[i])
        BY <1>5, <1>8 DEF FirstDraft, AskCard, cs
    <2> HIDE DEF d, i
    <2>3. d.cards = cs
        BY <1>5, <2>1, <2>2
    <2>4. AsksAboutCard(i, cs, CardQuestion(cs[i]))
        BY <1>4, <1>5, <2>1 DEF AsksAboutCard, LineCardFits
    <2>5. CardQuestion(cs[i]).type \in {"card", "recurrence"}
        BY DEF CardQuestion
    <2>6. Asks(d.status, d.cursor, d.cards, d.question)
        BY <1>2, <2>1, <2>2, <2>3, <2>4, <2>5 DEF Asks
    <2> QED
        BY <1>1, <1>5, <1>6, <2>2, <2>3, <2>6 DEF d
<1>9. CASE a.unresolved = NoQuestion /\ Missing(cs) = {}
    <2>1. /\ d.status = "CHANGE_CONFIRMATION" /\ d.cursor = 0 /\ d.cards = cs /\ d.minted = n
          /\ d.question = NoQuestion
        BY <1>5, <1>9 DEF FirstDraft, Settle, cs
    <2> HIDE DEF d
    <2>2. Asks(d.status, d.cursor, d.cards, d.question)
        BY <2>1 DEF Asks, NoQuestion
    <2> QED
        BY <1>1, <1>5, <1>6, <2>1, <2>2 DEF d
<1> QED
    BY <1>7, <1>8, <1>9

(***************************************************************************)
(* Steps                                                                   *)
(***************************************************************************)
(* What the two write transactions leave behind.                           *)
LEMMA CommitFits ==
    ASSUME CardsInv, NEW d, FinalFits(d), d.status \in Statuses, NEW e \in Events, Commit(d, e)
    PROVE  /\ RequestFits'
           /\ RowsFit(cards', request'.minted)
           /\ Asks(request'.status, request'.cursor, cards', question')
<1>1. /\ request' = [request EXCEPT !.status = d.status, !.cursor = d.cursor, !.minted = d.minted]
      /\ cards' = d.cards /\ question' = d.question /\ used' = used \union {e} /\ turns' = turns + 1
    BY DEF Commit
<1>2. d.cursor \in Nat /\ d.minted \in Nat
    BY DEF FinalFits, Asks, RowsFit
<1>3. /\ request'.status = d.status /\ request'.cursor = d.cursor /\ request'.minted = d.minted
      /\ request' \in [no : Nat, status : Statuses, purpose : {"NEW_CYCLE", "ACTIVE_CYCLE"},
                        cycle : 0 .. MaxCycles, cursor : Nat, minted : Nat]
    BY <1>1, <1>2 DEF CardsInv, RequestFits
<1>4. RequestFits'
    BY <1>1, <1>3 DEF CardsInv, RequestFits
<1> QED
    BY <1>1, <1>3, <1>4 DEF FinalFits

(* The rows and the question of the request.                               *)
RequestInv ==
    /\ RequestFits
    /\ RowsFit(cards, request.minted)
    /\ Asks(request.status, request.cursor, cards, question)

(* The transaction that creates the request.                               *)
LEMMA CreationFits ==
    ASSUME ConversationInv, CardsInv, NEW c \in Clients, FinishCreate(c)
    PROVE  RequestInv'
<1>1. CASE UNCHANGED << request, cards, question, used, turns >>
    BY <1>1 DEF CardsInv, RequestInv, RequestFits, RowsFit, Asks, AsksAboutCard, AsksAboutTarget, Missing
<1>2. CASE ~UNCHANGED << request, cards, question, used, turns >>
    <2>1. PICK a \in FirstAnalyses(call[c].targets) :
              /\ request' = [no |-> request.no + 1, status |-> FirstDraft(a).status, purpose |-> call[c].purpose,
                             cycle |-> call[c].cycle, cursor |-> FirstDraft(a).cursor,
                             minted |-> FirstDraft(a).minted]
              /\ cards' = FirstDraft(a).cards
              /\ question' = FirstDraft(a).question
              /\ used' = {call[c].event}
              /\ turns' = 1
        BY <1>2 DEF FinishCreate
    <2>2. call[c].op = "create" /\ CallFits(call[c])
        BY DEF FinishCreate, CardsInv, CallsFit
    <2>3. /\ call[c].event \in Events /\ call[c].purpose \in {"NEW_CYCLE", "ACTIVE_CYCLE"}
          /\ call[c].cycle \in 0 .. MaxCycles /\ call[c].targets \in SUBSET Entities
        BY <2>2 DEF CallFits, Idle
    <2> DEFINE d == FirstDraft(a)
    <2>4. /\ RowsFit(d.cards, d.minted)
          /\ Asks(d.status, d.cursor, d.cards, d.question)
          /\ d.status \in Statuses
        BY <2>3, FirstDraftFits, FirstDraftTells DEF Told, Statuses
    <2> HIDE DEF d
    <2>5. request.no + 1 \in Nat /\ d.cursor \in Nat /\ d.minted \in Nat
        BY <2>4 DEF Asks, RowsFit, CardsInv, RequestFits
    <2>6. /\ request' \in [no : Nat, status : Statuses, purpose : {"NEW_CYCLE", "ACTIVE_CYCLE"},
                            cycle : 0 .. MaxCycles, cursor : Nat, minted : Nat]
          /\ request'.status = d.status /\ request'.cursor = d.cursor /\ request'.minted = d.minted
          /\ cards' = d.cards /\ question' = d.question
        BY <2>1, <2>3, <2>4, <2>5 DEF d
    <2>7. RequestFits'
        BY <2>1, <2>3, <2>6 DEF RequestFits
    <2> QED
        BY <2>4, <2>6, <2>7 DEF RequestInv, RowsFit, Asks, AsksAboutCard, AsksAboutTarget, Missing
<1> QED
    BY <1>1, <1>2

(* The transaction that takes an answer merges what it says of an entity.  *)
LEMMA AnswerFits ==
    ASSUME ConversationInv, CardsInv, NEW c \in Clients, FinishMessage(c)
    PROVE  /\ RequestInv'
           /\ OneEach(cards) => OneEach(cards')
<1>1. CASE UNCHANGED << request, cards, question, used, turns >>
    BY <1>1 DEF CardsInv, RequestInv, RequestFits, RowsFit, Asks, AsksAboutCard, AsksAboutTarget, Missing
<1>2. CASE ~UNCHANGED << request, cards, question, used, turns >>
    <2>1. PICK d \in Outcomes(call[c]) : d.refused = NoRefusal /\ Commit(d, call[c].event)
        BY <1>2 DEF FinishMessage
    <2>2. call[c].op = "message" /\ CallFits(call[c]) /\ Fits(call[c])
          /\ call[c].kind # "refused" /\ call[c].event \in Events
        BY DEF FinishMessage, CardsInv, CallsFit, ConversationInv, CallsAnswer, Answers
    <2>3. FinalFits(d)
        BY <2>1, <2>2, OutcomesFit
    <2>4. d.status \in Statuses
        BY <2>1, <2>2, OutcomesTell DEF Told, Statuses
    <2>5. /\ RequestFits'
          /\ RowsFit(cards', request'.minted)
          /\ Asks(request'.status, request'.cursor, cards', question')
        BY <2>1, <2>2, <2>3, <2>4, CommitFits
    <2>6. OneEach(cards) => OneEach(cards')
        BY <2>1, <2>3 DEF FinalFits, Commit
    <2> QED
        BY <2>5, <2>6 DEF RequestInv, RowsFit, Asks, AsksAboutCard, AsksAboutTarget, Missing
<1> QED
    BY <1>1, <1>2

(* A decision of the user changes no card, and neither does going back to  *)
(* the changes; whoever changes cards next finds them complete.            *)
LEMMA DecisionFits ==
    ASSUME ConversationInv, CardsInv, NEW e \in Events, NEW decision, Decide(e, decision)
    PROVE  RequestInv' /\ UNCHANGED cards
<1> DEFINE to == IF decision = "YES" THEN "CHANGE_INPUT" ELSE "FINAL_REVIEW"
           a == [Draft EXCEPT !.status = to]
           d == [a EXCEPT !.cursor = 0]
<1>1. Commit(d, e) /\ request.status = "CHANGE_CONFIRMATION"
    BY DEF Decide
<1>2. d.status = to /\ d.cursor = 0 /\ d.cards = cards /\ d.minted = request.minted /\ d.question = NoQuestion
    BY DEF Draft
<1>3. Missing(cards) = {}
    BY <1>1 DEF ConversationInv, ReviewedComplete
<1>4. to \in Statuses /\ to # "COLLECTING"
    BY DEF Statuses
<1> HIDE DEF d, to
<1>5. FinalFits(d)
    <2>1. KeepsMarks(cards)
        BY DraftIsFit DEF DraftFits, CardsInv
    <2> QED
        BY <1>2, <1>3, <1>4, <2>1 DEF FinalFits, Asks, CardsInv, NoQuestion
<1>6. /\ RequestFits'
      /\ RowsFit(cards', request'.minted)
      /\ Asks(request'.status, request'.cursor, cards', question')
    BY <1>1, <1>2, <1>4, <1>5, CommitFits
<1>7. UNCHANGED cards
    BY <1>1, <1>2 DEF Commit
<1> QED
    BY <1>6, <1>7 DEF RequestInv, RowsFit, Asks, AsksAboutCard, AsksAboutTarget, Missing

(* So do execution and its end.                                            *)
LEMMA MovesFit ==
    ASSUME ConversationInv, CardsInv, Reopen \/ Execute \/ \E status \in {"COMPLETED", "FAILED"} : ExecutionEnds(status)
    PROVE  RequestInv' /\ UNCHANGED cards
<1>1. UNCHANGED << cards, question, used, turns >>
    BY DEF Reopen, Execute, ExecutionEnds
<1>2. /\ request' \in [no : Nat, status : Statuses, purpose : {"NEW_CYCLE", "ACTIVE_CYCLE"},
                       cycle : 0 .. MaxCycles, cursor : Nat, minted : Nat]
      /\ request'.minted = request.minted
    <2>1. CASE Reopen
        BY <2>1 DEF Reopen, CardsInv, RequestFits, Statuses
    <2>2. CASE Execute
        BY <2>2 DEF Execute, CardsInv, RequestFits, Statuses
    <2>3. ASSUME NEW status \in {"COMPLETED", "FAILED"}, ExecutionEnds(status)
          PROVE  /\ request' \in [no : Nat, status : Statuses, purpose : {"NEW_CYCLE", "ACTIVE_CYCLE"},
                                  cycle : 0 .. MaxCycles, cursor : Nat, minted : Nat]
                 /\ request'.minted = request.minted
        BY <2>3 DEF ExecutionEnds, CardsInv, RequestFits, Statuses
    <2> QED
        BY <2>1, <2>2, <2>3
<1>3. Asks(request'.status, request'.cursor, cards, question)
    <2>1. CASE Reopen
        <3>1. request'.status = "CHANGE_INPUT" /\ Missing(cards) = {}
            BY <2>1 DEF Reopen, CardsInv, RequestFits, ConversationInv, ReviewedComplete
        <3> QED
            BY <1>2, <3>1 DEF Asks, CardsInv
    <2>2. CASE ~Reopen
        <3>1. request'.status \in {"EXECUTING", "COMPLETED", "FAILED"}
            BY <2>2 DEF Execute, ExecutionEnds, CardsInv, RequestFits
        <3> QED
            BY <1>2, <3>1 DEF Asks, CardsInv
    <2> QED
        BY <2>1, <2>2
<1>4. RequestFits'
    BY <1>1, <1>2 DEF RequestFits, CardsInv
<1>5. RowsFit(cards, request.minted)
    BY DEF CardsInv
<1> QED
    BY <1>1, <1>2, <1>3, <1>4, <1>5 DEF RequestInv, RowsFit, Asks, AsksAboutCard, AsksAboutTarget, Missing

(* A request that is gone has no cards and no question.                    *)
LEMMA ForgetFits ==
    ASSUME CardsInv, Forget
    PROVE  RequestInv' /\ OneEach(cards')
<1>1. request' = [request EXCEPT !.status = "NONE", !.purpose = "NEW_CYCLE", !.cycle = 0,
                                 !.cursor = 0, !.minted = 0]
    BY DEF Forget
<1>2. 0 \in 0 .. MaxCycles /\ 0 \in Nat
    BY ConstantsAssumption
<1>3. request' = [no |-> request.no, status |-> "NONE", purpose |-> "NEW_CYCLE", cycle |-> 0,
                  cursor |-> 0, minted |-> 0]
    BY <1>1 DEF CardsInv, RequestFits
<1>4. cards' = << >> /\ question' = NoQuestion /\ used' = {} /\ turns' = 0
    BY DEF Forget
<1>5. RequestFits'
    BY <1>2, <1>3, <1>4 DEF RequestFits, CardsInv, Statuses
<1>6. RowsFit(cards, request.minted)'
    BY <1>2, <1>3, <1>4 DEF RowsFit
<1>7. Asks(request.status, request.cursor, cards, question)'
    BY <1>2, <1>3, <1>4 DEF Asks, NoQuestion
<1>8. OneEach(cards')
    BY <1>4 DEF OneEach
<1> QED
    BY <1>5, <1>6, <1>7, <1>8 DEF RequestInv

(* Every step keeps the request in order, and only its creation can name   *)
(* an entity twice.                                                        *)
LEMMA StepsFit ==
    ASSUME ConversationInv, CardsInv, [Next]_vars
    PROVE  /\ RequestInv'
           /\ Current /\ OneEach(cards) => OneEach(cards')
<1> DEFINE Goal == RequestInv' /\ (Current /\ OneEach(cards) => OneEach(cards'))
<1>1. ASSUME UNCHANGED << request, cards, question, used, turns >>
      PROVE  Goal
    BY <1>1 DEF CardsInv, RequestInv, RequestFits, RowsFit, Asks, AsksAboutCard, AsksAboutTarget, Missing
<1>2. ASSUME NEW c \in Clients, FinishCreate(c)
      PROVE  Goal
    <2>1. ~Current
        BY <1>2 DEF FinishCreate, CreateFits
    <2> QED
        BY <1>2, <2>1, CreationFits
<1>3. ASSUME NEW c \in Clients, FinishMessage(c)
      PROVE  Goal
    BY <1>3, AnswerFits
<1>4. ASSUME NEW e \in Events, NEW decision, Decide(e, decision)
      PROVE  Goal
    BY <1>4, DecisionFits
<1>5. ASSUME Reopen \/ Execute \/ \E status \in {"COMPLETED", "FAILED"} : ExecutionEnds(status)
      PROVE  Goal
    BY <1>5, MovesFit
<1>6. ASSUME Delete \/ Acknowledge
      PROVE  Goal
    BY <1>6, ForgetFits DEF Delete, Acknowledge
<1>7. ASSUME NEW c \in Clients, NEW e \in Events,
             BeginMessage(c, e) \/ \E purpose \in {"NEW_CYCLE", "ACTIVE_CYCLE"} : BeginCreate(c, e, purpose)
      PROVE  UNCHANGED << request, cards, question, used, turns >>
    BY <1>7 DEF BeginMessage, BeginCreate
<1>8. ASSUME NEW c \in Clients, CreateRefused(c) \/ AnalysisFails(c) \/ StaleMessage(c)
      PROVE  UNCHANGED << request, cards, question, used, turns >>
    BY <1>8 DEF CreateRefused, AnalysisFails, StaleMessage
<1>9. ASSUME EndCycle \/ (\E t \in Tasks : TaskSettled(t)) \/ UNCHANGED vars
      PROVE  UNCHANGED << request, cards, question, used, turns >>
    BY <1>9 DEF EndCycle, TaskSettled, vars
<1> HIDE DEF Goal
<1>10. Goal
    BY <1>1, <1>2, <1>3, <1>4, <1>5, <1>6, <1>7, <1>8, <1>9 DEF Next
<1> QED
    BY <1>10 DEF Goal

(* Cycles are numbered from 1, and only entities of the cycle are live.    *)
LEMMA CyclesFit ==
    ASSUME CardsInv, [Next]_vars
    PROVE  CycleFits'
<1>1. ASSUME UNCHANGED << cycle, live >>
      PROVE  CycleFits'
    BY <1>1 DEF CardsInv, CycleFits
<1>2. ASSUME NEW status, ExecutionEnds(status)
      PROVE  CycleFits'
    <2>1. CASE cycle.no < MaxCycles /\ cycle' = [no |-> cycle.no + 1, active |-> TRUE] /\ live' = Entities
        <3>1. cycle.no + 1 \in 1 .. MaxCycles
            BY <2>1, ConstantsAssumption DEF CardsInv, CycleFits
        <3> QED
            BY <2>1, <3>1 DEF CycleFits
    <2>2. CASE live' \subseteq live /\ UNCHANGED cycle
        BY <2>2 DEF CardsInv, CycleFits
    <2> QED
        BY <1>2, <2>1, <2>2 DEF ExecutionEnds
<1>3. ASSUME NEW t, TaskSettled(t)
      PROVE  CycleFits'
    BY <1>3 DEF TaskSettled, CardsInv, CycleFits
<1>4. ASSUME EndCycle
      PROVE  CycleFits'
    BY <1>4 DEF EndCycle, CardsInv, CycleFits
<1>5. ASSUME NEW c \in Clients,
             FinishCreate(c) \/ CreateRefused(c) \/ AnalysisFails(c) \/ FinishMessage(c) \/ StaleMessage(c)
      PROVE  UNCHANGED << cycle, live >>
    BY <1>5 DEF FinishCreate, CreateRefused, AnalysisFails, FinishMessage, StaleMessage
<1>6. ASSUME NEW c \in Clients, NEW e \in Events,
             BeginMessage(c, e) \/ \E purpose \in {"NEW_CYCLE", "ACTIVE_CYCLE"} : BeginCreate(c, e, purpose)
      PROVE  UNCHANGED << cycle, live >>
    BY <1>6 DEF BeginMessage, BeginCreate
<1>7. ASSUME \/ Reopen \/ Delete \/ Execute \/ Acknowledge \/ UNCHANGED vars
             \/ \E e \in Events, decision \in {"YES", "NO"} : Decide(e, decision)
      PROVE  UNCHANGED << cycle, live >>
    BY <1>7 DEF Reopen, Delete, Execute, Acknowledge, Decide, vars
<1> QED
    BY <1>1, <1>2, <1>3, <1>4, <1>5, <1>6, <1>7 DEF Next

(* What a thread has read is kept until it writes.                         *)
LEMMA CallKept ==
    ASSUME CardsInv, NEW c \in Clients, NEW k, CallFits(k), call' = [call EXCEPT ![c] = k]
    PROVE  CallsFit'
<1>1. call = [x \in Clients |-> call[x]] /\ \A x \in Clients : CallFits(call[x])
    BY DEF CardsInv, CallsFit
<1>2. call' = [x \in Clients |-> IF x = c THEN k ELSE call[x]]
    BY <1>1
<1>3. \A x \in Clients : CallFits(call'[x])
    BY <1>1, <1>2
<1>4. call' = [x \in Clients |-> call'[x]]
    BY <1>2
<1> QED
    BY <1>3, <1>4 DEF CallsFit, CallFits

(* The candidates of a question are entities of its kind.                  *)
LEMMA ContextFits ==
    ASSUME CardsInv, DispatchKind # "refused"
    PROVE  /\ DispatchKind \in {"unresolved", "details"} =>
                 /\ ContextOf(DispatchKind).entity \in EntityKinds
                 /\ ContextOf(DispatchKind).kind # "REQUEST_ITEM" =>
                       \A x \in ContextOf(DispatchKind).ids :
                           x \in Entities /\ EntityOf(x) = ContextOf(DispatchKind).entity
           /\ DispatchKind = "edit" => ContextOf(DispatchKind).targets \subseteq Entities
<1>1. live \subseteq Entities /\ Tasks \intersect Schedules = {}
    BY ConstantsAssumption DEF CardsInv, CycleFits
<1>2. ASSUME NEW x \in CandidatesOf(question.entity), question.entity \in EntityKinds
      PROVE  x \in Entities /\ EntityOf(x) = question.entity
    BY <1>1, <1>2 DEF CandidatesOf, CandidateTasks, CandidateSchedules, EntityOf, EntityKinds, Entities
<1>3. CASE DispatchKind \in {"unresolved", "details"}
    <2>1. request.status = "COLLECTING" /\ question.type = DispatchKind
        BY <1>3 DEF DispatchKind
    <2>2. question.entity \in EntityKinds
        <3>1. CardQuestion(cards[request.cursor]).type \in {"card", "recurrence"}
            BY DEF CardQuestion
        <3> QED
            BY <1>3, <2>1, <3>1 DEF CardsInv, Asks, AsksAboutCard, AsksAboutTarget
    <2> DEFINE ctx == ContextOf(DispatchKind)
    <2>3. /\ ctx.entity = question.entity
          /\ ctx.kind = question.kind
          /\ question.kind # "REQUEST_ITEM" => ctx.ids \subseteq CandidatesOf(question.entity)
        BY <1>3 DEF ContextOf, LiveCandidates
    <2> HIDE DEF ctx
    <2> QED
        BY <1>2, <1>3, <2>2, <2>3 DEF ctx
<1>4. CASE DispatchKind \notin {"unresolved", "details"}
    <2>1. DispatchKind = "edit" => ContextOf(DispatchKind).targets = CandidateEntities
        BY DEF ContextOf
    <2>2. CandidateEntities \subseteq Entities
        BY <1>1 DEF CandidateEntities, CandidateTasks, CandidateSchedules
    <2> QED
        BY <1>4, <2>1, <2>2
<1> QED
    BY <1>3, <1>4

(* No step of one thread changes what another one keeps.                   *)
LEMMA CallsKeptFit ==
    ASSUME CardsInv, [Next]_vars
    PROVE  CallsFit'
<1>0. CallFits(Idle)
    BY DEF CallFits
<1>1. ASSUME UNCHANGED call
      PROVE  CallsFit'
    BY <1>1 DEF CardsInv, CallsFit, CallFits
<1>2. ASSUME NEW c \in Clients, NEW e \in Events, NEW purpose \in {"NEW_CYCLE", "ACTIVE_CYCLE"},
             BeginCreate(c, e, purpose)
      PROVE  CallsFit'
    <2> DEFINE no == IF purpose = "ACTIVE_CYCLE" THEN cycle.no ELSE 0
               targets == IF purpose = "ACTIVE_CYCLE" THEN live ELSE {}
               k == [op |-> "create", event |-> e, purpose |-> purpose, cycle |-> no, targets |-> targets]
    <2>1. no \in 0 .. MaxCycles /\ targets \in SUBSET Entities
        BY ConstantsAssumption DEF CardsInv, CycleFits
    <2>2. call' = [call EXCEPT ![c] = k]
        BY <1>2 DEF BeginCreate
    <2> HIDE DEF no, targets
    <2>3. CallFits(k)
        BY <2>1 DEF CallFits
    <2> HIDE DEF k
    <2> QED
        BY <2>2, <2>3, CallKept
<1>3. ASSUME NEW c \in Clients, NEW e \in Events, BeginMessage(c, e)
      PROVE  CallsFit'
    <2> DEFINE kind == DispatchKind
               ctx == ContextOf(DispatchKind)
               k == [op |-> "message", event |-> e, no |-> request.no, kind |-> kind, ctx |-> ctx]
    <2>1. call' = [call EXCEPT ![c] = k] /\ kind # "refused"
        BY <1>3 DEF BeginMessage, Answerable
    <2>2. /\ kind \in {"unresolved", "details"} =>
                 /\ ctx.entity \in EntityKinds
                 /\ ctx.kind # "REQUEST_ITEM" => \A x \in ctx.ids : x \in Entities /\ EntityOf(x) = ctx.entity
          /\ kind = "edit" => ctx.targets \subseteq Entities
        BY <2>1, ContextFits
    <2> HIDE DEF kind, ctx
    <2>3. CallFits(k)
        BY <2>2 DEF CallFits
    <2> HIDE DEF k
    <2> QED
        BY <2>1, <2>3, CallKept
<1>4. ASSUME NEW c \in Clients,
             FinishCreate(c) \/ CreateRefused(c) \/ AnalysisFails(c) \/ FinishMessage(c) \/ StaleMessage(c)
      PROVE  CallsFit'
    <2>1. call' = [call EXCEPT ![c] = Idle]
        BY <1>4 DEF FinishCreate, CreateRefused, AnalysisFails, FinishMessage, StaleMessage
    <2> QED
        BY <1>0, <2>1, CallKept
<1>5. ASSUME \/ Reopen \/ Delete \/ Execute \/ Acknowledge \/ EndCycle \/ UNCHANGED vars
             \/ \E e \in Events, decision \in {"YES", "NO"} : Decide(e, decision)
             \/ \E status \in {"COMPLETED", "FAILED"} : ExecutionEnds(status)
             \/ \E t \in Tasks : TaskSettled(t)
      PROVE  UNCHANGED call
    BY <1>5 DEF Reopen, Delete, Execute, Acknowledge, EndCycle, Decide, ExecutionEnds, TaskSettled, vars
<1> QED
    BY <1>1, <1>2, <1>3, <1>4, <1>5 DEF Next

(* Rows, questions and threads fit together in every state.                *)
LEMMA CardsInvariant == Spec => [](ConversationInv /\ CardsInv)
<1>1. Init => CardsInv
    <2> SUFFICES ASSUME Init
                 PROVE  CardsInv
        OBVIOUS
    <2>1. 0 \in 0 .. MaxCycles /\ 1 \in 1 .. MaxCycles
        BY ConstantsAssumption
    <2>2. RequestFits
        BY <2>1 DEF Init, RequestFits, Statuses
    <2>3. CycleFits
        BY <2>1 DEF Init, CycleFits
    <2>4. CallsFit
        BY DEF Init, CallsFit, CallFits
    <2>5. RowsFit(cards, request.minted)
        BY DEF Init, RowsFit
    <2>6. Asks(request.status, request.cursor, cards, question)
        BY DEF Init, Asks, NoQuestion
    <2> QED
        BY <2>2, <2>3, <2>4, <2>5, <2>6 DEF CardsInv
<1>2. ConversationInv /\ CardsInv /\ [Next]_vars => CardsInv'
    BY StepsFit, CyclesFit, CallsKeptFit DEF CardsInv, RequestInv
<1> QED
    BY <1>1, <1>2, ConversationInvariant, PTL DEF Spec

(***************************************************************************)
(* The counters                                                            *)
(***************************************************************************)
(* The threads that may still add to a counter are some of the clients.    *)
LEMMA ThreadsCount ==
    ASSUME NEW S \in SUBSET Clients
    PROVE  /\ IsFiniteSet(S)
           /\ Cardinality(S) \in Nat
           /\ Cardinality(S) <= Cardinality(Clients)
           /\ Cardinality(Clients) \in Nat
           /\ \A T \in SUBSET S : Cardinality(T) <= Cardinality(S)
           /\ \A c \in S : Cardinality(S \ {c}) = Cardinality(S) - 1
<1>1. IsFiniteSet(Clients)
    BY ConstantsAssumption
<1>2. IsFiniteSet(S) /\ Cardinality(S) <= Cardinality(Clients)
    BY <1>1, FS_Subset
<1>3. Cardinality(S) \in Nat /\ Cardinality(Clients) \in Nat
    BY <1>1, <1>2, FS_CardinalityType
<1>4. \A T \in SUBSET S : Cardinality(T) <= Cardinality(S)
    BY <1>2, FS_Subset
<1>5. \A c \in S : Cardinality(S \ {c}) = Cardinality(S) - 1
    BY <1>2, FS_RemoveElement
<1> QED
    BY <1>2, <1>3, <1>4, <1>5

(* A thread that writes, gives up or is refused leaves both sets.          *)
LEMMA ThreadLeaves ==
    ASSUME CallsFit, NEW c \in Clients, call' = [call EXCEPT ![c] = Idle]
    PROVE  Creating' = Creating \ {c} /\ Messaging' = Messaging \ {c}
<1>1. call' = [x \in Clients |-> IF x = c THEN Idle ELSE call[x]]
    BY DEF CallsFit
<1>2. \A x \in Clients : call'[x] = IF x = c THEN Idle ELSE call[x]
    BY <1>1
<1>3. Idle.op # "create" /\ Idle.op # "message"
    BY DEF Idle
<1> QED
    BY <1>2, <1>3 DEF Creating, Messaging

(* A thread that begins joins one of them.                                 *)
LEMMA ThreadJoins ==
    ASSUME CallsFit, NEW c \in Clients, call[c] = Idle, NEW k, call' = [call EXCEPT ![c] = k]
    PROVE  /\ k.op = "create" => Messaging' = Messaging
           /\ k.op = "message" => Creating' = Creating
<1>1. call' = [x \in Clients |-> IF x = c THEN k ELSE call[x]]
    BY DEF CallsFit
<1>2. \A x \in Clients : call'[x] = IF x = c THEN k ELSE call[x]
    BY <1>1
<1>3. Idle.op # "create" /\ Idle.op # "message"
    BY DEF Idle
<1> QED
    BY <1>2, <1>3 DEF Creating, Messaging

(* A thread counts what it adds before it adds it.                         *)
LEMMA CountersKept ==
    ASSUME CardsInv, CountersFit, [Next]_vars
    PROVE  CountersFit'
<1> DEFINE N == Cardinality(Clients)
<1>1. Creating \in SUBSET Clients /\ Messaging \in SUBSET Clients
    BY DEF Creating, Messaging
<1>2. Creating' \in SUBSET Clients /\ Messaging' \in SUBSET Clients
    BY DEF Creating, Messaging
<1>3. /\ request.no \in Nat /\ turns \in Nat /\ MaxRequests \in Nat /\ MaxTurns \in Nat /\ N \in Nat
      /\ Cardinality(Creating) \in Nat /\ Cardinality(Messaging) \in Nat
      /\ Cardinality(Creating') \in Nat /\ Cardinality(Messaging') \in Nat
      /\ Cardinality(Creating') <= N /\ Cardinality(Messaging') <= N
    BY <1>1, <1>2, ThreadsCount, ConstantsAssumption DEF CardsInv, RequestFits
<1>4. /\ request.no + Cardinality(Creating) <= MaxRequests + N
      /\ turns + Cardinality(Messaging) <= MaxTurns + N
    BY DEF CountersFit
<1> HIDE DEF N
<1>5. ASSUME request'.no = request.no, turns' = turns,
             Cardinality(Creating') <= Cardinality(Creating), Cardinality(Messaging') <= Cardinality(Messaging)
      PROVE  CountersFit'
    BY <1>3, <1>4, <1>5 DEF CountersFit, N
<1>6. ASSUME NEW c \in Clients, call' = [call EXCEPT ![c] = Idle]
      PROVE  /\ Creating' = Creating \ {c} /\ Messaging' = Messaging \ {c}
             /\ Cardinality(Creating') <= Cardinality(Creating)
             /\ Cardinality(Messaging') <= Cardinality(Messaging)
             /\ call[c].op = "create" => /\ Cardinality(Creating') = Cardinality(Creating) - 1
                                         /\ Cardinality(Messaging') <= N - 1
             /\ call[c].op = "message" => Cardinality(Messaging') = Cardinality(Messaging) - 1
    <2>1. Creating' = Creating \ {c} /\ Messaging' = Messaging \ {c}
        BY <1>6, ThreadLeaves DEF CardsInv
    <2>2. Cardinality(Creating \ {c}) <= Cardinality(Creating) /\ Cardinality(Messaging \ {c}) <= Cardinality(Messaging)
        BY <1>1, ThreadsCount
    <2>3. c \in Creating => Cardinality(Creating \ {c}) = Cardinality(Creating) - 1
        BY <1>1, ThreadsCount
    <2>4. c \in Messaging => Cardinality(Messaging \ {c}) = Cardinality(Messaging) - 1
        BY <1>1, ThreadsCount
    <2>5. Cardinality(Clients \ {c}) = N - 1
        BY ThreadsCount DEF N
    <2>6. Messaging \ {c} \in SUBSET (Clients \ {c})
        BY <1>1
    <2>7. Cardinality(Messaging \ {c}) <= N - 1
        BY <2>5, <2>6, ThreadsCount
    <2> QED
        BY <2>1, <2>2, <2>3, <2>4, <2>7 DEF Creating, Messaging
<1>7. ASSUME UNCHANGED << request, turns, call >>
      PROVE  CountersFit'
    BY <1>7 DEF CountersFit, Creating, Messaging
<1>8. ASSUME NEW c \in Clients, NEW e \in Events, NEW purpose \in {"NEW_CYCLE", "ACTIVE_CYCLE"},
             BeginCreate(c, e, purpose)
      PROVE  CountersFit'
    <2> DEFINE k == [op |-> "create", event |-> e, purpose |-> purpose,
                     cycle |-> IF purpose = "ACTIVE_CYCLE" THEN cycle.no ELSE 0,
                     targets |-> IF purpose = "ACTIVE_CYCLE" THEN live ELSE {}]
    <2>1. call' = [call EXCEPT ![c] = k] /\ k.op = "create"
        BY <1>8 DEF BeginCreate
    <2> HIDE DEF k
    <2>2. Messaging' = Messaging /\ request' = request /\ turns' = turns /\ request.no < MaxRequests
        BY <1>8, <2>1, ThreadJoins DEF BeginCreate, CardsInv
    <2> QED
        BY <1>3, <1>4, <2>2 DEF CountersFit, N
<1>9. ASSUME NEW c \in Clients, NEW e \in Events, BeginMessage(c, e)
      PROVE  CountersFit'
    <2> DEFINE k == [op |-> "message", event |-> e, no |-> request.no, kind |-> DispatchKind,
                     ctx |-> ContextOf(DispatchKind)]
    <2>1. call' = [call EXCEPT ![c] = k] /\ k.op = "message"
        BY <1>9 DEF BeginMessage
    <2> HIDE DEF k
    <2>2. Creating' = Creating /\ request' = request /\ turns' = turns /\ turns < MaxTurns
        BY <1>9, <2>1, ThreadJoins DEF BeginMessage, CardsInv
    <2> QED
        BY <1>3, <1>4, <2>2 DEF CountersFit, N
<1>10. ASSUME NEW c \in Clients, FinishCreate(c)
       PROVE  CountersFit'
    <2>1. call[c].op = "create" /\ call' = [call EXCEPT ![c] = Idle]
        BY <1>10 DEF FinishCreate
    <2>2. CASE request'.no = request.no + 1 /\ turns' = 1
        <3>1. Cardinality(Creating') = Cardinality(Creating) - 1 /\ Cardinality(Messaging') <= N - 1
            BY <1>6, <2>1
        <3> QED
            BY <1>3, <1>4, <2>2, <3>1 DEF CountersFit, N
    <2>3. CASE UNCHANGED << request, turns >>
        BY <1>5, <1>6, <2>1, <2>3
    <2> QED
        BY <1>10, <2>2, <2>3 DEF FinishCreate
<1>11. ASSUME NEW c \in Clients, FinishMessage(c)
       PROVE  CountersFit'
    <2>1. call[c].op = "message" /\ call' = [call EXCEPT ![c] = Idle]
        BY <1>11 DEF FinishMessage
    <2>2. CASE UNCHANGED << request, turns >>
        BY <1>5, <1>6, <2>1, <2>2
    <2>3. ASSUME NEW d, NEW e, Commit(d, e)
          PROVE  CountersFit'
        <3>1. request'.no = request.no /\ turns' = turns + 1
            BY <2>3 DEF Commit, CardsInv, RequestFits
        <3>2. Cardinality(Creating') <= Cardinality(Creating) /\ Cardinality(Messaging') = Cardinality(Messaging) - 1
            BY <1>6, <2>1
        <3> QED
            BY <1>3, <1>4, <3>1, <3>2 DEF CountersFit, N
    <2> QED
        BY <1>11, <2>2, <2>3 DEF FinishMessage
<1>12. ASSUME NEW c \in Clients, CreateRefused(c) \/ AnalysisFails(c) \/ StaleMessage(c)
       PROVE  CountersFit'
    <2>1. call' = [call EXCEPT ![c] = Idle] /\ request' = request /\ turns' = turns
        BY <1>12 DEF CreateRefused, AnalysisFails, StaleMessage
    <2> QED
        BY <1>5, <1>6, <2>1
<1>13. ASSUME NEW e, NEW decision, Decide(e, decision)
       PROVE  CountersFit'
    <2>1. request'.no = request.no /\ turns' = turns + 1 /\ turns < MaxTurns /\ call' = call
        BY <1>13 DEF Decide, Commit, CardsInv, RequestFits
    <2>2. Creating' = Creating /\ Messaging' = Messaging
        BY <2>1 DEF Creating, Messaging
    <2> QED
        BY <1>3, <1>4, <2>1, <2>2 DEF CountersFit, N
<1>14. ASSUME Reopen \/ Execute \/ \E status \in {"COMPLETED", "FAILED"} : ExecutionEnds(status)
       PROVE  CountersFit'
    <2>1. request'.no = request.no /\ turns' = turns /\ call' = call
        BY <1>14 DEF Reopen, Execute, ExecutionEnds, CardsInv, RequestFits
    <2>2. Creating' = Creating /\ Messaging' = Messaging
        BY <2>1 DEF Creating, Messaging
    <2> QED
        BY <1>3, <1>5, <2>1, <2>2
<1>15. ASSUME Delete \/ Acknowledge
       PROVE  CountersFit'
    <2>1. request'.no = request.no /\ turns' = 0 /\ call' = call
        BY <1>15 DEF Delete, Acknowledge, Forget, CardsInv, RequestFits
    <2>2. Creating' = Creating /\ Messaging' = Messaging
        BY <2>1 DEF Creating, Messaging
    <2> QED
        BY <1>3, <1>4, <2>1, <2>2 DEF CountersFit, N
<1>16. ASSUME EndCycle \/ (\E t \in Tasks : TaskSettled(t)) \/ UNCHANGED vars
       PROVE  UNCHANGED << request, turns, call >>
    BY <1>16 DEF EndCycle, TaskSettled, vars
<1> QED
    BY <1>7, <1>8, <1>9, <1>10, <1>11, <1>12, <1>13, <1>14, <1>15, <1>16 DEF Next

(* So the counters stay within their bounds and the threads on their way.  *)
LEMMA CountersInvariant == Spec => []CountersFit
<1>1. Init => CountersFit
    <2> SUFFICES ASSUME Init
                 PROVE  CountersFit
        OBVIOUS
    <2>1. Creating \in SUBSET Clients /\ Messaging \in SUBSET Clients
        BY DEF Creating, Messaging
    <2>2. /\ Cardinality(Creating) \in Nat /\ Cardinality(Creating) <= Cardinality(Clients)
          /\ Cardinality(Messaging) \in Nat /\ Cardinality(Messaging) <= Cardinality(Clients)
          /\ Cardinality(Clients) \in Nat
        BY <2>1, ThreadsCount
    <2>3. request.no = 0 /\ turns = 0 /\ MaxRequests \in Nat /\ MaxTurns \in Nat
        BY ConstantsAssumption DEF Init
    <2> QED
        BY <2>2, <2>3 DEF CountersFit
<1>2. CardsInv /\ CountersFit /\ [Next]_vars => CountersFit'
    BY CountersKept
<1>3. Spec => []CardsInv
    BY CardsInvariant, PTL
<1> QED
    BY <1>1, <1>2, <1>3, PTL DEF Spec

(***************************************************************************)
(* The question a thread answers                                           *)
(***************************************************************************)
(* As long as the totals of a card may still be given, the last message    *)
(* asks for them: the question goes on to another card only when they are. *)
HoldsQuestion(k) ==
    k.op = "message" =>
        /\ k.no \in Nat /\ k.no <= request.no
        /\ k.kind = "recurrence" /\ k.no = request.no /\ Current /\ MarkedCard(k.ctx.card) =>
              /\ request.status = "COLLECTING"
              /\ question = [type |-> "recurrence", card |-> k.ctx.card]

QuestionsHeld == \A c \in Clients : HoldsQuestion(call[c])

(* A message begins with the question that is asked.                       *)
LEMMA MessageHolds ==
    ASSUME CardsInv, NEW c \in Clients, NEW e, BeginMessage(c, e)
    PROVE  HoldsQuestion(call'[c])
<1>1. /\ call'[c].no = request.no /\ call'[c].kind = DispatchKind /\ call'[c].ctx = ContextOf(DispatchKind)
    BY DEF BeginMessage, CardsInv, CallsFit
<1>2. request.no \in Nat
    BY DEF CardsInv, RequestFits
<1>3. CASE DispatchKind = "recurrence"
    <2>1. request.status = "COLLECTING" /\ question.type = "recurrence"
        BY <1>3 DEF DispatchKind
    <2>2. AsksAboutCard(request.cursor, cards, question)
        BY <2>1 DEF CardsInv, Asks, AsksAboutTarget
    <2>3. question = [type |-> "recurrence", card |-> cards[request.cursor].id]
        BY <2>1, <2>2 DEF AsksAboutCard, CardQuestion
    <2>4. call'[c].ctx.card = question.card
        BY <1>1, <1>3 DEF ContextOf
    <2> QED
        BY <1>1, <1>2, <2>1, <2>3, <2>4 DEF HoldsQuestion
<1> QED
    BY <1>1, <1>2, <1>3 DEF HoldsQuestion

(* Another thread that gives a card its totals takes the question along.   *)
LEMMA AnswerHolds ==
    ASSUME ConversationInv, CardsInv, QuestionsHeld, NEW c \in Clients, FinishMessage(c),
           NEW x \in Clients, x # c
    PROVE  HoldsQuestion(call[x])'
<1> DEFINE k == call[c]
           h == call[x]
<1>1. call'[x] = h
    BY DEF FinishMessage, CardsInv, CallsFit
<1>2. CASE UNCHANGED << request, cards, question, used, turns >>
    BY <1>1, <1>2 DEF QuestionsHeld, HoldsQuestion, MarkedCard, Current
<1>3. CASE ~UNCHANGED << request, cards, question, used, turns >>
    <2>1. PICK d \in Outcomes(k) : d.refused = NoRefusal /\ Commit(d, k.event)
        BY <1>3 DEF FinishMessage
    <2>2. /\ k.op = "message" /\ CallFits(k) /\ Fits(k) /\ k.kind # "refused"
        BY DEF FinishMessage, CardsInv, CallsFit, ConversationInv, CallsAnswer, Answers
    <2>3. FinalFits(d)
        BY <2>1, <2>2, OutcomesFit
    <2>4. cards' = d.cards /\ question' = d.question /\ request'.status = d.status /\ request'.no = request.no
        BY <2>1 DEF Commit, CardsInv, RequestFits
    <2>5. d.cards \in Seq(Cards)
        BY <2>3 DEF FinalFits, RowsFit
    <2> SUFFICES ASSUME h.op = "message", h.kind = "recurrence", h.no = request.no, MarkedCard(h.ctx.card)'
                 PROVE  request'.status = "COLLECTING" /\ question' = [type |-> "recurrence", card |-> h.ctx.card]
        BY <1>1, <2>4 DEF QuestionsHeld, HoldsQuestion
    <2>6. PICK j \in 1 .. Len(d.cards) : d.cards[j].id = h.ctx.card /\ d.cards[j].marked
        BY <1>1, <2>4, <2>5 DEF MarkedCard
    <2>7. MarkedCard(h.ctx.card)
        BY <2>3, <2>6 DEF FinalFits, KeepsMarks
    <2>8. request.status = "COLLECTING" /\ question = [type |-> "recurrence", card |-> h.ctx.card]
        BY <2>2, <2>7 DEF QuestionsHeld, HoldsQuestion, Fits
    <2>9. k.kind = "recurrence"
        BY <2>2, <2>8 DEF Fits, DispatchKind
    <2>10. question = [type |-> "recurrence", card |-> k.ctx.card] /\ MarkedCard(k.ctx.card)
        BY <2>2, <2>9 DEF QuestionsHeld, HoldsQuestion, Fits
    <2>11. k.ctx.card = h.ctx.card
        <3>1. [type |-> "recurrence", card |-> k.ctx.card].card = [type |-> "recurrence", card |-> h.ctx.card].card
            BY <2>8, <2>10
        <3> QED
            BY <3>1
    <2>12. RowsFit(cards, request.minted) /\ d \in RecurrenceAnswers(k)
        BY <2>9 DEF CardsInv, Outcomes
    <2>13. \/ d.status = "COLLECTING" /\ d.question = [type |-> "recurrence", card |-> k.ctx.card]
           \/ \A n \in 1 .. Len(d.cards) : d.cards[n].id = k.ctx.card => ~d.cards[n].marked
        BY <2>10, <2>12, RecurrenceAnswersFit
    <2> QED
        BY <2>4, <2>6, <2>11, <2>13
<1> QED
    BY <1>2, <1>3

(* While the totals of a card are asked no step but an answer changes the  *)
(* cards or the question; a new request has a number of its own.           *)
LEMMA QuestionsStep ==
    ASSUME ConversationInv, CardsInv, QuestionsHeld, [Next]_vars
    PROVE  QuestionsHeld'
<1>1. ASSUME UNCHANGED << request, cards, question >>, NEW c \in Clients, call' = [call EXCEPT ![c] = call'[c]],
             HoldsQuestion(call'[c])
      PROVE  QuestionsHeld'
    <2>1. \A x \in Clients : x = c \/ call'[x] = call[x]
        BY <1>1 DEF CardsInv, CallsFit
    <2>2. \A x \in Clients : HoldsQuestion(call'[x])
        BY <1>1, <2>1 DEF QuestionsHeld
    <2> QED
        BY <1>1, <2>2 DEF QuestionsHeld, HoldsQuestion, MarkedCard, Current
<1>2. \A k : k.op # "message" => HoldsQuestion(k) /\ HoldsQuestion(k)'
    BY DEF HoldsQuestion
<1>3. ASSUME NEW c \in Clients, NEW e \in Events, NEW purpose \in {"NEW_CYCLE", "ACTIVE_CYCLE"},
             BeginCreate(c, e, purpose)
      PROVE  QuestionsHeld'
    <2>1. call'[c].op = "create" /\ call' = [call EXCEPT ![c] = call'[c]]
        BY <1>3 DEF BeginCreate, CardsInv, CallsFit
    <2> QED
        BY <1>1, <1>2, <1>3, <2>1 DEF BeginCreate
<1>4. ASSUME NEW c \in Clients, NEW e \in Events, BeginMessage(c, e)
      PROVE  QuestionsHeld'
    <2>1. call' = [call EXCEPT ![c] = call'[c]]
        BY <1>4 DEF BeginMessage, CardsInv, CallsFit
    <2> QED
        BY <1>1, <1>4, <2>1, MessageHolds DEF BeginMessage
<1>5. ASSUME NEW c \in Clients, CreateRefused(c) \/ AnalysisFails(c) \/ StaleMessage(c)
      PROVE  QuestionsHeld'
    <2>1. call'[c] = Idle /\ call' = [call EXCEPT ![c] = call'[c]]
        BY <1>5 DEF CreateRefused, AnalysisFails, StaleMessage, CardsInv, CallsFit
    <2>2. HoldsQuestion(call'[c])
        BY <1>2, <2>1 DEF Idle
    <2> QED
        BY <1>1, <1>5, <2>1, <2>2 DEF CreateRefused, AnalysisFails, StaleMessage
<1>6. ASSUME NEW c \in Clients, FinishMessage(c)
      PROVE  QuestionsHeld'
    <2>1. call'[c] = Idle
        BY <1>6 DEF FinishMessage, CardsInv, CallsFit
    <2>2. HoldsQuestion(call[c])'
        BY <2>1 DEF HoldsQuestion, Idle
    <2> QED
        BY <1>6, <2>2, AnswerHolds DEF QuestionsHeld
<1>7. ASSUME NEW c \in Clients, FinishCreate(c)
      PROVE  QuestionsHeld'
    <2>1. call'[c] = Idle /\ \A x \in Clients : x = c \/ call'[x] = call[x]
        BY <1>7 DEF FinishCreate, CardsInv, CallsFit
    <2>2. CASE UNCHANGED << request, cards, question, used, turns >>
        BY <2>1, <2>2 DEF QuestionsHeld, HoldsQuestion, MarkedCard, Current, Idle
    <2>3. CASE ~UNCHANGED << request, cards, question, used, turns >>
        <3>1. request'.no = request.no + 1 /\ request.no \in Nat
            BY <1>7, <2>3 DEF FinishCreate, CardsInv, RequestFits
        <3> QED
            BY <2>1, <3>1 DEF QuestionsHeld, HoldsQuestion, Idle
    <2> QED
        BY <2>2, <2>3
<1>8. ASSUME \/ UNCHANGED << request, cards, question >>
             \/ UNCHANGED cards /\ request.status # "COLLECTING" /\ Current
             \/ ~Current',
             UNCHANGED call, request'.no = request.no
      PROVE  QuestionsHeld'
    BY <1>8 DEF QuestionsHeld, HoldsQuestion, MarkedCard, Current
<1>9. ASSUME NEW e \in Events, NEW decision, Decide(e, decision)
      PROVE  UNCHANGED call /\ UNCHANGED cards /\ request.status # "COLLECTING" /\ Current /\ request'.no = request.no
    BY <1>9, DecisionFits DEF Decide, Commit, Current, CardsInv, RequestFits
<1>10. ASSUME Reopen \/ Execute \/ \E status \in {"COMPLETED", "FAILED"} : ExecutionEnds(status)
       PROVE  UNCHANGED call /\ UNCHANGED cards /\ request.status # "COLLECTING" /\ Current /\ request'.no = request.no
    BY <1>10 DEF Reopen, Execute, ExecutionEnds, Current, CardsInv, RequestFits
<1>11. ASSUME Delete \/ Acknowledge
       PROVE  UNCHANGED call /\ ~Current' /\ request'.no = request.no
    BY <1>11 DEF Delete, Acknowledge, Forget, Current, CardsInv, RequestFits
<1>12. ASSUME EndCycle \/ (\E t \in Tasks : TaskSettled(t)) \/ UNCHANGED vars
       PROVE  UNCHANGED call /\ UNCHANGED << request, cards, question >>
    BY <1>12 DEF EndCycle, TaskSettled, vars
<1> QED
    BY <1>3, <1>4, <1>5, <1>6, <1>7, <1>8, <1>9, <1>10, <1>11, <1>12 DEF Next

(* An answer that is taken was given to what is asked now.                 *)
LEMMA AnswerIsAsked ==
    ASSUME ConversationInv, CardsInv, QuestionsHeld, NEW c \in Clients, FinishMessage(c), turns' = turns + 1,
           NEW k, k = call[c]
    PROVE  CASE k.kind = "card" ->
                  /\ question = [type |-> "card", card |-> k.ctx.card, field |-> k.ctx.field]
                  /\ \A i \in DOMAIN cards :
                        cards[i].missing \ cards'[i].missing
                            \subseteq IF cards[i].id = k.ctx.card THEN {k.ctx.field} ELSE {}
             [] k.kind = "recurrence" -> question = [type |-> "recurrence", card |-> k.ctx.card]
             [] k.kind = "edit" -> request.status = "CHANGE_INPUT"
             [] OTHER -> question.type = k.kind /\ turns = k.ctx.turn
<1>1. turns \in Nat
    BY DEF CardsInv, RequestFits
<1>2. PICK d \in Outcomes(k) : cards' = d.cards
    BY <1>1 DEF FinishMessage, Commit
<1>3. k.op = "message" /\ Fits(k) /\ k.kind # "refused"
    BY DEF FinishMessage, ConversationInv, CallsAnswer, Answers
<1>4. RowsFit(cards, request.minted) /\ Asks(request.status, request.cursor, cards, question)
    BY DEF CardsInv
<1>5. CASE k.kind = "card"
    <2> DEFINE card == cards[request.cursor]
    <2>1. /\ request.status = "COLLECTING" /\ question.type \in {"none", "card"} /\ CursorCard
          /\ card.id = k.ctx.card /\ card.asked = k.ctx.field
        BY <1>3, <1>5 DEF Fits, DispatchKind
    <2>2. AsksAboutCard(request.cursor, cards, question)
        BY <1>4, <2>1 DEF Asks, AsksAboutTarget
    <2>3. ~card.marked /\ question = [type |-> "card", card |-> card.id, field |-> card.asked]
        BY <2>1, <2>2 DEF AsksAboutCard, AsksRight, CardQuestion
    <2>4. card.asked \in card.missing /\ card.status = "INFO_MISSING" /\ request.cursor \in 1 .. Len(cards)
        BY <2>2, <2>3 DEF AsksAboutCard, AsksRight
    <2>5. d \in CardAnswers(k)
        BY <1>5 DEF Outcomes
    <2>6. GivesOnly(k.ctx.field, cards')
        BY <1>2, <1>4, <2>1, <2>3, <2>4, <2>5, CardAnswersFit
    <2>7. DOMAIN cards = 1 .. Len(cards)
        BY <1>4 DEF RowsFit
    <2> HIDE DEF card
    <2>8. \A i \in DOMAIN cards :
              cards[i].missing \ cards'[i].missing \subseteq IF cards[i].id = k.ctx.card THEN {k.ctx.field} ELSE {}
        BY <2>1, <2>6, <2>7 DEF GivesOnly, card
    <2> QED
        BY <1>5, <2>1, <2>3, <2>8
<1>6. CASE k.kind = "recurrence"
    <2>1. question = [type |-> "recurrence", card |-> k.ctx.card]
        BY <1>3, <1>6 DEF QuestionsHeld, HoldsQuestion, Fits
    <2> QED
        BY <1>6, <2>1
<1>7. CASE k.kind = "edit"
    <2>1. request.status = "CHANGE_INPUT"
        BY <1>3, <1>7 DEF Fits, DispatchKind
    <2> QED
        BY <1>7, <2>1
<1>8. CASE k.kind \notin {"card", "recurrence", "edit"}
    <2>1. k.kind \in {"unresolved", "details"} /\ question.type = k.kind /\ turns = k.ctx.turn
        BY <1>3, <1>8 DEF Fits, DispatchKind
    <2> QED
        BY <1>8, <2>1
<1> QED
    BY <1>5, <1>6, <1>7, <1>8

(***************************************************************************)
(* Theorems                                                                *)
(***************************************************************************)
(* Rows, question, threads and counters keep their shapes, whatever the    *)
(* model answers and whoever else is at work.                              *)
THEOREM TypeCorrect == Spec => []TypeOK
<1>1. CardsInv /\ CountersFit => TypeOK
    <2> SUFFICES ASSUME CardsInv, CountersFit
                 PROVE  TypeOK
        OBVIOUS
    <2>1. Creating \in SUBSET Clients /\ Messaging \in SUBSET Clients
        BY DEF Creating, Messaging
    <2>2. Cardinality(Creating) \in Nat /\ Cardinality(Messaging) \in Nat /\ Cardinality(Clients) \in Nat
        BY <2>1, ThreadsCount
    <2>3. request.no \in Nat /\ turns \in Nat /\ MaxRequests \in Nat /\ MaxTurns \in Nat
        BY ConstantsAssumption DEF CardsInv, RequestFits
    <2>4. request.no \in 0 .. MaxRequests + Cardinality(Clients) /\ turns \in 0 .. MaxTurns + Cardinality(Clients)
        BY <2>2, <2>3 DEF CountersFit
    <2>5. request \in [no : 0 .. MaxRequests + Cardinality(Clients), status : Statuses,
                       purpose : {"NEW_CYCLE", "ACTIVE_CYCLE"}, cycle : 0 .. MaxCycles, cursor : Nat, minted : Nat]
        BY <2>4 DEF CardsInv, RequestFits
    <2>6. \A i \in DOMAIN cards : cards[i] \in Cards
        BY DEF CardsInv, RowsFit
    <2>7. \A c \in Clients : call[c] \in Calls \/ (call[c].op = "message" /\ call[c].event \in Events)
        BY DEF CardsInv, CallsFit, CallFits, Calls
    <2> QED
        BY <2>4, <2>5, <2>6, <2>7 DEF TypeOK, CardsInv, RequestFits, CycleFits, Asks
<1> QED
    BY <1>1, CardsInvariant, CountersInvariant, PTL

(* Merges, patches, cancellations and recurrences leave rows that the      *)
(* CHECK constraints of the table accept, and no id is given twice.        *)
THEOREM RowsAccepted == Spec => []CardRowsFit
<1>1. CardsInv => CardRowsFit
    BY DEF CardsInv, RowsFit, CardFits, CardRowsFit
<1> QED
    BY <1>1, CardsInvariant, PTL

(* A request that collects can go on: what the last message asks is what   *)
(* the card at the cursor misses, or it asks about a target.               *)
THEOREM CollectingGoesOn == Spec => []CollectingAsks
<1>1. CardsInv => CollectingAsks
    BY DEF CardsInv, RowsFit, Asks, AsksAboutCard, AsksAboutTarget, AsksRight, CollectingAsks
<1> QED
    BY <1>1, CardsInvariant, PTL

(* No sequence of patches makes a new task ready without a value it needs. *)
THEOREM NewTasksComplete == Spec => []NewTaskComplete
<1>1. CardsInv => NewTaskComplete
    BY DEF CardsInv, RowsFit, CardFits, NewTaskComplete
<1> QED
    BY <1>1, CardsInvariant, PTL

(* What a task update asks for is written when it is answered.             *)
THEOREM UpdatesWriteWhatTheyAsk == Spec => []AsksWhatItWrites
<1>1. CardsInv => AsksWhatItWrites
    BY DEF CardsInv, RowsFit, CardFits, AsksWhatItWrites
<1> QED
    BY <1>1, CardsInvariant, PTL

(* However late the model answers and whoever answered meanwhile, a late   *)
(* answer is taken only for the question it was asked about, gives nothing *)
(* but the field of that question, and takes nothing from another card.    *)
THEOREM AnswersFitQuestions == Spec => AnswersItsQuestion
<1>1. Init => QuestionsHeld
    BY DEF Init, QuestionsHeld, HoldsQuestion, Idle
<1>2. ConversationInv /\ CardsInv /\ QuestionsHeld /\ [Next]_vars => QuestionsHeld'
    BY QuestionsStep
<1>3. ASSUME ConversationInv, CardsInv, QuestionsHeld, [Next]_vars, NEW c \in Clients, Accepts(c)
      PROVE  FinishMessage(c)
    <2>1. call[c].op = "message" /\ call'[c] = Idle /\ turns' = turns + 1 /\ turns \in Nat
        BY <1>3 DEF Accepts, CardsInv, RequestFits
    <2>2. call'[c] # call[c] /\ turns' # turns /\ turns' # 0
        BY <2>1 DEF Idle
    <2>3. ASSUME NEW x \in Clients, FinishCreate(x) \/ FinishMessage(x)
          PROVE  FinishMessage(c)
        <3>1. x = c
            <4>1. call' = [call EXCEPT ![x] = Idle]
                BY <2>3 DEF FinishCreate, FinishMessage
            <4> QED
                BY <1>3, <2>2, <4>1 DEF CardsInv, CallsFit
        <3> QED
            BY <2>1, <2>3, <3>1 DEF FinishCreate
    <2>4. ASSUME NEW x \in Clients, NEW e \in Events,
                 \/ BeginMessage(x, e)
                 \/ \E purpose \in {"NEW_CYCLE", "ACTIVE_CYCLE"} : BeginCreate(x, e, purpose)
          PROVE  UNCHANGED turns
        BY <2>4 DEF BeginMessage, BeginCreate
    <2>5. ASSUME NEW e \in Events, NEW decision, Decide(e, decision)
          PROVE  UNCHANGED call
        BY <2>5 DEF Decide
    <2>6. ASSUME \/ Reopen \/ Delete \/ Execute \/ Acknowledge \/ EndCycle \/ UNCHANGED vars
                 \/ \E status \in {"COMPLETED", "FAILED"} : ExecutionEnds(status)
                 \/ \E t \in Tasks : TaskSettled(t)
          PROVE  UNCHANGED call
        BY <2>6 DEF Reopen, Delete, Execute, Acknowledge, EndCycle, ExecutionEnds, TaskSettled, vars
    <2>7. ASSUME NEW x \in Clients, CreateRefused(x) \/ AnalysisFails(x) \/ StaleMessage(x)
          PROVE  UNCHANGED turns
        BY <2>7 DEF CreateRefused, AnalysisFails, StaleMessage
    <2> QED
        BY <1>3, <2>2, <2>3, <2>4, <2>5, <2>6, <2>7 DEF Next
<1>4. ConversationInv /\ CardsInv /\ QuestionsHeld /\ [Next]_vars
          => [\A c \in Clients :
                Accepts(c) =>
                    LET k == call[c]
                    IN  CASE k.kind = "card" ->
                               /\ question = [type |-> "card", card |-> k.ctx.card, field |-> k.ctx.field]
                               /\ \A i \in DOMAIN cards :
                                     cards[i].missing \ cards'[i].missing
                                         \subseteq IF cards[i].id = k.ctx.card THEN {k.ctx.field} ELSE {}
                          [] k.kind = "recurrence" -> question = [type |-> "recurrence", card |-> k.ctx.card]
                          [] k.kind = "edit" -> request.status = "CHANGE_INPUT"
                          [] OTHER -> question.type = k.kind /\ turns = k.ctx.turn]_vars
    BY <1>3, AnswerIsAsked DEF Accepts
<1> QED
    BY <1>1, <1>2, <1>4, CardsInvariant, PTL DEF Spec, AnswersItsQuestion

(* Only a first message can give an entity two cards: whatever the user    *)
(* says later of an entity that has a card is merged into that card.       *)
THEOREM LaterMessagesMerge == Spec => [][Current /\ OneEach(cards) => OneEach(cards')]_vars
<1>1. ConversationInv /\ CardsInv /\ [Next]_vars => [Current /\ OneEach(cards) => OneEach(cards')]_vars
    BY StepsFit
<1> QED
    BY <1>1, CardsInvariant, PTL DEF Spec

(* Where a first message has one line, no entity ever has two cards.       *)
THEOREM OneCardEach == MaxLines <= 1 => (Spec => []OneCardPerTarget)
<1> SUFFICES ASSUME MaxLines <= 1
             PROVE  Spec => []OneCardPerTarget
    OBVIOUS
<1>1. Init => OneEach(cards)
    BY DEF Init, OneEach
<1>2. ConversationInv /\ CardsInv /\ OneEach(cards) /\ [Next]_vars => OneEach(cards)'
    <2> SUFFICES ASSUME ConversationInv, CardsInv, OneEach(cards), [Next]_vars
                 PROVE  OneEach(cards')
        BY DEF OneEach
    <2>1. CASE Current
        BY <2>1, StepsFit
    <2>2. CASE cards' = cards
        BY <2>2
    <2>3. CASE ~Current /\ cards' # cards
        <3>1. PICK c \in Clients : FinishCreate(c)
            <4>1. request.status = "NONE"
                BY <2>3 DEF Current
            <4>2. ~(\E c \in Clients : FinishMessage(c)) /\ ~Delete /\ ~Acknowledge
                  /\ ~(\E e \in Events, decision \in {"YES", "NO"} : Decide(e, decision))
                BY <2>3, <4>1 DEF FinishMessage, Fits, Delete, Acknowledge, Decide
            <4> QED
                BY <2>3, <4>2 DEF Next, BeginCreate, BeginMessage, CreateRefused, AnalysisFails, StaleMessage,
                    Reopen, Execute, ExecutionEnds, TaskSettled, EndCycle, vars
        <3>2. PICK a \in FirstAnalyses(call[c].targets) : cards' = FirstDraft(a).cards
            BY <2>3, <3>1 DEF FinishCreate
        <3>3. call[c].targets \in SUBSET Entities
            BY <3>1 DEF FinishCreate, CardsInv, CallsFit, CallFits, Idle
        <3>4. Len(cards') \in 0 .. MaxLines
            BY <3>2, <3>3, FirstDraftFits
        <3> QED
            BY <3>4, ConstantsAssumption DEF OneEach
    <2> QED
        BY <2>1, <2>2, <2>3
<1>3. OneEach(cards) /\ CardsInv => OneCardPerTarget
    BY DEF OneEach, OneCardPerTarget, CardsInv, RowsFit
<1> QED
    BY <1>1, <1>2, <1>3, CardsInvariant, PTL DEF Spec

=============================================================================
