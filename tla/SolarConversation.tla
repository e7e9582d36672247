------------------------- MODULE SolarConversation -------------------------
(***************************************************************************)
(* The conversation in which one user describes what has to be done, up to *)
(* FINAL_REVIEW: app/services/solar_request_service.py.                    *)
(*                                                                         *)
(* Creating a request and sending a message are three steps of a server    *)
(* thread: a transaction that reads (Begin...), a call to a language model *)
(* with no transaction open, and a transaction that writes (Finish...).    *)
(* Between them any other thread of the same user may run, and a client    *)
(* whose answer was lost sends the same client event again.  What the      *)
(* language model answers is any result its parser lets through.           *)
(*                                                                         *)
(* Data are abstracted to what decides control: a card is the set of       *)
(* fields it still misses and, for a fixed schedule, its two instants;     *)
(* titles, amounts and durations have no value, only a presence.           *)
(***************************************************************************)
EXTENDS Integers, FiniteSets, SequencesExt

CONSTANTS
    Clients,      \* threads of the server that serve this user
    Events,       \* client event ids
    Tasks,        \* tasks of a planning cycle
    Schedules,    \* fixed schedules of a planning cycle
    NoEntity,     \* the target of a card that creates something
    Fields,       \* the fields the language model may touch or miss
    AiAttempts,   \* attempt counts it may put in a question, 0 for no question
    MaxLines,     \* cards or operations in one answer of the model
    MaxTurns,     \* messages of the user in one request
    MaxRequests,  \* requests
    MaxCycles     \* planning cycles

Entities == Tasks \union Schedules

ASSUME ConstantsAssumption ==
    /\ NoEntity \notin Entities
    /\ Tasks \intersect Schedules = {}
    /\ AiAttempts \subseteq Nat
    /\ {MaxLines, MaxTurns, MaxRequests, MaxCycles} \subseteq Nat
    /\ MaxCycles # 0
    /\ IsFiniteSet(Clients)

(***************************************************************************)
(* Fields and cards                                                        *)
(***************************************************************************)
TaskFields == {"title", "deadlineAt", "estimatedMinutes", "remainingMinutes", "amount"}
ScheduleFields == {"title", "startAt", "endAt"}
TotalFields == {"deadlineAt", "estimatedMinutes", "amount"}
FieldsOf(entity) == IF entity = "TASK" THEN TaskFields ELSE ScheduleFields

(* The orders for new, merged and updated cards are one order restricted.  *)
MissingOrder ==
    << "title", "deadlineAt", "estimatedMinutes", "remainingMinutes", "amount", "startAt", "endAt" >>
Rank(f) == CHOOSE i \in DOMAIN MissingOrder : MissingOrder[i] = f
FirstMissing(missing) == CHOOSE f \in missing : \A g \in missing : Rank(f) <= Rank(g)

NoField == "none"
Recurrence == "unsupportedRecurrence"

NoTime == 0
Times == 0 .. 2
(* What a fixed schedule of the cycle holds.                               *)
RowTimes == [startAt |-> 1, endAt |-> 2]
Inverted(startAt, endAt) == startAt # NoTime /\ endAt # NoTime /\ endAt <= startAt

EntityOf(e) == IF e \in Tasks THEN "TASK" ELSE "FIXED_SCHEDULE"

Cards ==
    [id : Nat, entity : {"TASK", "FIXED_SCHEDULE"}, action : {"CREATE", "UPDATE", "DELETE"},
     status : {"INFO_MISSING", "READY"}, target : Entities \union {NoEntity},
     missing : SUBSET (TaskFields \union ScheduleFields), unset : SUBSET (TaskFields \union ScheduleFields),
     asked : TaskFields \union ScheduleFields \union {NoField, Recurrence}, attempts : Nat,
     marked : BOOLEAN, updateFields : SUBSET (TaskFields \union ScheduleFields),
     startAt : Times, endAt : Times]

IdsOf(cs) == {cs[i].id : i \in DOMAIN cs}
OrderOf(cs, id) == CHOOSE i \in DOMAIN cs : cs[i].id = id
Without(cs, id) == RemoveAt(cs, OrderOf(cs, id))

StatusFor(missing) == IF missing = {} THEN "READY" ELSE "INFO_MISSING"

Ask(card, field, attempts) == [card EXCEPT !.asked = field, !.attempts = attempts]

(* A card that misses fields asks for the first of them, any other card    *)
(* asks nothing.                                                           *)
WithMissing(card, missing) ==
    IF missing = {}
    THEN [Ask(card, NoField, 0) EXCEPT !.missing = {}, !.status = "READY"]
    ELSE [Ask(card, FirstMissing(missing), 1) EXCEPT !.missing = missing, !.status = "INFO_MISSING"]

EnsurePendingQuestion(card) ==
    CASE card.status # "INFO_MISSING" -> card
      [] card.status = "INFO_MISSING" /\ card.marked -> Ask(card, Recurrence, 0)
      [] OTHER -> IF card.asked = FirstMissing(card.missing) /\ card.attempts >= 1
                  THEN card
                  ELSE Ask(card, FirstMissing(card.missing), 1)

(***************************************************************************)
(* Questions: the metadata of the last message of the request              *)
(***************************************************************************)
NoQuestion == [type |-> "none"]
CardQuestion(card) ==
    IF card.asked = Recurrence
    THEN [type |-> "recurrence", card |-> card.id]
    ELSE [type |-> "card", card |-> card.id, field |-> card.asked]
UnresolvedQuestion(kind, action, entity, ids, key) ==
    [type |-> "unresolved", kind |-> kind, action |-> action, entity |-> entity, ids |-> ids, key |-> key]
DetailsQuestion(kind, entity, target) ==
    [type |-> "details", kind |-> kind, entity |-> entity, target |-> target]

(* The candidates are read under the key that belongs to the kind.         *)
Readable(q) == q.type = "unresolved" => q.key = q.kind

VARIABLES
    request,   \* the current request: number, status, purpose, cycle, cursor and the card ids given
    cards,     \* its cards by item_order
    question,  \* what its last message asks; turns tells this message from earlier ones
    used,      \* client events its messages carry
    turns,     \* messages and decisions of the user it has taken
    cycle,     \* number of the latest planning cycle and whether it is ACTIVE
    live,      \* entities of that cycle a change may still name
    call,      \* what each thread is doing
    refusal    \* why the step just taken has refused an answer, and its target

vars == << request, cards, question, used, turns, cycle, live, call, refusal >>

Statuses == {"NONE", "COLLECTING", "CHANGE_CONFIRMATION", "CHANGE_INPUT", "FINAL_REVIEW",
             "EXECUTING", "FAILED", "COMPLETED"}
Current == request.status # "NONE"
Idle == [op |-> "idle"]
NoRefusal == [why |-> "none", target |-> NoEntity]
Ambiguous(target) == [why |-> "ambiguous", target |-> target]
Crashed(target) == [why |-> "crashed", target |-> target]

CandidateTasks == IF request.cycle = cycle.no THEN live \intersect Tasks ELSE {}
CandidateSchedules == IF request.cycle = cycle.no THEN live \intersect Schedules ELSE {}
CandidatesOf(entity) == IF entity = "TASK" THEN CandidateTasks ELSE CandidateSchedules
CandidateEntities == CandidateTasks \union CandidateSchedules

RequestItemCandidates(action, entity, cs) ==
    {cs[i].id : i \in {j \in DOMAIN cs : cs[j].entity = entity /\ (action = "UPDATE" => cs[j].action = "CREATE")}}

Init ==
    /\ request = [no |-> 0, status |-> "NONE", purpose |-> "NEW_CYCLE", cycle |-> 0, cursor |-> 0, minted |-> 0]
    /\ cards = << >>
    /\ question = NoQuestion
    /\ used = {}
    /\ turns = 0
    /\ cycle \in [no : {1}, active : BOOLEAN]
    /\ live = IF cycle.active THEN Entities ELSE {}
    /\ call = [c \in Clients |-> Idle]
    /\ refusal = NoRefusal

(***************************************************************************)
(* A draft is the request while a transaction works on it.                 *)
(***************************************************************************)
Draft == [status |-> request.status, cursor |-> request.cursor, cards |-> cards,
          minted |-> request.minted, question |-> NoQuestion, refused |-> NoRefusal]

SetCard(d, i, card) == [d EXCEPT !.cards[i] = card]

(* The draft goes on with a question about card i, or without a question.  *)
AskCard(d, i, card) ==
    [status |-> "COLLECTING", cursor |-> i, cards |-> [d.cards EXCEPT ![i] = card],
     minted |-> d.minted, question |-> CardQuestion(card), refused |-> d.refused]
Settle(d, status) ==
    [status |-> status, cursor |-> 0, cards |-> d.cards,
     minted |-> d.minted, question |-> d.question, refused |-> d.refused]

Missing(cs) == {i \in DOMAIN cs : cs[i].status = "INFO_MISSING"}
FirstOpen(cs) == CHOOSE i \in Missing(cs) : \A j \in Missing(cs) : i <= j

\* Mutant of Recompute: a request that lost its last card is complete.
RecomputeEmptyDone(d) ==
    LET i == FirstOpen(d.cards)
    IN  IF Missing(d.cards) # {}
        THEN AskCard(d, i, EnsurePendingQuestion(d.cards[i]))
        ELSE Settle(d, "CHANGE_CONFIRMATION")

Recompute(d) ==
    LET i == FirstOpen(d.cards)
    IN  CASE d.cards = << >> -> Settle(d, "CHANGE_INPUT")
          [] Missing(d.cards) # {} -> AskCard(d, i, EnsurePendingQuestion(d.cards[i]))
          [] OTHER -> Settle(d, "CHANGE_CONFIRMATION")

\* Mutant of AdvanceCard: the card keeps asking for the field just given.
AdvanceKeepingQuestion(d, i, remaining) ==
    LET card == [d.cards[i] EXCEPT !.missing = remaining, !.status = StatusFor(remaining)]
    IN  IF remaining = {} THEN Recompute(SetCard(d, i, card)) ELSE AskCard(d, i, card)

AdvanceCard(d, i, remaining) ==
    LET card == WithMissing(d.cards[i], remaining)
    IN  IF remaining = {} THEN Recompute(SetCard(d, i, card)) ELSE AskCard(d, i, card)

Append1(d, card) ==
    [d EXCEPT !.cards = Append(@, [card EXCEPT !.id = d.minted + 1]), !.minted = @ + 1]

(***************************************************************************)
(* Lines and operations the parsers let through                            *)
(***************************************************************************)
TimesFor(fields) ==
    {t \in [startAt : Times, endAt : Times] :
        \A f \in {"startAt", "endAt"} \ fields : t[f] = NoTime}

OpenTimes(fields, t) == {f \in {"startAt", "endAt"} \intersect fields : t[f] = NoTime}

(* What an answer says of an entity: the fields it touches, those of them  *)
(* it leaves open, and the times it gives.                                 *)
Patches(entity, allowed) ==
    LET touched == (SUBSET (Fields \intersect allowed \intersect FieldsOf(entity))) \ {{}}
    IN  IF entity = "TASK"
        THEN {p \in [entity : {"TASK"}, fields : touched, missing : SUBSET Fields,
                     startAt : {NoTime}, endAt : {NoTime}] : p.missing \subseteq p.fields}
        ELSE UNION {{[entity |-> "FIXED_SCHEDULE", fields |-> f,
                      missing |-> OpenTimes(f, t) \union m, startAt |-> t.startAt, endAt |-> t.endAt] :
                        t \in TimesFor(f), m \in SUBSET ({"title"} \intersect f)} : f \in touched}

News(entity, allowed) ==
    IF entity = "TASK"
    THEN [entity : {"TASK"}, fields : {{}}, missing : SUBSET (Fields \intersect allowed),
          startAt : {NoTime}, endAt : {NoTime}]
    ELSE {[entity |-> "FIXED_SCHEDULE", fields |-> {}, missing |-> OpenTimes(ScheduleFields, t) \union m,
           startAt |-> t.startAt, endAt |-> t.endAt] :
              t \in IF {"startAt", "endAt"} \subseteq Fields THEN TimesFor(ScheduleFields) ELSE {RowTimes},
              m \in SUBSET ({"title"} \intersect Fields)}

Kinds == {EntityOf(e) : e \in Entities}

Blank == [id |-> 0, entity |-> "TASK", action |-> "CREATE", status |-> "READY", target |-> NoEntity,
          missing |-> {}, unset |-> {}, asked |-> NoField, attempts |-> 0, marked |-> FALSE,
          updateFields |-> {}, startAt |-> NoTime, endAt |-> NoTime]

(* The values of the target fill what an update does not touch.            *)
Backfilled(p) ==
    IF p.entity = "TASK" THEN p
    ELSE [p EXCEPT !.startAt = IF "startAt" \in p.fields THEN @ ELSE RowTimes.startAt,
                   !.endAt = IF "endAt" \in p.fields THEN @ ELSE RowTimes.endAt]

(* Outside CHANGE_INPUT the two times of an update are compared whether or *)
(* not they have a value; a missing one is an error nobody catches.        *)
ComparesNothing(p) == p.entity = "FIXED_SCHEDULE" /\ NoTime \in {Backfilled(p).startAt, Backfilled(p).endAt}
BackfillRefuses(p) == Inverted(Backfilled(p).startAt, Backfilled(p).endAt)

CardFrom(action, target, p, attempts) ==
    [Blank EXCEPT !.entity = p.entity, !.action = action, !.target = target,
                  !.missing = p.missing, !.unset = p.missing, !.status = StatusFor(p.missing),
                  !.asked = IF p.missing = {} \/ attempts = 0 THEN NoField ELSE FirstMissing(p.missing),
                  !.attempts = IF p.missing = {} THEN 0 ELSE attempts,
                  !.updateFields = p.fields, !.startAt = p.startAt, !.endAt = p.endAt]

DeleteCard(target) == CardFrom("DELETE", target, [entity |-> EntityOf(target), fields |-> {}, missing |-> {},
    startAt |-> IF target \in Schedules THEN RowTimes.startAt ELSE NoTime,
    endAt |-> IF target \in Schedules THEN RowTimes.endAt ELSE NoTime], 0)

(* A recurring task keeps none of the values of the line and asks for the  *)
(* totals of the seven days.                                               *)
MarkRecurring(card) ==
    [card EXCEPT !.missing = TotalFields, !.unset = @ \union TotalFields, !.status = "INFO_MISSING",
                 !.asked = Recurrence, !.attempts = 0, !.marked = TRUE]

(* A fixed schedule whose day cannot be told asks for both times anew.     *)
AskDate(card) ==
    [card EXCEPT !.missing = {"startAt", "endAt"}, !.unset = @ \union {"startAt", "endAt"},
                 !.status = "INFO_MISSING", !.asked = "startAt", !.attempts = 1,
                 !.startAt = NoTime, !.endAt = NoTime]

(* The lines of a first analysis.  Its questions carry no attempt count;   *)
(* reading one means 1.                                                    *)
FirstLines(targets) ==
    LET created == {[card |-> CardFrom("CREATE", NoEntity, p, 1), crashes |-> FALSE] :
                        p \in {q \in UNION {News(k, TotalFields) : k \in Kinds} : ~Inverted(q.startAt, q.endAt)}}
        updated == UNION {{[card |-> CardFrom("UPDATE", e, Backfilled(p), 1), crashes |-> ComparesNothing(p)] :
                               p \in {q \in Patches(EntityOf(e), TaskFields \union ScheduleFields) :
                                          ~BackfillRefuses(q)}} : e \in targets}
        deleted == {[card |-> DeleteCard(e), crashes |-> FALSE] : e \in targets}
        plain == created \union updated
    IN  plain \union deleted
              \union {[l EXCEPT !.card = MarkRecurring(@)] : l \in {m \in plain : m.card.entity = "TASK"}}
              \union {[l EXCEPT !.card = AskDate(@)] : l \in {m \in plain : m.card.entity = "FIXED_SCHEDULE"}}

FirstAnalyses(targets) ==
    LET unresolved == {UnresolvedQuestion("ENTITY", a, k, {e \in targets : EntityOf(e) = k}, "ENTITY") :
                           a \in {"UPDATE", "DELETE"}, k \in {EntityOf(e) : e \in targets}}
    IN  {a \in [lines : UNION {[1 .. n -> FirstLines(targets)] : n \in 0 .. MaxLines},
                unresolved : {NoQuestion} \union unresolved] :
            a.lines = << >> => a.unresolved # NoQuestion}

(***************************************************************************)
(* Creating a request                                                      *)
(***************************************************************************)
PurposeFits(purpose) == (purpose = "NEW_CYCLE") = ~cycle.active

(* A user who has a current request gets it back, or a refusal.            *)
BeginCreate(c, e, purpose) ==
    /\ call[c] = Idle
    /\ ~Current
    /\ PurposeFits(purpose)
    /\ request.no < MaxRequests
    /\ call' = [call EXCEPT ![c] =
           [op |-> "create", event |-> e, purpose |-> purpose,
            cycle |-> IF purpose = "ACTIVE_CYCLE" THEN cycle.no ELSE 0,
            targets |-> IF purpose = "ACTIVE_CYCLE" THEN live ELSE {}]]
    /\ refusal' = NoRefusal
    /\ UNCHANGED << request, cards, question, used, turns, cycle, live >>

CreateFits(k) ==
    /\ ~Current
    /\ PurposeFits(k.purpose)
    /\ k.purpose = "ACTIVE_CYCLE" => cycle.no = k.cycle

LineRefused(line) ==
    IF line.card.target \notin live \union {NoEntity} THEN Ambiguous(line.card.target)
    ELSE IF line.crashes THEN Crashed(line.card.target)
    ELSE NoRefusal

(* The first refusal of a sequence of lines.                               *)
FirstRefusal(lines) ==
    FoldLeft(LAMBDA r, l : IF r = NoRefusal THEN LineRefused(l) ELSE r, NoRefusal, lines)

Stored(lines) == [i \in DOMAIN lines |-> [lines[i].card EXCEPT !.id = i]]

(* An unresolved line is asked about first, then the first open card.      *)
FirstDraft(a) ==
    LET cs == Stored(a.lines)
        i == FirstOpen(cs)
        d == [status |-> "COLLECTING", cursor |-> 0, cards |-> cs, minted |-> Len(cs),
              question |-> a.unresolved, refused |-> FirstRefusal(a.lines)]
    IN  CASE a.unresolved # NoQuestion -> d
          [] a.unresolved = NoQuestion /\ Missing(cs) # {} -> AskCard(d, i, cs[i])
          [] OTHER -> Settle(d, "CHANGE_CONFIRMATION")

(* The write transaction.  Whoever finds a current request now creates     *)
(* nothing: the unique index on current requests decides between two       *)
(* transactions that both found none.                                      *)
FinishCreate(c) ==
    LET k == call[c]
    IN  /\ k.op = "create"
        /\ CreateFits(k)
        /\ \E a \in FirstAnalyses(k.targets) :
              LET d == FirstDraft(a)
              IN  IF d.refused = NoRefusal
                  THEN /\ request' = [no |-> request.no + 1, status |-> d.status, purpose |-> k.purpose,
                                      cycle |-> k.cycle, cursor |-> d.cursor, minted |-> d.minted]
                       /\ cards' = d.cards
                       /\ question' = d.question
                       /\ used' = {k.event}
                       /\ turns' = 1
                       /\ refusal' = NoRefusal
                  ELSE /\ refusal' = d.refused
                       /\ UNCHANGED << request, cards, question, used, turns >>
        /\ call' = [call EXCEPT ![c] = Idle]
        /\ UNCHANGED << cycle, live >>

CreateRefused(c) ==
    /\ call[c].op = "create"
    /\ ~CreateFits(call[c])
    /\ call' = [call EXCEPT ![c] = Idle]
    /\ refusal' = NoRefusal
    /\ UNCHANGED << request, cards, question, used, turns, cycle, live >>

(* The call to the model fails, or the process dies: nothing was written.  *)
AnalysisFails(c) ==
    /\ call[c].op \in {"create", "message"}
    /\ call' = [call EXCEPT ![c] = Idle]
    /\ refusal' = NoRefusal
    /\ UNCHANGED << request, cards, question, used, turns, cycle, live >>

(***************************************************************************)
(* What a message is an answer to                                          *)
(***************************************************************************)
CursorCard == request.cursor \in DOMAIN cards /\ cards[request.cursor].status = "INFO_MISSING"

DispatchKind ==
    CASE request.status = "COLLECTING" /\ question.type \in {"unresolved", "details", "recurrence"} ->
           question.type
      [] request.status = "COLLECTING" /\ question.type \in {"none", "card"} /\ CursorCard -> "card"
      [] request.status = "CHANGE_INPUT" -> "edit"
      [] OTHER -> "refused"

LiveCandidates(kind, action, entity, ids) ==
    ids \intersect (IF kind = "REQUEST_ITEM" THEN RequestItemCandidates(action, entity, cards)
                     ELSE CandidatesOf(entity))

MarkedCard(id) == \E i \in DOMAIN cards : cards[i].id = id /\ cards[i].marked

(* What the read transaction keeps for the call and for the write.         *)
ContextOf(kind) ==
    CASE kind = "card" ->
           [card |-> cards[request.cursor].id, field |-> cards[request.cursor].asked]
      [] kind = "recurrence" ->
           [card |-> question.card, patchable |-> cards[OrderOf(cards, question.card)].action = "CREATE"]
      [] kind = "unresolved" ->
           [turn |-> turns, kind |-> question.kind, action |-> question.action, entity |-> question.entity,
            ids |-> LiveCandidates(question.kind, question.action, question.entity, question.ids)]
      [] kind = "details" ->
           [turn |-> turns, kind |-> question.kind, action |-> "UPDATE", entity |-> question.entity,
            ids |-> LiveCandidates(question.kind, "UPDATE", question.entity, {question.target})]
      [] OTHER ->
           [items |-> {[id |-> cards[i].id, entity |-> cards[i].entity, action |-> cards[i].action] :
                           i \in DOMAIN cards},
            targets |-> CandidateEntities]

(* A question that cannot be read, or whose candidates are all gone, is    *)
(* refused before the model is asked.                                      *)
Answerable(kind) ==
    CASE kind = "refused" -> FALSE
      [] kind = "recurrence" -> MarkedCard(question.card)
      [] kind \in {"unresolved", "details"} -> Readable(question) /\ ContextOf(kind).ids # {}
      [] OTHER -> TRUE

BeginMessage(c, e) ==
    /\ call[c] = Idle
    /\ Current
    /\ e \notin used
    /\ turns < MaxTurns
    /\ Answerable(DispatchKind)
    /\ call' = [call EXCEPT ![c] = [op |-> "message", event |-> e, no |-> request.no,
                                    kind |-> DispatchKind, ctx |-> ContextOf(DispatchKind)]]
    /\ refusal' = NoRefusal
    /\ UNCHANGED << request, cards, question, used, turns, cycle, live >>

(***************************************************************************)
(* What a card answer does                                                 *)
(***************************************************************************)
AutoResolved == {"amount", "deadlineAt"}

CardAnswers(k) ==
    LET i == request.cursor
        card == cards[i]
        f == k.ctx.field
        filled == IF f \in {"startAt", "endAt"}
                  THEN {[card EXCEPT ![f] = t] : t \in Times \ {NoTime}}
                  ELSE {card}
        Resolve(c) == AdvanceCard(SetCard(Draft, i, [c EXCEPT !.unset = @ \ {f}]), i, card.missing \ {f})
        AskAgain(attempts) == [SetCard(Draft, i, Ask(card, f, attempts)) EXCEPT
                                   !.question = CardQuestion(Ask(card, f, attempts))]
        dontKnow == IF card.attempts >= 2 /\ f \in AutoResolved
                    THEN Resolve(card)
                    ELSE AskAgain(card.attempts + 1)
    IN  {Resolve(c) : c \in filled} \union {dontKnow, AskAgain(card.attempts)}

(* Only a single patch that gives the three totals of a card clears its    *)
(* marker, and the parser lets patches through for new cards only.         *)
RecurrenceAnswers(k) ==
    LET i == OrderOf(cards, k.ctx.card)
        card == cards[i]
        again == Ask([card EXCEPT !.status = "INFO_MISSING", !.missing = TotalFields], Recurrence, 0)
        cleared == WithMissing([card EXCEPT !.marked = FALSE, !.unset = @ \ TotalFields],
                               card.missing \ TotalFields)
    IN  {AskCard(Draft, i, again)}
        \union (IF k.ctx.patchable THEN {Recompute(SetCard(Draft, i, cleared))} ELSE {})

(***************************************************************************)
(* Changes to cards.  A refusal in the middle undoes the transaction.      *)
(***************************************************************************)
Refuse(d, why) == [d EXCEPT !.refused = IF @ = NoRefusal THEN why ELSE @]

\* Mutant of NormalizeTimes: the status of the card is not computed again.
NormalizeKeepingStatus(card) ==
    IF card.entity = "FIXED_SCHEDULE" /\ Inverted(card.startAt, card.endAt)
    THEN [WithMissing(card, card.missing \union {"endAt"}) EXCEPT !.status = card.status, !.endAt = NoTime]
    ELSE card

(* The end of a schedule that does not follow its start is asked anew.     *)
NormalizeTimes(card) ==
    IF card.entity = "FIXED_SCHEDULE" /\ Inverted(card.startAt, card.endAt)
    THEN WithMissing([card EXCEPT !.endAt = NoTime, !.unset = @ \union {"endAt"}],
                     card.missing \union {"endAt"})
    ELSE card

PatchedTime(fields, f, new, old) == IF f \in fields THEN new ELSE old

\* Mutant of ApplyCreateMergePatch: what the patch leaves open counts as given.
PatchIgnoringMissing(card, p) ==
    WithMissing([card EXCEPT !.unset = (@ \ p.fields) \union p.missing], card.missing \ p.fields)

\* Mutant of ApplyCreateMergePatch: the status of the card is not computed again.
PatchKeepingStatus(card, p) ==
    [card EXCEPT !.unset = (@ \ p.fields) \union p.missing, !.missing = (@ \ p.fields) \union p.missing]

(* The fields the patch names take its values, present or missing.         *)
ApplyCreateMergePatch(card, p) ==
    WithMissing([card EXCEPT !.unset = (@ \ p.fields) \union p.missing,
                             !.startAt = PatchedTime(p.fields, "startAt", p.startAt, @),
                             !.endAt = PatchedTime(p.fields, "endAt", p.endAt, @)],
                (card.missing \ p.fields) \union p.missing)

\* Mutant of Merged: the fields of the earlier update are forgotten, its
\* questions are not.
MergedForgettingFields(old, new) ==
    IF new.action = "DELETE" THEN [new EXCEPT !.id = old.id]
    ELSE WithMissing([new EXCEPT !.id = old.id], old.missing \union new.missing)

(* A card for an entity that has one already: the later action wins, two   *)
(* updates become one of all their fields.                                 *)
Merged(old, new) ==
    LET fields == IF old.action = "DELETE" THEN new.updateFields
                  ELSE old.updateFields \union new.updateFields
        base == IF old.action = "DELETE" THEN [new EXCEPT !.id = old.id]
                ELSE [old EXCEPT !.unset = (@ \ new.updateFields) \union (new.unset \intersect new.updateFields),
                                 !.startAt = PatchedTime(new.updateFields, "startAt", new.startAt, @),
                                 !.endAt = PatchedTime(new.updateFields, "endAt", new.endAt, @)]
        card == WithMissing([base EXCEPT !.updateFields = fields],
                            (old.missing \union new.missing) \intersect fields)
    IN  CASE new.action = "DELETE" -> [new EXCEPT !.id = old.id]
          [] new.action = "UPDATE" /\ card.missing # {} /\ new.attempts > 0 /\ card.asked = new.asked ->
               Ask(card, new.asked, new.attempts)
          [] OTHER -> card

\* Mutant of MergeInto: a change of mind is one more card.
MergeAppending(d, new) == Append1(d, new)

MergeInto(d, new) ==
    LET same == {i \in DOMAIN d.cards : d.cards[i].target = new.target}
        i == CHOOSE j \in same : \A n \in same : j <= n
    IN  IF same = {} THEN Append1(d, new) ELSE SetCard(d, i, Merged(d.cards[i], new))

ApplyRealTarget(d, new) ==
    IF new.target \in CandidateEntities THEN MergeInto(d, new) ELSE Refuse(d, Ambiguous(new.target))

CancelCard(d, id) ==
    IF id \in IdsOf(d.cards) THEN [d EXCEPT !.cards = Without(@, id)] ELSE Refuse(d, Ambiguous(id))

(***************************************************************************)
(* What an answer about a target does                                      *)
(***************************************************************************)
(* The target alone: enough to delete; for an update the next question is  *)
(* what to change.                                                         *)
ResolvedTargetOnly(ctx, x) ==
    LET known == IF ctx.kind = "REQUEST_ITEM" THEN x \in IdsOf(cards) ELSE x \in CandidateEntities
    IN  CASE ctx.action = "DELETE" /\ ctx.kind = "REQUEST_ITEM" -> Recompute(CancelCard(Draft, x))
          [] ctx.action = "DELETE" /\ ctx.kind = "ENTITY" -> Recompute(ApplyRealTarget(Draft, DeleteCard(x)))
          [] ctx.action = "UPDATE" /\ known ->
               [Draft EXCEPT !.status = "COLLECTING", !.cursor = 0,
                             !.question = DetailsQuestion(ctx.kind, ctx.entity, x)]
          [] OTHER -> Refuse(Draft, Ambiguous(x))

(* The target and the change.  The parser keeps no target kind here, so a  *)
(* card is looked up among the entities.                                   *)
ResolvedItems(ctx, x) ==
    CASE ctx.kind = "REQUEST_ITEM" -> {Refuse(Draft, Ambiguous(x))}
      [] ctx.kind = "ENTITY" /\ ctx.action = "DELETE" -> {Recompute(ApplyRealTarget(Draft, DeleteCard(x)))}
      [] OTHER ->
           {LET d == ApplyRealTarget(Draft, CardFrom("UPDATE", x, Backfilled(p), 1))
            IN  Recompute(IF ComparesNothing(p) THEN Refuse(d, Crashed(x)) ELSE d) :
                p \in {q \in Patches(ctx.entity, TaskFields \union ScheduleFields) : ~BackfillRefuses(q)}}

CandidateIds(kind, action, entity, cs) ==
    IF kind = "REQUEST_ITEM" THEN RequestItemCandidates(action, entity, cs) ELSE CandidatesOf(entity)

AskTarget(kind, action, entity, key) ==
    [Draft EXCEPT !.status = "COLLECTING", !.cursor = 0,
                  !.question = UnresolvedQuestion(kind, action, entity,
                                                  CandidateIds(kind, action, entity, cards), key)]

(* Still no single target: the candidates are stored under the key of      *)
(* entities, whatever they are.                                            *)
StillUnresolved(ctx) == AskTarget(ctx.kind, ctx.action, ctx.entity, "ENTITY")

TargetAnswers(k) ==
    (UNION {{ResolvedTargetOnly(k.ctx, x)} \union ResolvedItems(k.ctx, x) : x \in k.ctx.ids})
    \union (IF k.kind = "unresolved" THEN {StillUnresolved(k.ctx)} ELSE {})

(***************************************************************************)
(* What a free edit does                                                   *)
(***************************************************************************)
Adds == {[do |-> "ADD", ref |-> NoEntity, p |-> p, attempts |-> a] :
            p \in UNION {News(k, TaskFields \ {"remainingMinutes"}) : k \in Kinds}, a \in AiAttempts}

ItemOperations(items) ==
    {[do |-> "DELETE_ITEM", ref |-> i.id] : i \in items}
    \union UNION {{[do |-> "PATCH_ITEM", ref |-> i.id, p |-> p] :
                      p \in Patches(i.entity, FieldsOf(i.entity) \ {"remainingMinutes"})} :
                  i \in {j \in items : j.action = "CREATE"}}

EntityOperations(targets) ==
    {[do |-> "DELETE_ENTITY", ref |-> e] : e \in targets}
    \union UNION {{[do |-> "UPDATE_ENTITY", ref |-> e, p |-> p, attempts |-> a] :
                      p \in Patches(EntityOf(e), FieldsOf(EntityOf(e))), a \in AiAttempts} : e \in targets}

(* Of one answer no two operations name the same target.                   *)
OperationLists(ctx) ==
    LET operations == Adds \union ItemOperations(ctx.items) \union EntityOperations(ctx.targets)
    IN  {ops \in UNION {[1 .. n -> operations] : n \in 1 .. MaxLines} :
            \A i, j \in DOMAIN ops : i # j /\ ops[i].ref = ops[j].ref => ops[i].do = "ADD"}

PatchItem(d, o) ==
    IF o.ref \notin IdsOf(d.cards) \/ d.cards[OrderOf(d.cards, o.ref)].action # "CREATE"
    THEN Refuse(d, Ambiguous(o.ref))
    ELSE LET i == OrderOf(d.cards, o.ref)
         IN  SetCard(d, i, NormalizeTimes(ApplyCreateMergePatch(d.cards[i], o.p)))

ApplyOperation(d, o) ==
    CASE o.do = "ADD" -> Append1(d, NormalizeTimes(CardFrom("CREATE", NoEntity, [o.p EXCEPT !.fields = {}], o.attempts)))
      [] o.do = "PATCH_ITEM" -> PatchItem(d, o)
      [] o.do = "DELETE_ITEM" -> CancelCard(d, o.ref)
      [] o.do = "DELETE_ENTITY" -> ApplyRealTarget(d, DeleteCard(o.ref))
      [] o.do = "UPDATE_ENTITY" ->
           ApplyRealTarget(d, NormalizeTimes(CardFrom("UPDATE", o.ref, Backfilled(o.p), o.attempts)))

(* The model may name no target; nothing asks whether candidates exist.    *)
ChangeUnresolved ==
    {AskTarget(kind, action, entity, kind) :
        kind \in {"REQUEST_ITEM", "ENTITY"}, action \in {"UPDATE", "DELETE"}, entity \in Kinds}

ChangeAnswers(k) ==
    {Recompute(FoldLeft(ApplyOperation, Draft, ops)) : ops \in OperationLists(k.ctx)} \union ChangeUnresolved

(***************************************************************************)
(* Answering a message                                                     *)
(***************************************************************************)
\* Mutant of Fits: the idempotency check is made in the first transaction only.
FitsRepeated(k) ==
    /\ Current
    /\ request.no = k.no
    /\ DispatchKind = k.kind
    /\ k.kind = "card" => cards[request.cursor].id = k.ctx.card /\ cards[request.cursor].asked = k.ctx.field
    /\ k.kind = "recurrence" => MarkedCard(k.ctx.card)
    /\ k.kind \in {"unresolved", "details"} => turns = k.ctx.turn

\* Mutant of Fits: only the kind of the question is checked again.
FitsSameKind(k) ==
    /\ Current
    /\ request.no = k.no
    /\ k.event \notin used
    /\ DispatchKind = k.kind

(* The write transaction takes an answer that is still an answer to what   *)
(* is asked now.  A free edit only has to meet the same kind of moment.    *)
Fits(k) ==
    /\ Current
    /\ request.no = k.no
    /\ k.event \notin used
    /\ DispatchKind = k.kind
    /\ k.kind = "card" => cards[request.cursor].id = k.ctx.card /\ cards[request.cursor].asked = k.ctx.field
    /\ k.kind = "recurrence" => MarkedCard(k.ctx.card)
    /\ k.kind \in {"unresolved", "details"} => turns = k.ctx.turn

Outcomes(k) ==
    CASE k.kind = "card" -> CardAnswers(k)
      [] k.kind = "recurrence" -> RecurrenceAnswers(k)
      [] k.kind = "edit" -> ChangeAnswers(k)
      [] OTHER -> TargetAnswers(k)

Commit(d, e) ==
    /\ request' = [request EXCEPT !.status = d.status, !.cursor = d.cursor, !.minted = d.minted]
    /\ cards' = d.cards
    /\ question' = d.question
    /\ used' = used \union {e}
    /\ turns' = turns + 1

FinishMessage(c) ==
    LET k == call[c]
    IN  /\ k.op = "message"
        /\ Fits(k)
        /\ \E d \in Outcomes(k) :
              /\ refusal' = d.refused
              /\ IF d.refused = NoRefusal
                 THEN Commit(d, k.event)
                 ELSE UNCHANGED << request, cards, question, used, turns >>
        /\ call' = [call EXCEPT ![c] = Idle]
        /\ UNCHANGED << cycle, live >>

StaleMessage(c) ==
    /\ call[c].op = "message"
    /\ ~Fits(call[c])
    /\ call' = [call EXCEPT ![c] = Idle]
    /\ refusal' = NoRefusal
    /\ UNCHANGED << request, cards, question, used, turns, cycle, live >>

(***************************************************************************)
(* Decisions, reopening, deleting: one transaction each                    *)
(***************************************************************************)
\* Mutant of Decide: the decision is stored as the status.
DecideStoringDecision(e, decision) ==
    /\ Current
    /\ request.status = "CHANGE_CONFIRMATION"
    /\ e \notin used
    /\ turns < MaxTurns
    /\ Commit([Draft EXCEPT !.status = decision, !.cursor = 0], e)
    /\ refusal' = NoRefusal
    /\ UNCHANGED << cycle, live, call >>

Decide(e, decision) ==
    /\ Current
    /\ request.status = "CHANGE_CONFIRMATION"
    /\ e \notin used
    /\ turns < MaxTurns
    /\ Commit([Draft EXCEPT !.status = IF decision = "YES" THEN "CHANGE_INPUT" ELSE "FINAL_REVIEW",
                            !.cursor = 0], e)
    /\ refusal' = NoRefusal
    /\ UNCHANGED << cycle, live, call >>

Reopen ==
    /\ request.status = "FINAL_REVIEW"
    /\ request' = [request EXCEPT !.status = "CHANGE_INPUT", !.cursor = 0]
    /\ refusal' = NoRefusal
    /\ UNCHANGED << cards, question, used, turns, cycle, live, call >>

Forget ==
    /\ request' = [request EXCEPT !.status = "NONE", !.purpose = "NEW_CYCLE", !.cycle = 0,
                                  !.cursor = 0, !.minted = 0]
    /\ cards' = << >>
    /\ question' = NoQuestion
    /\ used' = {}
    /\ turns' = 0
    /\ refusal' = NoRefusal

Delete ==
    /\ request.status \in {"COLLECTING", "CHANGE_CONFIRMATION", "CHANGE_INPUT", "FINAL_REVIEW", "FAILED"}
    /\ Forget
    /\ UNCHANGED << cycle, live, call >>

(***************************************************************************)
(* Execution, as the conversation sees it: SolarExecution has the details. *)
(***************************************************************************)
Executable ==
    /\ \A i \in DOMAIN cards : ~cards[i].marked
    /\ PurposeFits(request.purpose)
    /\ request.purpose = "ACTIVE_CYCLE" =>
          /\ request.cycle = cycle.no
          /\ \A i \in DOMAIN cards : cards[i].action # "CREATE" => cards[i].target \in live

Execute ==
    /\ request.status \in {"FINAL_REVIEW", "FAILED"}
    /\ Executable
    /\ request' = [request EXCEPT !.status = "EXECUTING"]
    /\ refusal' = NoRefusal
    /\ UNCHANGED << cards, question, used, turns, cycle, live, call >>

(* A success makes the new cycle, or what the cards say of the current one.*)
ExecutionEnds(status) ==
    /\ request.status = "EXECUTING"
    /\ status = "COMPLETED" => Executable
    /\ request' = [request EXCEPT !.status = status]
    /\ CASE status = "COMPLETED" /\ request.purpose = "NEW_CYCLE" ->
              /\ cycle.no < MaxCycles
              /\ cycle' = [no |-> cycle.no + 1, active |-> TRUE]
              /\ live' = Entities
         [] status = "COMPLETED" /\ request.purpose = "ACTIVE_CYCLE" ->
              /\ live' = live \ {cards[i].target : i \in {j \in DOMAIN cards : cards[j].action = "DELETE"}}
              /\ UNCHANGED cycle
         [] OTHER -> UNCHANGED << cycle, live >>
    /\ refusal' = NoRefusal
    /\ UNCHANGED << cards, question, used, turns, call >>

Acknowledge ==
    /\ request.status = "COMPLETED"
    /\ Forget
    /\ UNCHANGED << cycle, live, call >>

(***************************************************************************)
(* The cycle goes on meanwhile: check-ins complete tasks, and a cycle ends *)
(* with its last day.  Fixed schedules have no status to lose.             *)
(***************************************************************************)
TaskSettled(t) ==
    /\ t \in live \intersect Tasks
    /\ live' = live \ {t}
    /\ refusal' = NoRefusal
    /\ UNCHANGED << request, cards, question, used, turns, cycle, call >>

EndCycle ==
    /\ cycle.active
    /\ cycle' = [cycle EXCEPT !.active = FALSE]
    /\ live' = live \ Tasks
    /\ refusal' = NoRefusal
    /\ UNCHANGED << request, cards, question, used, turns, call >>

Next ==
    \/ \E c \in Clients, e \in Events, purpose \in {"NEW_CYCLE", "ACTIVE_CYCLE"} : BeginCreate(c, e, purpose)
    \/ \E c \in Clients : FinishCreate(c) \/ CreateRefused(c) \/ AnalysisFails(c)
    \/ \E c \in Clients, e \in Events : BeginMessage(c, e)
    \/ \E c \in Clients : FinishMessage(c) \/ StaleMessage(c)
    \/ \E e \in Events, decision \in {"YES", "NO"} : Decide(e, decision)
    \/ Reopen
    \/ Delete
    \/ Execute
    \/ \E status \in {"COMPLETED", "FAILED"} : ExecutionEnds(status)
    \/ Acknowledge
    \/ \E t \in Tasks : TaskSettled(t)
    \/ EndCycle

Spec == Init /\ [][Next]_vars


(***************************************************************************)
(* Properties                                                              *)
(***************************************************************************)
Calls ==
    {Idle}
    \union [op : {"create"}, event : Events, purpose : {"NEW_CYCLE", "ACTIVE_CYCLE"}, cycle : 0 .. MaxCycles,
            targets : SUBSET Entities]

(* The rows and the metadata have the shapes the code reads.               *)
TypeOK ==
    /\ request \in [no : 0 .. MaxRequests + Cardinality(Clients), status : Statuses, purpose : {"NEW_CYCLE", "ACTIVE_CYCLE"},
                    cycle : 0 .. MaxCycles, cursor : Nat, minted : Nat]
    /\ \A i \in DOMAIN cards : cards[i] \in Cards
    /\ question.type \in {"none", "card", "recurrence", "unresolved", "details"}
    /\ used \subseteq Events
    /\ turns \in 0 .. MaxTurns + Cardinality(Clients)
    /\ cycle \in [no : 1 .. MaxCycles, active : BOOLEAN]
    /\ live \subseteq Entities
    /\ \A c \in Clients : call[c] \in Calls \/ (call[c].op = "message" /\ call[c].event \in Events)

(* Whatever sequence of answers, merges, patches and cancellations it went *)
(* through, a card is a row the CHECK constraints on solar_request_items   *)
(* accept: its target fits its action and its kind of entity, and it is    *)
(* INFO_MISSING exactly while it misses something.                         *)
CardRowsFit ==
    \A i \in DOMAIN cards :
        LET card == cards[i]
        IN  /\ (card.action = "CREATE") = (card.target = NoEntity)
            /\ card.target # NoEntity => EntityOf(card.target) = card.entity
            /\ (card.status = "INFO_MISSING") = (card.missing # {})
            /\ \A j \in DOMAIN cards : cards[j].id = card.id => i = j

(* A request that collects waits for something the user can answer: the    *)
(* last message asks the card at the cursor for the field its pending      *)
(* question names and which it really misses, or it asks about a target.   *)
(* Renumbering, merging and cancelling must all keep the three in step, or *)
(* the next message is refused for ever.                                   *)
CollectingAsks ==
    request.status = "COLLECTING" =>
        \/ /\ request.cursor \in DOMAIN cards
           /\ LET card == cards[request.cursor]
              IN  /\ question = CardQuestion(card)
                  /\ card.marked \/ card.asked \in card.missing
        \/ request.cursor = 0 /\ question.type \in {"unresolved", "details"}

(* What the user confirms or reviews, and what is executed, has cards and  *)
(* none of them misses anything.                                           *)
ReviewedComplete ==
    request.status \in {"CHANGE_CONFIRMATION", "FINAL_REVIEW", "EXECUTING", "FAILED", "COMPLETED"} =>
        cards # << >> /\ Missing(cards) = {}

(* A client event sent again, while its first copy is still being analysed *)
(* or after its answer was lost, is counted once.                          *)
EventOnce == turns = Cardinality(used)

(* A card for a new task that is ready has every value a task needs: a     *)
(* value a later patch took away again is missing again.                   *)
NewTaskComplete ==
    \A i \in DOMAIN cards :
        cards[i].action = "CREATE" /\ cards[i].entity = "TASK" => cards[i].unset \subseteq cards[i].missing

(* No entity has two cards, however often the user comes back to it.       *)
(* Execution stops with an error at the second one.  (Only messages of one *)
(* line are meant: a first message that names an entity in two lines gives *)
(* it two cards.)                                                          *)
OneCardPerTarget ==
    \A i, j \in DOMAIN cards : i # j /\ cards[i].target # NoEntity => cards[i].target # cards[j].target

(* What the update of a task still asks for is one of the fields it will   *)
(* write.  (That of a fixed schedule may ask for its end and not write it.) *)
AsksWhatItWrites ==
    \A i \in DOMAIN cards :
        cards[i].entity = "TASK" /\ cards[i].action = "UPDATE" /\ ~cards[i].marked =>
            cards[i].missing \subseteq cards[i].updateFields

(* A fixed schedule that reaches the review ends after it starts: the      *)
(* comment of the card answer validator leaves this to the service.        *)
ReviewedTimes ==
    request.status \in {"CHANGE_CONFIRMATION", "FINAL_REVIEW"} =>
        \A i \in DOMAIN cards :
            cards[i].action # "DELETE" /\ cards[i].entity = "FIXED_SCHEDULE" =>
                ~Inverted(cards[i].startAt, cards[i].endAt)

(* A question about a target can be answered: its candidates are read from *)
(* where they were written.                                                *)
QuestionReadable == Readable(question)

(* An answer is refused for its target only when the target has gone.      *)
RefusedTargetGone ==
    refusal.why = "ambiguous" => refusal.target \notin CandidateEntities \union IdsOf(cards)

(* An update that leaves a time of a fixed schedule open is asked about;   *)
(* it does not make the write transaction crash.                           *)
NeverCrashes == refusal.why # "crashed"

Accepts(c) == call[c].op = "message" /\ call'[c] = Idle /\ turns' = turns + 1

(* The model answers late, and the request may have changed in between: an *)
(* answer is applied only while the question it answers is still the last  *)
(* one, it fills no field but the one that was asked for, and it takes     *)
(* nothing away from any other card.                                       *)
AnswersItsQuestion ==
    [][\A c \in Clients :
          Accepts(c) =>
              LET k == call[c]
              IN  CASE k.kind = "card" ->
                         /\ question = [type |-> "card", card |-> k.ctx.card, field |-> k.ctx.field]
                         /\ \A i \in DOMAIN cards :
                               cards[i].missing \ cards'[i].missing
                                   \subseteq IF cards[i].id = k.ctx.card THEN {k.ctx.field} ELSE {}
                    [] k.kind = "recurrence" -> question = [type |-> "recurrence", card |-> k.ctx.card]
                    [] k.kind = "edit" -> request.status = "CHANGE_INPUT"
                    [] OTHER -> question.type = k.kind /\ turns = k.ctx.turn]_vars

(* The comment over the write transaction says it checks the cycle again:  *)
(* what is said about a cycle is taken only while that cycle lasts.        *)
AnswersInItsCycle ==
    [][\A c \in Clients :
          Accepts(c) /\ request.purpose = "ACTIVE_CYCLE" => cycle.active /\ request.cycle = cycle.no]_vars

(* The conversation keeps the promise of ConversationContract.             *)
Complete == cards # << >> /\ Missing(cards) = {}

Contract == INSTANCE ConversationContract
    WITH Events <- Events, status <- request.status, accepted <- used, complete <- Complete
ImplementsContract == Contract!Spec

=============================================================================
