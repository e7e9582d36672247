------------------------ MODULE MCSolarConversation ------------------------
(***************************************************************************)
(* Small instances of SolarConversation for TLC.                           *)
(***************************************************************************)
EXTENDS SolarConversation, TLC

CONSTANTS c1, c2, e1, e2, e3, e4, t1, t2, s1, none

OneClient == {c1}
TwoClients == {c1, c2}
NoEntities == {}
OneTask == {t1}
TwoTasks == {t1, t2}
OneSchedule == {s1}
DeadlineAndAmount == {"deadlineAt", "amount"}
TitleAndDeadline == {"title", "deadlineAt"}
Amounts == {"amount"}
StartAndEnd == {"startAt", "endAt"}
TitleAndTimes == {"title", "startAt", "endAt"}
Ends == {"endAt"}
ThreeEvents == {e1, e2, e3}
FourEvents == {e1, e2, e3, e4}
OneAttempt == {1}
Unasked == {0, 1}

AllClientsAndEvents == Permutations(TwoClients) \union Permutations(FourEvents)
SomeEvents == Permutations(ThreeEvents)
ManyEvents == Permutations(FourEvents)
=============================================================================
