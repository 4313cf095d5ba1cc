CONSTANTS
    Own = {a}
    Other = {b}
    Local = local
    Calls = {c1, c2}
    MaxChanges = 2
SPECIFICATION Spec
INVARIANTS AnswersFitTheAccount ListsFitTheAccounts
PROPERTIES AccountsAnswered
CHECK_DEADLOCK FALSE
