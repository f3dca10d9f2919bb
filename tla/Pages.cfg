CONSTANTS
    Db = {d1, d2}
    Tab = {t1, t2}
    None = None
    Lists <- MCLists
    Click = {"click"}
    Task = {"task"}
    Card = {"load"}
    Nil = Nil
    s1 = s1
    s2 = s2
    a = a
    b = b
    c = c
SPECIFICATION Spec
INVARIANT TypeOK
INVARIANT QuietRowIsChanging
INVARIANT ChartUnderItsHeading
PROPERTY EveryRowWakes
PROPERTY PageCatchesUp
PROPERTY StatsCatchUp
PROPERTY ChartCatchesUp
