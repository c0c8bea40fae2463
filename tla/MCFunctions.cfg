SPECIFICATION AllSpec
CONSTANTS
    noteA = noteA
    noteB = noteB
    Caller = {c1, c2}
    Note = {noteA, noteB}
    Inside = {noteB}
    Folder = folderF
    Text = {"old", "new"}
    Absent = absent
    Nil = nil
    Old <- MCOld
    Destructive = TRUE
    MaxBatch = 2
    MaxCall = 2
    MaxEdit = 1
    proc1 = proc1
    proc2 = proc2
    note1 = note1
    note2 = note2
    text1 = text1
    text2 = text2
    MaxChange = 2
    MaxQuery = 1
    req1 = req1
    req2 = req2
    MaxManifest = 1
    MaxSecond = 1
    MaxHostWrite = 1
SYMMETRY Symmetry
CONSTRAINT FewErrors
INVARIANTS TypesOK QueryFresh EditsCanBeUndone
    QueryExact EditsKeepTheRest PathHasOneName ReadsShowTheVault HitsReadBack AnswersInScope StaleIsRefreshed
    InterviewAsAnswered IndexesSettle ReplicasAnswer DoctorHeals LinksAgree BoundariesAreTheDays HistoryRetraced
PROPERTIES ConflictSafe DeletionsSpareNotes NoAppLosesItsServer
CHECK_DEADLOCK FALSE
