SPECIFICATION TablesSpec
CONSTANTS
    Credits <- TwoCredits
    Semester <- TwoSemesters
    DaysPerYear = 3
    TicksPerDay = 4
    Users = {u1}
    Departments = {d1, d2}
    Programs = {p1, p2}
    Batches = {b1, b2}
    Sections = {c1, c2}
    NoId = NoId
    LowerCase <- FoldCase
    ActiveDepartments <- Accepting
    KnownSections <- OneSection
INVARIANTS FiguresAgree AudienceReadsIt ImportRestarts
CHECK_DEADLOCK FALSE
