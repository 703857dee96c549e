\* Two admins whose roles may change between runs of the server.
CONSTANTS
    Admins = {tanaka, rao}
    BuiltIn <- MCBuiltIn
    CustomIds <- MCCustomIds
    Candidates <- MCCandidates
    Nobody = Nobody
    Absent = Absent
    NoFile = NoFile
    Torn = Torn
    MaxVersions = 3
SPECIFICATION Spec
INVARIANTS
    TypeOK
    SeparationOfDuties
    FileFollowsHistory
    MenuAsWanted
