\* The Connect screen of the app and a host that edits its own file.
CONSTANTS
    Servers = {files, mail}
    Apps = {window1, window2}
    Hosts = {host}
    NoFile = NoFile
    Empty = Empty
    Garbled = Garbled
    MaxEdits = 2
SPECIFICATION Spec
INVARIANTS
    TypeOK
    FileAsLeft
