\* A gateway, the app and the editor over one settings file.
CONSTANTS
    Caps = {read, pay}
    ConfirmCaps = {pay}
    Gateways = {gateway}
    Apps = {app}
    Editors = {editor}
    NoFile = NoFile
    Empty = Empty
    Garbled = Garbled
    MaxChoices = 2
SPECIFICATION Spec
CHECK_DEADLOCK FALSE
INVARIANTS
    TypeOK
    SavedChoiceStands
    BlockHolds
    NothingInvented
    GateStaysShut
