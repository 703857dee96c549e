\* A VM that is stopped in the middle of the chef's write.
CONSTANTS
    Gateways = {g1, g2}
    Kitchen = Kitchen
SPECIFICATION Spec
INVARIANTS
    SuccessIsWholeDraft
