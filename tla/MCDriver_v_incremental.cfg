SPECIFICATION Spec
CONSTANTS
    NFiles = 2
    Texts = {"one", "two", "broken"}
    EarlyErrors = {"broken"}
    LateErrors = {"broken"}
    Missing = "missing"
    MaxTime = 2
    Projects <- Alone
INVARIANT AnyChangeCompiles
