CONSTANTS
    h1 = h1
    Handlers = {h1}
    MaxPages = 2
    MaxMessages = 2
SPECIFICATION Spec
PROPERTIES
    BackReturns
