SPECIFICATION LiveSpec
CONSTANTS
    Tokens = {t1, t2, t3, t4}
    NoToken = NoToken
    Inventories = {i1, i2}
    RotateAfter = 1
INVARIANTS
    SubscriptionCurrent
    NoForeignToken
PROPERTIES
    MakeBeforeBreak
    HandedOver
