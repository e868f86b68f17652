SPECIFICATION Spec
CONSTANTS
    t1 = t1
    t2 = t2
    t3 = t3
    u1 = u1
    None = None
    Turns = {t1, t2, t3}
    Users = {u1}
    UserOf <- ThreeUserOf
INVARIANTS EarlierMemorySettled
CHECK_DEADLOCK FALSE
