CONSTANTS
    ann = ann
    bob = bob
    a1 = a1
    b1 = b1
    w1 = w1
    w2 = w2
    t1 = t1
    t2 = t2
    t3 = t3
    r1 = r1
    r2 = r2
    Nobody = Nobody
    None = None
    Accounts = {a1, b1}
    Emails = {ann, bob}
    EmailOf <- MCEmailOf
    Browsers = {w1, w2}
    Tokens = {t1, t2, t3}
    Requests = {r1, r2}
SPECIFICATION Spec
SYMMETRY Symmetry
INVARIANTS
    TypeOK
    OwnerIsCaller
    ListedIsCallers
    PostedIsListed
PROPERTY EndedStaysEnded
