SPECIFICATION FairSpec
CONSTANTS
    i1 = i1
    i2 = i2
    a1 = a1
    a2 = a2
    c1 = c1
    c2 = c2
    c3 = c3
    s1 = s1
    s2 = s2
    plain = plain
    shot = shot
    both = both
    wrong = wrong
    None = None
    Intents = {i1}
    Attachments = {a1, a2}
    Submissions = {s1}
    Calls = {c1, c2}
    Payloads = {both}
    IntentMaxUploads = 2
    Screenshots <- MCScreenshots
    Invalid <- MCInvalid
    Misplaced <- MCMisplaced
CHECK_DEADLOCK FALSE
INVARIANTS
    OnlyDiscardsLoseScreenshots
    BoundBytesOwned
PROPERTIES
    RequestsEnd
    DeletedBytesRemoved
