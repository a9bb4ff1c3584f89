SPECIFICATION Spec
CONSTANTS
    i1 = i1
    i2 = i2
    a1 = a1
    a2 = a2
    c1 = c1
    c2 = c2
    c3 = c3
    s1 = s1
    s2 = s2
    plain = plain
    shot = shot
    both = both
    wrong = wrong
    None = None
    Intents = {i1}
    Attachments = {a1}
    Submissions = {s1, s2}
    Calls = {c1, c2, c3}
    Payloads = {plain, shot, wrong}
    IntentMaxUploads = 1
    Screenshots <- MCScreenshots
    Invalid <- MCInvalid
    Misplaced <- MCMisplaced
SYMMETRY Symmetry
CHECK_DEADLOCK FALSE
INVARIANTS
    OneSubmissionPerIntent
    UploadsWithinSlots
    QueuedAnnounceLive
PROPERTIES
    RetryContract
