SPECIFICATION Spec
CONSTANTS
    Editor = {ed}
    Part = {rule}
    Erasable = {rule}
    MaxRevision = 2
    MaxLog = 2
    None = None
    Fetch = {f1, f2}
SYMMETRY Symm
INVARIANTS IndInv RevisionPublishedOnce FetchesAreCurrent
PROPERTY PublishedIsReviewed
CHECK_DEADLOCK FALSE
