SPECIFICATION Spec
CONSTANTS
    People = {u1, u2}
    Roles = {"admin", "creator"}
    Invitations = {i1}
    Calls = {c1, c2}
    None = None
SYMMETRY Symmetry
INVARIANTS
    InvitationUsedOnce
PROPERTIES
    AdminsRemain
    RevokedNeverGrants
