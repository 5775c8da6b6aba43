SPECIFICATION EitherSpec
CONSTANTS
    None = None
    standing = standing
    ann = ann
    bob = bob
    clerk = clerk
    admin = admin
    north = north
    south = south
    agent = agent
    plain = plain
    fancy = fancy
    Request = {r1, r2, r3}
    MaxInFlight = 3
    Address = {ann, bob}
    Role = {clerk, admin}
    SystemRole = {admin}
    Joined = {bob}
    Standing = {standing}
    Call <- SomeCalls
    User = {ann, bob}
    Item = {north, south, agent}
    Reinsurer = {}
    RiskCompany = {south}
    Terms = {plain, fancy}
    Earlier <- SomeEarlier
    TreatyCall <- SomeTreatyCalls
SYMMETRY Symmetry
INVARIANTS
    AccountsFromOpenInvites
    InviteTellsAccount
    MixedOnlyWithoutLock
    HeaderInList
PROPERTIES
    RoleRemovalSeesUsers
    RemovedComesBackByOverlap
    HeaderLostByOverlap
CHECK_DEADLOCK FALSE
