SPECIFICATION AccessSpec
CONSTANTS
    root = root
    user = user
    lab = lab
    club = club
    team = team
    public = public
    Users = {root, user}
    Admins = {root}
    Groups = {lab, club, team, public}
    GroupType <- MCGroupType
    Requests = {r1, r2}
    MaxRequests = 3
    Asked = {20, 30}
    Agendas <- MCAgendas
    Configs <- MCConfigs
    MaxBoots = 1
    InitialAccess <- MCAccess
SYMMETRY MCSymmetry
INVARIANTS
    AccessTypeOK
    GroupKeepsEditor
    ProjectKeepsOwner
    PurgedGrantsNothing
    BootBlockedByPurge
PROPERTIES
    GrantsWithinRights
    SyncReconciles
CHECK_DEADLOCK FALSE
