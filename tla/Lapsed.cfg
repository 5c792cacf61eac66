SPECIFICATION AccessSpec
CONSTANTS
    root = root
    user = user
    lab = lab
    club = club
    team = team
    public = public
    Users = {root, user}
    Admins = {root}
    Groups = {lab, club, team, public}
    GroupType <- MCGroupType
    Requests = {r1}
    MaxRequests = 4
    Asked = {20, 30}
    Agendas <- MCAgendaLapsed
    Configs <- MCConfigs
    MaxBoots = 1
    InitialAccess <- MCAccess
PROPERTIES
    LapsedGivesNothing
CHECK_DEADLOCK FALSE
