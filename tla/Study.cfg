CONSTANTS
    pz1 = pz1
    r1 = r1
    r2 = r2
    Puzzles = {pz1}
    NoPuzzle = NoPuzzle
    SolutionLength <- MCSolutionLength
    MaxReports = 2
    MaxGets = 0
    ReviewedGames = {r1, r2}
    NoGameYet = NoGameYet
    Plies <- MCPlies
    Forced <- MCForced
    Sacrifices <- MCSacrifices
    Material <- MCMaterial
    Centipawns <- MCCentipawns
    Mated = Mated
    WinPermille <- MCWinPermille
    Corners = {{"TournamentsPage", "TournamentDetailPage"}, {"OtbManagerPage", "TournamentsPage"}, {"DashboardPage"}, {"ScheduledMatchesPage", "HistoryPage"}, {"ShopPage", "ProfilePage"}, {"SettingsPage", "LeaderboardPage"}, {"ClubsPage"}, {"AdminCard"}}
    MaxActions = 2
    MaxWaiting = 1
    entry = entry
    fee = fee
    board = board
    token = token
    h1 = h1
    h2 = h2
    Handlers <- MCHandlers
    EntryPayments = {entry}
    MatchPayments = {fee}
    Amount <- MCAmount
    Items = {board, token}
    Consumables = {token}
    Price <- MCPrice
    StartCoins = 3
    MaxRequests = 3
    MaxMatchRequests = 4
SPECIFICATION StudySpec
SYMMETRY Symmetry
INVARIANTS AttemptsAreShown ReviewIsJust OwnActionsShow CoinsAddUp OneGamePerMatch ConfirmedWasCharged
CHECK_DEADLOCK FALSE
