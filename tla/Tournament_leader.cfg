CONSTANTS
    alpha = alpha
    beta = beta
    gamma = gamma
    delta = delta
    epsilon = epsilon
    Entrants = {alpha, beta, gamma, delta}
    SeedRating <- MCSeedRating
    Owner = alpha
    Otb = {delta}
    MaxRounds = 2
    MaxChanges = 1
SPECIFICATION Spec
PROPERTIES
    LeaderMeetsNearest
CHECK_DEADLOCK FALSE
