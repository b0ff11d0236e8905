SPECIFICATION LifeSpec
CONSTANTS
    Dates = {1, 2}
    MaxDrops = 2
    MaxCrashes = 0
PROPERTY NewestWins
