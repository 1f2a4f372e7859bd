CONSTANTS
    Symbols <- FewSymbols
    Traded <- FewTraded
    Etfs <- FirstSymbol
    Broken <- NoSymbols
    LastSession = 3
    History = 2
    Recent = 1
    Limit = 1
    MaxFaults = 2
    MaxExpiries = 1
SPECIFICATION FairSpec
PROPERTIES
    EveryPairIsCollected
