CONSTANTS
    Symbols <- MCSymbols
    Traded <- MCTraded
    Etfs <- MCEtfs
    Broken <- LastSymbol
    LastSession = 3
    History = 3
    Recent = 2
    Limit = 3
    MaxFaults = 2
    MaxExpiries = 1
SPECIFICATION Spec
INVARIANTS
    FirstUnfinishedFirst
    UnavailableHasNoPrice
PROPERTIES
    ProbesAreSpaced
