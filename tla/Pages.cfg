SPECIFICATION Spec
CONSTANTS
    ThreadCount = 2
    Share <- OwnPages
    Sizes = {1, 2, 3}
    PageLength = 2
    Junk = {7}
    MaxLevels = 4
    MaxAdds = 3
INVARIANTS CountsExact FreeApart TablesKept
PROPERTY ImplementsVersions
