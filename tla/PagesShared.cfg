SPECIFICATION Spec
CONSTANTS
    ThreadCount = 2
    Share <- OnePage
    Sizes = {1}
    PageLength = 2
    Junk = {0}
    MaxLevels = 2
    MaxAdds = 2
INVARIANT AddsKept
