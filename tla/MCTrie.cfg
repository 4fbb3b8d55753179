\* Insert, Remove and GetValue in any order over the six keys of MCTrie.
CONSTANTS
    a = a
    b = b
    Int = Int
    Str = Str
    Chars <- MCChars
    Keys <- MCKeys
    Types <- MCTypes
    Payloads <- MCPayloads
    NoValue = NoValue
    BeforeBegin = BeforeBegin
SYMMETRY Symmetry
SPECIFICATION Spec
INVARIANT TypeOK
PROPERTY KeepsPromiseExceptRemoval
