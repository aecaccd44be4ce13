CONSTANTS
    x = x  y = y  obj = obj
    Strings = {x, y}
    Objects = {obj}
    Spellings = {1, 2}
    Statements <- MCStatements
    Critical = {{}, {"value"}, {"unheard_of"}, {"custom"}}
    CustomOperators = {"custom"}
    Inputs <- MCInputs
    MaxStatements = 2
SPECIFICATION Spec
INVARIANTS SuperiorsObeyed ApplyIdempotent OrderIrrelevant
CHECK_DEADLOCK FALSE
