\* Two changes of the labels at a time, slips in values, fields and segments.
SPECIFICATION Spec
CONSTANT Names <- MCNames
CONSTANT Absent = Absent
CONSTANT Compositions <- MCCompositions
CONSTANT Offers <- MCOffers
CONSTANT Misspelt <- MCMisspelt
CONSTANT Synonyms <- MCSynonyms
CONSTANT Slips = {"value", "field", "segment"}
CONSTANT Settings <- MCSettings
CONSTANT PortSets <- MCPortSets
CONSTANT NetworkSets <- MCNetworkSets
CONSTANT MaxEdits = 2
PROPERTY UnreadableKeepsHosts
INVARIANT NoSilentChange
PROPERTY OthersUnaffected
INVARIANT StoppedIsIdle
