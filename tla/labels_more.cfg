\* As labels, for further properties.
SPECIFICATION Spec
CONSTANT Names <- MCNames
CONSTANT Absent = Absent
CONSTANT Compositions <- MCCompositions
CONSTANT Offers <- MCOffers
CONSTANT Misspelt <- MCMisspelt
CONSTANT Synonyms <- MCSynonyms
CONSTANT Slips = {"value", "field", "segment"}
CONSTANT Settings <- MCSettings
CONSTANT PortSets <- MCPortSets
CONSTANT NetworkSets <- MCNetworkSets
CONSTANT MaxEdits = 2
INVARIANT TypeOK
INVARIANT RunningIsComplete
PROPERTY SpellingDoesNotMatter
INVARIANT DefaultBreaksNoStream
