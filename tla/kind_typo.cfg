\* A slip in the kind of a label.
SPECIFICATION Spec
CONSTANT Names <- MCNames
CONSTANT Absent = Absent
CONSTANT Compositions <- MCCompositions
CONSTANT Offers <- MCOffers
CONSTANT Misspelt <- MCMisspelt
CONSTANT Synonyms <- MCSynonyms
CONSTANT Slips = {"segment"}
CONSTANT Settings <- MCSettings
CONSTANT PortSets <- MCPortSets
CONSTANT NetworkSets <- MCNetworkSets
CONSTANT MaxEdits = 2
PROPERTY TypoKeepsHosts
