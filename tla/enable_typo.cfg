\* A slip in the value of the enable label.
SPECIFICATION Spec
CONSTANT Names <- MCNames
CONSTANT Absent = Absent
CONSTANT Compositions <- MCCompositions
CONSTANT Offers <- MCOffers
CONSTANT Misspelt <- MCMisspelt
CONSTANT Synonyms <- MCSynonyms
CONSTANT Slips = {"enable"}
CONSTANT Settings <- MCSettings
CONSTANT PortSets <- MCPortSets
CONSTANT NetworkSets <- MCNetworkSets
CONSTANT MaxEdits = 2
PROPERTY TypoKeepsHosts
