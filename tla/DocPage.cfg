SPECIFICATION FairSpec
CONSTANTS
  Queries <- ThreeQueries
  Hits <- ThreeHits
  Parents = {Depwatcher}
  Empty = ""
  NoText = "none"
  NoResult = NoResult
  NoKey = NoKey
  MaxDelayed = 2
  MaxEnters = 1
INVARIANTS
  TypeOK
  ListedIsTyped
  SavedIsTyped
  HighlightIsListed
  RememberedIsOpen
PROPERTY SearchIsShown
