CONSTANTS
  N <- MCN
  Graphs <- ReachableGraphs
SPECIFICATION FairSpec
INVARIANTS DomCorrect DomNeverLost ImmDomCorrect FrontierCorrect TreeSpansFunction
PROPERTY Terminates
