SPECIFICATION FairSpec
CONSTANTS
  v1 = v1
  m1 = m1
  Supported = {v1}
  Handshake = {v1}
  Revisions <- MCRevisions
  Modern = m1
  Missing = Missing
  Malformed = Malformed
  Unknown = Unknown
  NoEra = NoEra
  Strays <- MCStrays
  Foreign <- MCForeign
  Offers <- MCOffers
CHECK_DEADLOCK FALSE
INVARIANTS
  ErasDoNotMix
  HonestTrafficServed
  ModernOfferSpoilsNothing
PROPERTIES
  ImplementsLegacy
  ModernServed
