SPECIFICATION Spec
CONSTANTS
  Sections <- AllSections
  CommandLines <- ShortLines
  IPv4 <- V4
  IPv6 <- V6
  IfaceIP <- Addresses
  WordsOf <- Split
\* Each of these is violated; TLC stops at the first.
INVARIANTS
  FeaturesAsConfigured
  ListensWhereConfigured
  DetectsWhereConfigured
  DefaultsAsDocumented
CHECK_DEADLOCK FALSE
