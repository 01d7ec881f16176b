SPECIFICATION Spec
CONSTANTS
  Sections <- AllSections
  CommandLines <- ShortLines
  IPv4 <- V4
  IPv6 <- V6
  IfaceIP <- Addresses
  WordsOf <- Split
INVARIANTS ScriptIsAccepted GivenAddressWins
CHECK_DEADLOCK FALSE
