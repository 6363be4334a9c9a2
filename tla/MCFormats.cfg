SPECIFICATION FormatsSpec
CONSTANTS
  Endpoints <- MCEndpoints
  Payloads <- MCPayloads
  Numbers <- MCNumbers
  Messages <- MCMessages
  NameBytes <- MCNameBytes
INVARIANTS
  ArrivesOrIsDropped
  RepliesAreFinal
  NamesAgree
  CutsDecode
\* Every packet ends somewhere.
CHECK_DEADLOCK FALSE
