\* Every kind of event, up to four of them, with polls and lost responses.
SPECIFICATION Spec
CONSTANTS
  Templates <- MCTemplates
  MaxEvents = 4
INVARIANTS
  TypeOK
  PayloadPreserved
  ServedInIdOrder
  AcknowledgementAccepted
  FlagsAgreeUnlessReversed
