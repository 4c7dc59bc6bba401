\* Two fields; the pages of MCClientForms.
CONSTANTS
  Field <- MCField
  Value <- MCValue
  Methods <- MCMethods
  Pages <- MCPages
  Accepted <- MCAccepted
SPECIFICATION FairSpec
INVARIANTS
  TypeOK
  SentIsChecked
  RulesMeanAnnotations
  ErrorsAreShown
  RememberedIsAnswered
  RequestsAreCounted
PROPERTIES
  RefusedWithReason
  HeldSubmitIsDecided
