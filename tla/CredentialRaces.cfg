\* Two refreshes, one governed disconnect and one ceremony over one row;
\* the user has two Google accounts.
SPECIFICATION Spec
CONSTANTS
  Refreshers = {r1, r2}
  r1 = r1
  r2 = r2
  Disconnects = {d1}
  d1 = d1
  Accounts = {a1, a2}
  a1 = a1
  a2 = a2
  Nothing = nothing
  MaxLapses = 1
SYMMETRY Calls
INVARIANTS
  CredentialTypeOK
  LeaderIsCurrent
  RevokeOwnsItsRow
PROPERTIES
  AnswersLandOnTheirToken
  LandsOnWhatItSaw
  RevokedEndsItsAccount
CHECK_DEADLOCK FALSE
