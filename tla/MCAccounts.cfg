CONSTANTS
  e1 = e1
  e2 = e2
  name1 = name1
  c1 = c1
  c2 = c2
  Emails <- TwoEmails
  Names <- OneName
  Calls <- TwoCalls
  MaxTokens = 2
  MaxLogouts = 1
SPECIFICATION Spec
SYMMETRY Alike
INVARIANTS
  ReplacedTokensAreDead
  OldSessionsEnd
  ExternalLoginsAreComplete
