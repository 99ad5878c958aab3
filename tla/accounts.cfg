CONSTANTS
  ana = ana
  Ana = Ana
  bob = bob
  anaBox = anaBox
  bobBox = bobBox
  long = long
  longer = longer
  other = other
  prefix = prefix
  otherPrefix = otherPrefix
  r1 = r1
  r2 = r2
  r3 = r3
  NoItem = NoItem
  Calls = {r1, r2, r3}
  Emails = {ana, Ana, bob}
  Mailboxes = {anaBox, bobBox}
  LowerCase <- MCLowerCase
  Passwords = {long, longer, other}
  Secrets = {prefix, otherPrefix}
  FirstBytes <- MCFirstBytes
  StaleReads = TRUE
SPECIFICATION Spec
SYMMETRY Symmetry
INVARIANTS
  OneAccountPerEmail
  GrantedToOwnerOrAdmin
  AnswersMatchAccounts
  TokenMatchesLogin
  AccountsInv
PROPERTIES
  ImplementsDirectory
  RefusedLoginsAreWrong
