\* Two processes, two users, two passwords, two session tokens.
SPECIFICATION Spec

CONSTANTS
  admin = admin
  ADMIN = ADMIN
  bob = bob
  short = short
  w1 = w1
  w2 = w2
  first = first
  other = other
  t1 = t1
  t2 = t2
  BadName = BadName
  NoUser = NoUser
  NoSession = NoSession
  Admin = admin
  Default = first
  Workers <- MCWorkers
  Names <- MCNames
  Typed <- MCTyped
  NormalOf <- MCNormalOf
  Passwords <- MCPasswords
  Tokens <- MCTokens

SYMMETRY Similar
VIEW Apart

INVARIANTS
  SessionsHaveUsers
  AdminBeforeOthers

PROPERTIES
  AdminStays
  PasswordsOnlySet
  ImplementsAccounts
