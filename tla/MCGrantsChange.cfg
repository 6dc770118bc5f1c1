SPECIFICATION Spec
CONSTANTS
  w = w
  w2 = w2
  o = o
  a = a
  b = b
  x = x
  r = r
  n = n
  anon = anon
  none = none
  s = s
  S = S
  p = p
  mysql = mysql
  t = t
  T = T
  u = u
  WorkAccount = a
  Session <- MCSession
  Work = w
  Grantee <- MCGrantee
  Role = {r, n}
  Anonymous = {anon}
  AccountOf <- MCAccountOf
  RoleSet = {{}, {r}}
  InitialRoles <- OneInitialRoles
  RoleClosure <- MCRoleClosure
  Schema <- MCSchema
  MySqlSchema = mysql
  Table = {t, T, u}
  Covers <- MCCovers
  SchemaFold <- MCSchemaFold
  TableFold <- MCTableFold
  AnyPrivilege <- MCAnyPrivilege
  Privilege <- MCPrivilege
  Select = "SELECT"
  Row <- FewRow
  Restriction <- MCRestriction
  InitialGrants <- FewInitialGrants
  MaxChanges = 2
  Asked <- MCAsked
  GranteeText <- MCGranteeText
  NoText = none
  TableRequest <- MCTableRequest
  SchemaRequest <- MCSchemaRequest
CHECK_DEADLOCK FALSE
INVARIANT TypeOK
INVARIANT PresentSoundWithoutLoss
INVARIANT PresentHeldAtSomeMoment
INVARIANT AbsentSoundWithoutGain
