SPECIFICATION GateSpec
CONSTANTS
  w = w
  w2 = w2
  o = o
  a = a
  b = b
  r = r
  anon = anon
  none = none
  s = s
  mysql = mysql
  t = t
  u = u
  Session <- MCSession
  Work = w
  Grantee <- MCGrantee
  Role = {r}
  Anonymous = {anon}
  AccountOf <- MCAccountOf
  RoleSet = {{}}
  InitialRoles <- MCInitialRoles
  RoleClosure <- MCRoleClosure
  Schema = {s, mysql}
  MySqlSchema = mysql
  Table = {t, u}
  Covers = {}
  SchemaFold <- MCSchemaFold
  TableFold <- MCTableFold
  AnyPrivilege = {"SELECT", "TRIGGER"}
  Privilege = {"SELECT", "TRIGGER"}
  Select = "SELECT"
  Row <- MCRow
  Restriction <- MCRestriction
  InitialGrants <- MCInitialGrants
  MaxChanges = 1
  Asked <- MCAsked
  GranteeText <- MCGranteeText
  NoText = none
  Target = s
  Requested = {t, u}
  TriggerPrivilege = "TRIGGER"
  Trigger <- MCTrigger
  InitialTriggers <- MCInitialTriggers
  NoResult = NoResult
  MaxDdl = 1
CHECK_DEADLOCK FALSE
INVARIANT ClearedHadNone
INVARIANT EarlyReadNeedsNoGrant
INVARIANT ClearedHasNone
