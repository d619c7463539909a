SPECIFICATION Spec
CONSTANTS
  Users = {u1}
  Default = default
  Anonymous = anonymous
  Requesters = {u1, anonymous}
  Fields = {columns}
  Values = {v1, v2}
  Migrated = v1
  Programmatic = v2
  Calls = {c1, c2}
  MaxFailures = 0
PROPERTY UpdatesTheUsersRow
