CONSTANTS
  a = a
  b = b
  x1 = x1
  x2 = x2
  r1 = r1
  r2 = r2
  Emails = {a, b}
  Requests = {r1, r2}
  PubKeys = {x1, x2}
  NoKey = NoKey
  MaxDevices = 3
  MaxSessions = 3
  Muters = {u1, u2}
  Callers = {u1}
  Puts = {r1, r2, r3}
  Circle = Circle
  PlaceIds = {home}
  AppEditors = {app}
  WebEditors = {web}
  MaxVersion = 4
  Users = {f, a, b}
  Founder = f
  Invites = {x1, x2}
  Calls = {r1, r2}
  None = none
  Modes = {"precise", "paused"}
  UsesCap = 2
SPECIFICATION StoresSpec
SYMMETRY StoresSymmetry
INVARIANT SessionsOfOwnDevices
INVARIANT AccountsAreWhole
PROPERTY DeviceIdentityIsStable
INVARIANT MutesInForce
PROPERTY NoEmptyMiddle
INVARIANT AppEditsAreNotLost
INVARIANT OwnedOrGone
PROPERTY RoleIsInvited
PROPERTY InviteOnlyWearsOut
CHECK_DEADLOCK FALSE
