CONSTANTS
  u1 = u1
  u2 = u2
  k1 = k1
  s1 = s1
  s2 = s2
  sVisitor = sVisitor
  sUnknown = sUnknown
  a1 = a1
  a2 = a2
  Addrs = {a1, a2}
  Users = {u1, u2}
  Chats = {k1}
  Sessions = {s1, sVisitor}
  Members <- MCMembers
  SessionUser <- MCSessionUser
  NoUser = NoUser
  NoLogin = NoLogin
  NoChat = NoChat
  NoSession = NoSession
  AddrOf <- MCSameAddr
  Kinds = {"created", "deleted", "notification_object"}
  Leaving = {u1}
  Flaky = {1}
  MaxConns = 2
  MaxIdentifies = 1
  MaxEvents = 2
SPECIFICATION FairSpec
PROPERTIES GoneIsCollected RoutedIsSettled
