\* Two handlers at once for one account: counter, lock, links, and time.
SPECIFICATION FairSpec
CONSTANTS
  User = {u1}
  Slot = {s1, s2}
  Default = "default"
  Password = {"default", "chosen"}
  StatusEdits = {"ACTIVE", "SUSPENDED"}
  MaxFailed = 2
  LockTime = 2
  LinkLife = 1
  MaxLinks = 1
INVARIANTS
  LockIsEarned
PROPERTIES
  LockedAfterMaxFailed
  WrongPasswordsEndInLock
  LockRunsOut
