\* One reset link, submitted twice at once.
SPECIFICATION Spec
CONSTANTS
  User = {u1}
  Slot = {s1, s2}
  Default = "default"
  Password = {"default", "chosen"}
  StatusEdits = {"ACTIVE", "SUSPENDED"}
  MaxFailed = 2
  LockTime = 2
  LinkLife = 1
  MaxLinks = 1
PROPERTIES
  SingleUse
