SPECIFICATION Spec
CONSTANTS
  contact1 = contact1
  contact2 = contact2
  full = full
  short = short
  default = default
  KEYS = {contact1, contact2}
  VALUES = {full, short, default}
  DEFAULT = default
  NONE = none
  CONTAINS <- ContainsShort
  MAX_EDITS = 2
  MAX_RESTARTS = 2
INVARIANTS
  FileFollowsConfig
  AlertsGoToNamedContacts
PROPERTIES
  SettingsArrive
