\* Every line of up to three words, and two wrappers with options; one setting
\* at a time, the user's own preloads, and three installations.
CONSTANTS
  Unset = Unset
  Words <- SomeWords
  Users <- OneSetting
  Lines <- AllLines
  Disks <- Installations
SPECIFICATION Spec
INVARIANTS SettingsAsGiven PreloadKept
CHECK_DEADLOCK FALSE
