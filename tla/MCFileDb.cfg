\* Three files in three directories; room for two records.
SPECIFICATION Spec
CONSTANTS
  Kind <- Tree
  RecordSize = 2
  MaxEdits = 2
  Initial = 2
INVARIANTS TypeOK RecordsTrue MissingIsLocal CrashNeedsCause
