CONSTANTS
  Kinds = {"sftp", "rest", "s3", "b2", "azure", "gs", "swift", "rclone", "email", "webhook", "slack", "teams", "discord", "telegram", "gotify", "ntfy", "override"}
  Editors = {e1, e2}
  MaxForms = 3
  Reachable = {0, 1, 3}
SPECIFICATION ConnectionSpec
INVARIANTS
  FieldsSound
PROPERTIES
  StatusSettles
CHECK_DEADLOCK FALSE
