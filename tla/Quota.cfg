SPECIFICATION Spec
CONSTANTS
  Named = {"nova", "spark"}
  Doubled = {"spark"}
  Sent = {{}, {"codex", "nova"}, {"codex", "nova", "spark"}}
  Slots = {1}
  Used = {0, 1}
  UsedToo = {0}
  Lengths = {300}
  Resets = {1}
INVARIANTS
  OwnNumbers
  SourcesAgree
PROPERTIES
  AliasResolved
