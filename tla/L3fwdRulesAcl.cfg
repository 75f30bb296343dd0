SPECIFICATION RulesSpec
CONSTANTS
  Addr <- MCAddr
  Prefix <- MCPrefix
  PortNo = {0, 1, 2, 3, 4}
  EnabledPort = {0, 2, 3}
  Existing = {0, 1, 2}
  Width = 4
  Lines <- MCLines
  MaxLines <- MCMaxLines
  MaxRules <- MCMaxRules
  Default <- MCDefault
INVARIANTS AclEntriesFound
