SPECIFICATION Spec
CONSTANTS
  \* Selection
  a = a
  b = b
  grp = grp
  n1 = n1
  n2 = n2
  n3 = n3
  pv = pv
  Groups = {grp}
  Nodes = {n1, n2}
  Nobody = nobody
  SwitchTo = {a, b}
  FirstChoices <- TwoChoices
  Shapes <- SomeShapes
  MaxSwitches = 2
  MaxChanges = 2
  \* Editor
  Savers = {s1, s2}
  Other = other
  p1 = p1
  Profiles = {p1, p2}
  Extensions = {x}
  Contents = {"good", "odd", "bad"}
  Absent = absent
  Passes = {"good", "odd"}
  Runs = {"good"}
  Unwritten = {x}
  MaxSaves = 3
  \* Service
  Operators = {o1, o2}
  Readers = {r}
  Platform = "windows"
  MaxOps = 3
  \* Sysopt
  Patchers = {t1, t2}
  MaxPatches = 2
  \* Lightweight
  Callers = {c1, c2}
  Timers = {m1, m2}
  MaxCalls = 3
  \* AutoBackup
  Changes = {h1, h2}
  Runner = runner
  MinInterval = 2
  Keep = 1
  MaxTime = 4
  MaxPatchesAB = 2
  \* Backup
  MaxWrites = 2
  \* WebDav
  DavCallers = {d1, d2}
  DavOps = {"list", "upload"}
  MaxAccounts = 3
  \* Enhance
  Values = {"", "true", "false", "rule", "script", "app", "sub", "user", "loopback", "*", "fake-ip", "redir-host"}
  NoValue = novalue
  Subscriptions <- TwoSubscriptions
  ClashConfigs <- TwoClashConfigs
  DnsFiles <- TwoDnsFiles
  ProxyItems <- TwoProxyItems
  GroupItems <- TwoGroupItems
  Merges <- SomeMerges
  Scripts <- SomeScripts
  \* Settings
  PatchCallers = {k1, k2}
  ClashPatches = {{"secret"}, {"allow_lan", "ports"}}
  VergePatches = {{"tun"}, {"port", "proxy", "other"}}
  MaxWritesS = 3
  \* Updater
  MaxVersion = 4
VIEW View
CHECK_DEADLOCK FALSE
INVARIANTS
  SelectionApplied EditsSettle NoPromptAfterDecline NoReaderForgotten
  ProxyFollowsSettings ResetHolds NeverStuckExiting SurvivesEntry BackupsApart
  RestartKeepsRestored ClientIsCurrent ControlPlaneKept PatchesKept
  InstallsWhatWasAsked
PROPERTIES ChoicesSurvive OneBackgroundPrompt
