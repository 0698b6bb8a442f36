----------------------------- MODULE MCDesktop ------------------------------
(* The parts around the core on small instances.  They share no variable    *)
(* and their steps are interleaved with nothing of each other: a behaviour  *)
(* is one of one part, chosen at the start, while the others stay put.      *)
EXTENDS Selection, Editor, Service, Sysopt, Lightweight, AutoBackup, Backup,
        WebDav, Enhance, Settings, Updater

CONSTANTS a, b, grp, n1, n2, n3, pv, p1   \* two profiles, a group, nodes, a provider

VARIABLE part

-----------------------------------------------------------------------------
(* Selection                                                               *)

Remembered(group, node) == [name |-> group, now |-> node]
TwoChoices ==
  a :> <<Remembered(grp, n2), Remembered(grp, n1), Remembered(Nobody, n1)>>
    @@ b :> <<Remembered(grp, n2)>>

Selector(all, now) == [selectable |-> TRUE, all |-> all, now |-> now]
SomeShapes ==
  [Groups -> {Nobody, Selector({}, Nobody), Selector({n1, n2}, n1),
              Selector({n1, n2}, n2), Selector({n1}, n1),
              [selectable |-> FALSE, all |-> {n1, n2}, now |-> n2]}]

-----------------------------------------------------------------------------
(* Enhance                                                                 *)

GroupOf(name, selector, proxies, use) ==
  [name |-> name, selector |-> selector, proxies |-> proxies, use |-> use]
Only(top) == [top |-> top, dns |-> NoValue, proxies |-> NoValue,
              providers |-> NoValue, groups |-> NoValue]

TwoSubscriptions ==
  {[top |-> [mode |-> "sub", socks_port |-> "sub", bind_address |-> "loopback"],
    other |-> [mode |-> "sub", socks_port |-> "sub"],
    dns |-> [mode |-> "redir-host"], proxies |-> {n1, n2}, providers |-> {},
    groups |-> <<GroupOf("auto", FALSE, {n1, n2}, {}),
                 GroupOf("pick", TRUE, {n1, "auto"}, {})>>],
   [top |-> [ipv6 |-> "sub"], other |-> <<>>, dns |-> NoValue, proxies |-> {n1}, providers |-> {pv},
    groups |-> <<GroupOf("pick", TRUE, {n1, "DIRECT"}, {pv})>>]}

Clash(mode, lan, ipv6) ==
  [mode |-> mode, socks_port |-> "app", external_controller |-> "app",
   allow_lan |-> lan, ipv6 |-> ipv6]
TwoClashConfigs == {Clash("app", "true", "true"), Clash("script", "false", "false")}
TwoDnsFiles == {NoValue, [ipv6 |-> "true"]}
TwoProxyItems == {[add |-> {}, delete |-> {}], [add |-> {n3}, delete |-> {n1}]}
TwoGroupItems ==
  {[prepend |-> <<>>, append |-> <<>>, delete |-> {}],
   [prepend |-> <<GroupOf("mine", TRUE, {n2}, {})>>, append |-> <<>>, delete |-> {"auto"}]}
SomeMerges ==
  {Only(<<>>), [Only(<<>>) EXCEPT !.proxies = {n2}],
   [Only([mode |-> "user", socks_port |-> "user", bind_address |-> "loopback"])
      EXCEPT !.dns = [ipv6 |-> "false"]]}
SomeScripts ==
  {NoValue,
   [drop |-> {"mode", "dns"},
    put |-> Only([external_controller |-> "user", bind_address |-> "loopback"])],
   [drop |-> {"providers"},
    put |-> [Only(<<>>) EXCEPT !.groups = <<GroupOf("own", FALSE, {n1, n3}, {pv})>>]]}

-----------------------------------------------------------------------------
(* The sum                                                                 *)

Parts == {"selection", "editor", "service", "sysopt", "lightweight",
          "auto backup", "backup", "webdav", "enhance", "settings", "updater"}

\* Of a part that stays put one initial state is enough, and one of the two
\* profiles of the editor is as good as the other.
Init ==
  /\ part \in Parts
  /\ SelectionInit
  /\ part = "selection" \/ (shown = a)
  /\ EditorInit
  /\ chosen = p1
  /\ ServiceInit
  /\ SysoptInit
  /\ LightInit
  /\ AutoInit
  /\ BackupInit
  /\ DavInit
  /\ EnhanceInit
  /\ \/ part = "enhance"
     \/ /\ switches.tun /\ switches.builtin /\ switches.socks /\ switches.controller
        /\ switches.dns /\ clash_config.mode = "app" /\ dns_file = NoValue
        /\ config.providers = {}
  /\ SettingsInit
  /\ part = "settings" \/ (service_or_admin)
  /\ UpdaterInit

SelectionMoves ==
  /\ part = "selection"
  /\ UNCHANGED <<part, editorVars, serviceVars, sysoptVars, lightVars,
                 autoVars, backupVars, davVars, enhanceVars, settingsVars, updaterVars>>
  /\ SelectionNext

EditorMoves ==
  /\ part = "editor"
  /\ UNCHANGED <<part, selectionVars, serviceVars, sysoptVars, lightVars,
                 autoVars, backupVars, davVars, enhanceVars, settingsVars, updaterVars>>
  /\ EditorNext

ServiceMoves ==
  /\ part = "service"
  /\ UNCHANGED <<part, selectionVars, editorVars, sysoptVars, lightVars,
                 autoVars, backupVars, davVars, enhanceVars, settingsVars, updaterVars>>
  /\ ServiceNext

SysoptMoves ==
  /\ part = "sysopt"
  /\ UNCHANGED <<part, selectionVars, editorVars, serviceVars, lightVars,
                 autoVars, backupVars, davVars, enhanceVars, settingsVars, updaterVars>>
  /\ SysoptNext

LightMoves ==
  /\ part = "lightweight"
  /\ UNCHANGED <<part, selectionVars, editorVars, serviceVars, sysoptVars,
                 autoVars, backupVars, davVars, enhanceVars, settingsVars, updaterVars>>
  /\ LightNext

AutoMoves ==
  /\ part = "auto backup"
  /\ UNCHANGED <<part, selectionVars, editorVars, serviceVars, sysoptVars,
                 lightVars, backupVars, davVars, enhanceVars, settingsVars, updaterVars>>
  /\ AutoNext

BackupMoves ==
  /\ part = "backup"
  /\ UNCHANGED <<part, selectionVars, editorVars, serviceVars, sysoptVars,
                 lightVars, autoVars, davVars, enhanceVars, settingsVars, updaterVars>>
  /\ BackupNext

DavMoves ==
  /\ part = "webdav"
  /\ UNCHANGED <<part, selectionVars, editorVars, serviceVars, sysoptVars,
                 lightVars, autoVars, backupVars, enhanceVars, settingsVars, updaterVars>>
  /\ DavNext

EnhanceMoves ==
  /\ part = "enhance"
  /\ UNCHANGED <<part, selectionVars, editorVars, serviceVars, sysoptVars,
                 lightVars, autoVars, backupVars, davVars, settingsVars, updaterVars>>
  /\ EnhanceNext

SettingsMoves ==
  /\ part = "settings"
  /\ UNCHANGED <<part, selectionVars, editorVars, serviceVars, sysoptVars,
                 lightVars, autoVars, backupVars, davVars, enhanceVars, updaterVars>>
  /\ SettingsNext

UpdaterMoves ==
  /\ part = "updater"
  /\ UNCHANGED <<part, selectionVars, editorVars, serviceVars, sysoptVars,
                 lightVars, autoVars, backupVars, davVars, enhanceVars, settingsVars>>
  /\ UpdaterNext

Next ==
  \/ SelectionMoves \/ EditorMoves \/ ServiceMoves \/ SysoptMoves
  \/ LightMoves \/ AutoMoves \/ BackupMoves \/ DavMoves
  \/ EnhanceMoves \/ SettingsMoves \/ UpdaterMoves

vars == <<part, selectionVars, editorVars, serviceVars, sysoptVars, lightVars,
          autoVars, backupVars, davVars, enhanceVars, settingsVars, updaterVars>>

Spec == Init /\ [][Next]_vars

-----------------------------------------------------------------------------
(* The view: what tells two states apart.  It is the part that moves, and of *)
(* a call that has returned not what it knew: what the next call reads it    *)
(* has set before, and no property speaks of a call that has returned.       *)

Saved(s) ==
  IF AtStage(s, "idle") THEN <<>>
  ELSE <<file[s], original[s], edited[s], affects[s], looked[s]>>
ReadBy(s) == IF AtStage(s, "apply") THEN read[s] ELSE <<>>
EditorView ==
  <<chosen, former, content, running, busy, stage, saves, slips, damaged,
    [s \in Savers |-> Saved(s)], [s \in Editors |-> ReadBy(s)]>>

Operating(o) ==
  IF OpAt(o, "idle") THEN <<>> ELSE <<opJob[o], opUser[o], opClick[o]>>
ServiceView ==
  <<status, operation_running, {r \in notified : readPc[r] # "idle"}, gateVars,
    osVars, opPc, readPc, ops, [o \in Operators |-> Operating(o)]>>

View ==
  <<part,
    CASE part = "selection" -> selectionVars
      [] part = "editor" -> EditorView
      [] part = "service" -> ServiceView
      [] part = "sysopt" -> sysoptVars
      [] part = "lightweight" -> lightVars
      [] part = "auto backup" -> autoVars
      [] part = "backup" -> backupVars
      [] part = "webdav" -> davVars
      [] part = "enhance" -> enhanceVars
      [] part = "settings" -> settingsVars
      [] part = "updater" -> updaterVars>>
=============================================================================
