------------------------------- MODULE Enhance -------------------------------
(***************************************************************************)
(* The generation of the core's configuration (enhance/): the current      *)
(* subscription, the items that add and delete proxies and groups, the     *)
(* settings of the app, then the merges and scripts the user wrote, and    *)
(* last what the app restores.                                             *)
(*                                                                         *)
(* A key stands for all keys that are treated alike: mode for secret,      *)
(* mixed-port, log-level and the like, socks_port for every port with a    *)
(* switch of its own, rule for everything the app has no say in.  Booleans *)
(* are the strings the YAML has.  A subscription may have a key a second   *)
(* time in another spelling (Mode), which use_lowercase makes one of the   *)
(* two; what a merge or a script puts in is in lower case by then.         *)
(***************************************************************************)
EXTENDS Naturals, Sequences, SequencesExt

CONSTANTS
  Values,         \* of the keys
  NoValue,        \* what is not there
  Subscriptions,  \* the configurations the current profile may have
  ClashConfigs,   \* what config.yaml may hold of the control plane
  DnsFiles,       \* dns_config.yaml: NoValue or a dns block
  ProxyItems,     \* [add, delete]: what the proxies item does
  GroupItems,     \* [prepend, append, delete]: the same for groups
  Merges,         \* configurations to merge
  Scripts         \* [drop, put]: what main() does; NoValue: it fails

CONTROL_PLANE_KEYS ==
  {"mode", "socks_port", "external_controller", "allow_lan", "ipv6"}
AllKeys == CONTROL_PLANE_KEYS \union {"tun", "rule", "bind_address", "range6"}
BUILTIN_POLICIES == {"DIRECT", "REJECT"}

\* The switches of the verge settings that get_config_values reads.
Switches == [tun : BOOLEAN, builtin : BOOLEAN, socks : BOOLEAN,
             controller : BOOLEAN, dns : BOOLEAN]

\* The keys of a mapping that are there, with their values.
IsBlock(b) == \E there \in SUBSET AllKeys : b \in [there -> Values]
IsConfiguration(c) ==
  {"top", "other", "dns"} \subseteq DOMAIN c /\ IsBlock(c.top) /\ IsBlock(c.other)

\* What the app's own template has is never missing from config.yaml.
ASSUME EnhanceAssumption ==
  /\ {"", "true", "false", "rule", "app", "fake-ip", "*"} \subseteq Values
  /\ ~IsBlock(NoValue) /\ NoValue \notin Values
  /\ \A clash \in ClashConfigs : clash \in [CONTROL_PLANE_KEYS -> Values]
  /\ \A dns \in DnsFiles : dns = NoValue \/ IsBlock(dns)
  /\ \A c \in Subscriptions : IsConfiguration(c)
  /\ \A m \in Merges : IsBlock(m.top)
  /\ \A s \in Scripts : s = NoValue \/ IsBlock(s.put.top)

VARIABLES
  step,
  switches, clash_config, dns_file, \* what was read
  config,                  \* so far; other: its keys in another spelling
  control_plane, dns_ipv6, \* the snapshots
  guarded,                 \* history: the built-in script has looked at mode
  overruled                \* history: keys of which that took another spelling

enhanceVars ==
  <<step, switches, clash_config, dns_file, config, control_plane, dns_ipv6,
    guarded, overruled>>
builtin == <<guarded, overruled>>
inputs == <<switches, clash_config, dns_file, builtin>>
snapshots == <<control_plane, dns_ipv6>>

\* Mapping::extend.
Extended(old, new) ==
  [k \in DOMAIN old \union DOMAIN new |->
     IF k \in DOMAIN new THEN new[k] ELSE old[k]]
Without(f, S) == [k \in DOMAIN f \ S |-> f[k]]
Lookup(f, k, default) == IF f # NoValue /\ k \in DOMAIN f THEN f[k] ELSE default

EnhanceInit ==
  /\ step = "items"
  /\ switches \in Switches /\ clash_config \in ClashConfigs
  /\ dns_file \in DnsFiles
  /\ config \in Subscriptions
  /\ control_plane = NoValue /\ dns_ipv6 = NoValue
  /\ guarded = FALSE /\ overruled = {}

(***************************************************************************)
(* The items that add to and delete from a list.                           *)
(***************************************************************************)
\* The first group the user selects from gets the proxies that were added.
FirstSelector(groups) == SelectInSeq(groups, LAMBDA g : g.selector)

UseProxies(item, c) ==
  [c EXCEPT
     !.proxies = item.add \union (@ \ item.delete),
     !.groups = [i \in DOMAIN @ |->
       [@[i] EXCEPT !.proxies =
          (@ \ item.delete)
            \union (IF i = FirstSelector(c.groups) THEN item.add ELSE {})]]]

UseGroups(item, c) ==
  [c EXCEPT !.groups =
     item.prepend \o SelectSeq(@, LAMBDA g : g.name \notin item.delete)
                  \o item.append]

ProcessSeqItems ==
  /\ step = "items"
  /\ \E p \in ProxyItems, g \in GroupItems :
       config' = UseGroups(g, UseProxies(p, config))
  /\ step' = "defaults"
  /\ UNCHANGED <<inputs, snapshots>>

(***************************************************************************)
(* What the app puts in.                                                   *)
(***************************************************************************)
\* A port that is switched off is taken out, the subscription's too; the
\* controller that is switched off is the empty string.
MergeDefault(clash, c) ==
  LET off == IF switches.socks THEN {} ELSE {"socks_port"}
      given == IF switches.controller THEN clash
               ELSE [clash EXCEPT !.external_controller = ""]
  IN [c EXCEPT !.top = Without(Extended(@, given), off)]

MergeDefaultConfig ==
  /\ step = "defaults"
  /\ config' = MergeDefault(clash_config, config)
  /\ step' = "builtin"
  /\ UNCHANGED <<inputs, snapshots>>

\* use_lowercase: of two spellings of a key the one that comes last in the
\* mapping stays.  Which one that is, the order in the file and what was taken
\* out of the mapping decide.
Overruling(c) ==
  {taken \in SUBSET DOMAIN c.other : DOMAIN c.other \ DOMAIN c.top \subseteq taken}

UseLowercase(c, taken) ==
  [c EXCEPT !.top = Extended(@, Without(c.other, DOMAIN c.other \ taken)),
            !.other = Without(@, DOMAIN @)]

\* meta_guard.js; the other one rewrites an option of a proxy.
MetaGuard(mode) == IF mode = "script" THEN "rule" ELSE mode

WithModeGuarded(c) ==
  IF "mode" \in DOMAIN c.top THEN [c EXCEPT !.top.mode = MetaGuard(@)] ELSE c

\* They may be switched off; and each may fail, with nothing or only the keys
\* of the configuration changed.
ApplyBuiltinScripts ==
  /\ step = "builtin"
  /\ \/ config' = config /\ UNCHANGED builtin
     \/ /\ switches.builtin
        /\ overruled' \in Overruling(config)
        /\ guarded' \in BOOLEAN
        /\ config' = LET c == UseLowercase(config, overruled')
                     IN IF guarded' THEN WithModeGuarded(c) ELSE c
  /\ step' = "tun"
  /\ UNCHANGED <<switches, clash_config, dns_file, snapshots>>

FakeIp(dns) == Lookup(dns, "mode", "fake-ip") = "fake-ip"

TunDns(dns, ipv6) ==
  LET range6 == IF ipv6 = "true" THEN [range6 |-> "app"] ELSE <<>>
      fakeIp == Extended(range6, [mode |-> "fake-ip"])
      there == IF dns = NoValue THEN <<>> ELSE dns
  IN IF ~FakeIp(dns) THEN dns
     ELSE Extended(Extended(fakeIp, there), [ipv6 |-> ipv6])

UseTun ==
  /\ step = "tun"
  /\ LET ipv6 == Lookup(config.top, "ipv6", "false")
     IN config' = [config EXCEPT
          !.top = Extended(@,
                    [tun |-> IF switches.tun THEN "true" ELSE "false"]),
          !.dns = IF switches.tun THEN TunDns(@, ipv6) ELSE @]
  /\ step' = "dns"
  /\ UNCHANGED <<inputs, snapshots>>

EnsureFakeIpRange6(dns) ==
  IF Lookup(dns, "ipv6", "false") = "true" /\ FakeIp(dns)
  THEN Extended([range6 |-> "app"], dns) ELSE dns

ApplyDnsSettings ==
  /\ step = "dns"
  /\ config' = IF switches.dns /\ dns_file # NoValue
               THEN [config EXCEPT !.dns = EnsureFakeIpRange6(dns_file)]
               ELSE config
  /\ step' = "snapshot"
  /\ UNCHANGED <<inputs, snapshots>>

SnapshotControlPlane ==
  /\ step = "snapshot"
  /\ control_plane' = Without(config.top, DOMAIN config.top \ CONTROL_PLANE_KEYS)
  /\ dns_ipv6' = IF switches.dns THEN Lookup(config.dns, "ipv6", NoValue)
                 ELSE NoValue
  /\ step' = "global merge"
  /\ UNCHANGED <<inputs, config>>

(***************************************************************************)
(* What the user wrote: a merge and a script for every profile, then a     *)
(* merge and a script for this one.                                        *)
(***************************************************************************)
Over(new, old) == IF new = NoValue THEN old ELSE new

\* Mappings are merged key by key, lists replaced.
DeepMerge(m, c) ==
  [top |-> Extended(c.top, m.top), other |-> c.other,
   dns |-> IF m.dns # NoValue /\ c.dns # NoValue THEN Extended(c.dns, m.dns)
           ELSE Over(m.dns, c.dns),
   proxies |-> Over(m.proxies, c.proxies),
   providers |-> IF m.providers = NoValue THEN c.providers
                 ELSE m.providers \union c.providers,
   groups |-> Over(m.groups, c.groups)]

Merge(from, to) ==
  /\ step = from
  /\ \E m \in Merges : config' = DeepMerge(m, config)
  /\ step' = to
  /\ UNCHANGED <<inputs, snapshots>>

\* A script is given the configuration in lower case, and returns any.
UseScript(s, c) ==
  DeepMerge(s.put,
    [c EXCEPT !.top = Without(@, s.drop),
              !.dns = IF "dns" \in s.drop THEN NoValue ELSE @,
              !.providers = IF "providers" \in s.drop THEN {} ELSE @])

\* One that throws leaves the configuration in lower case, one that takes too
\* long as it was.
Script(from, to) ==
  /\ step = from
  /\ \E s \in Scripts, taken \in Overruling(config) :
       LET c == UseLowercase(config, taken)
       IN config' \in IF s = NoValue THEN {config, c} ELSE {UseScript(s, c)}
  /\ step' = to
  /\ UNCHANGED <<inputs, snapshots>>

ProcessGlobalItems ==
  \/ Merge("global merge", "global script")
  \/ Script("global script", "merge")

ProcessProfileItems ==
  \/ Merge("merge", "script")
  \/ Script("script", "enforce")

(***************************************************************************)
(* What the app restores, and the clean-up of the groups.                  *)
(***************************************************************************)
\* Mutant: a key that the app leaves out is not taken out again.
EnforceAlone(c) == [c EXCEPT !.top = Extended(@, control_plane)]

EnforceControlPlane(c) ==
  LET missing == CONTROL_PLANE_KEYS \ DOMAIN control_plane
  IN [c EXCEPT !.top = Extended(Without(@, missing), control_plane)]

EnforceDnsIpv6(c) ==
  IF dns_ipv6 = NoValue \/ c.dns = NoValue THEN c
  ELSE [c EXCEPT !.dns = Extended(@, [ipv6 |-> dns_ipv6])]

EnsureLanBindAddress(c) ==
  IF /\ Lookup(c.top, "allow_lan", "false") = "true"
     /\ Lookup(c.top, "bind_address", "*") = "loopback"
  THEN [c EXCEPT !.top.bind_address = "*"] ELSE c

Enforce ==
  /\ step = "enforce"
  /\ config' = EnsureLanBindAddress(EnforceDnsIpv6(EnforceControlPlane(config)))
  /\ step' = "groups"
  /\ UNCHANGED <<inputs, snapshots>>

AllowedNames(c) ==
  c.proxies \union {c.groups[i].name : i \in DOMAIN c.groups}
    \union c.providers \union BUILTIN_POLICIES

\* Proxies of a group that has a provider are left: they may come from there.
CleanGroup(g, c) ==
  LET uses == g.use \intersect c.providers
  IN [g EXCEPT !.use = uses,
               !.proxies = IF uses # {} THEN @ ELSE @ \intersect AllowedNames(c)]

CleanupProxyGroups ==
  /\ step = "groups"
  /\ config' = [config EXCEPT
                  !.groups = [i \in DOMAIN @ |-> CleanGroup(@[i], config)]]
  /\ step' = "done"
  /\ UNCHANGED <<inputs, snapshots>>

EnhanceNext ==
  \/ ProcessSeqItems \/ MergeDefaultConfig \/ ApplyBuiltinScripts \/ UseTun
  \/ ApplyDnsSettings \/ SnapshotControlPlane
  \/ ProcessGlobalItems \/ ProcessProfileItems
  \/ Enforce \/ CleanupProxyGroups

EnhanceSpec == EnhanceInit /\ [][EnhanceNext]_enhanceVars

(***************************************************************************)
(* Properties.                                                             *)
(***************************************************************************)
\* What the app's own settings say of a key of the control plane.
Decreed(k) ==
  CASE k = "socks_port" /\ ~switches.socks -> NoValue
    [] k = "external_controller" /\ ~switches.controller -> ""
    [] k = "mode" /\ guarded -> MetaGuard(clash_config.mode)
    [] OTHER -> clash_config[k]

\* Whatever the merges and the scripts contain, and whichever of the scripts
\* fails, the control plane the core is given is the one of the app, and a key
\* the app leaves out is left out (the comments of CONTROL_PLANE_KEYS and
\* enforce_control_plane).  So it is with what the subscription contains, except
\* for the keys of which the subscription has another spelling that the
\* built-in scripts took for the key, before it was recorded (overruled).  And
\* dns.ipv6 is what the DNS page says, where there is a dns block.
ControlPlaneKept ==
  step \in {"groups", "done"} =>
    /\ \A k \in CONTROL_PLANE_KEYS \ overruled :
         Lookup(config.top, k, NoValue) = Decreed(k)
    /\ switches.dns /\ Lookup(dns_file, "ipv6", NoValue) # NoValue
         /\ config.dns # NoValue
       => config.dns.ipv6 = dns_file.ipv6
    /\ Lookup(config.top, "allow_lan", "false") = "true" =>
         Lookup(config.top, "bind_address", "*") # "loopback"

=============================================================================
