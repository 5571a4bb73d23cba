--------------------------- MODULE ConfigManager ---------------------------
(***************************************************************************)
(* The configuration manager of internal/config: the configuration in      *)
(* memory, its copy in the database, the read-modify-save cycle of every   *)
(* caller, the profile list behind the legacy top-level fields, and the    *)
(* import of a legacy configuration, with crashes at any point.            *)
(*                                                                         *)
(* A caller takes a copy with Get, edits the copy and hands it to Save.    *)
(* Nothing is locked between the two, so the copy may be old by the time   *)
(* saveMu is taken; Save then merges it with the configuration in memory,  *)
(* writes one transaction and only then replaces the memory copy.          *)
(*                                                                         *)
(* A profile is a key, one value for its token and cloudflared options,    *)
(* the switch that lets the runner start it, and its remote-management     *)
(* switch. The top-level fields mirror the active profile, all but         *)
(* local, for the single-tunnel endpoints.                                 *)
(***************************************************************************)
EXTENDS Integers, Sequences, FiniteSets

CONSTANTS Callers,          \* concurrent request handlers
          Settings,         \* values of a token and its cloudflared options
          DefaultSetting,   \* that of DefaultConfig
          TableSettings,    \* what a legacy app_configs table may hold
          FileSettings,     \* what a legacy config.json may hold
          NoConfig,         \* an empty database, or no legacy source
          Nobody,           \* saveMu is free
          MaxProfiles,      \* bound on the number of profiles
          MaxEdits,         \* bound on the edits
          MaxCrashes        \* bound on the crashes

ASSUME SettingsAssumption == /\ DefaultSetting \in Settings /\ NoConfig \notin Settings
                            /\ TableSettings \subseteq Settings /\ FileSettings \subseteq Settings
ASSUME CallersAssumption == Nobody \notin Callers
ASSUME BoundsAssumption == MaxProfiles \in Nat \ {0} /\ MaxEdits \in Nat /\ MaxCrashes \in Nat

----------------------------------------------------------------------------
(* Profile keys. A numbered key is a base key with numbers appended:       *)
(* "tunnel-3" is <<"tunnel", 3>>. No key is the empty string.              *)

NoKey == <<>>
DefaultTunnelProfileKey == <<"default">>
NumberedKey(i) == <<"tunnel", i>>

Keys == {DefaultTunnelProfileKey} \cup {NumberedKey(i) : i \in 2..MaxProfiles}

Profile(key, setting, local, manager) ==
    [key |-> key, setting |-> setting, local |-> local, manager |-> manager]

KeysOf(tunnels) == {tunnels[i].key : i \in DOMAIN tunnels}
IndexOf(tunnels, key) == CHOOSE i \in DOMAIN tunnels : tunnels[i].key = key

\* A profile without a key is named after its place in the list.
NormalProfile(t, i) ==
    [t EXCEPT !.key = IF @ # NoKey THEN @
                      ELSE IF i = 1 THEN DefaultTunnelProfileKey ELSE NumberedKey(i)]

\* The first of base, base-2, base-3, ... that no earlier profile has.
FreshKey(base, used) ==
    IF base \notin used THEN base
    ELSE Append(base, CHOOSE n \in 2..(Cardinality(used) + 2) :
                        /\ Append(base, n) \notin used
                        /\ \A m \in 2..(n - 1) : Append(base, m) \in used)

DistinctKeys(tunnels) ==
    LET upTo[i \in 0..Len(tunnels)] ==
          IF i = 0 THEN <<>>
          ELSE LET t == NormalProfile(tunnels[i], i)
               IN  Append(upTo[i - 1], [t EXCEPT !.key = FreshKey(@, KeysOf(upTo[i - 1]))])
    IN  upTo[Len(tunnels)]

----------------------------------------------------------------------------
(* A configuration: profiles in order, active key, the top-level mirror,   *)
(* and whether DDNS is enabled.                                            *)

KeySpace == Seq({"default", "tunnel"} \cup Nat)
Profiles == [key : KeySpace, setting : Settings, local : BOOLEAN, manager : BOOLEAN]
Configs == [tunnels : Seq(Profiles), active : KeySpace,
            setting : Settings, manager : BOOLEAN, ddns : BOOLEAN]

ASSUME NoConfigAssumption == NoConfig \notin Configs

DefaultConfig ==
    [tunnels |-> <<Profile(DefaultTunnelProfileKey, DefaultSetting, TRUE, FALSE)>>,
     active |-> DefaultTunnelProfileKey,
     setting |-> DefaultSetting, manager |-> FALSE, ddns |-> FALSE]

\* A configuration written before profiles existed: decodeConfig leaves the
\* list and the active key empty.
LegacyConfig(setting) ==
    [DefaultConfig EXCEPT !.tunnels = <<>>, !.active = NoKey, !.setting = setting]

\* The top level has no local_enabled: a profile made from it is enabled.
tunnelProfileFromTopLevel(cfg, key) == Profile(key, cfg.setting, TRUE, cfg.manager)

normalizeTunnelProfiles(cfg) ==
    LET tunnels == IF cfg.tunnels = <<>>
                   THEN <<tunnelProfileFromTopLevel(cfg, DefaultTunnelProfileKey)>>
                   ELSE DistinctKeys(cfg.tunnels)
    IN  [cfg EXCEPT !.tunnels = tunnels,
                    !.active = IF @ \in KeysOf(tunnels) THEN @ ELSE tunnels[1].key]

ActiveTunnelProfile(cfg) == cfg.tunnels[IndexOf(cfg.tunnels, cfg.active)]

applyActiveTunnelToTopLevel(cfg) ==
    LET n == normalizeTunnelProfiles(cfg)
    IN  [n EXCEPT !.setting = ActiveTunnelProfile(n).setting,
                  !.manager = ActiveTunnelProfile(n).manager]

syncActiveTunnelFromTopLevel(cfg) ==
    LET n == normalizeTunnelProfiles(cfg)
    IN  [n EXCEPT !.tunnels[IndexOf(n.tunnels, n.active)] =
                        tunnelProfileFromTopLevel(cfg, n.active)]

syncActiveTunnelManagementFromTopLevel(cfg) ==
    LET n == normalizeTunnelProfiles(cfg)
    IN  [n EXCEPT !.tunnels[IndexOf(n.tunnels, n.active)].manager = cfg.manager]

\* Mutant: the mirror always wins over an edit of the top-level fields.
Mutant_MergedFromProfile(cfg, current) ==
    applyActiveTunnelToTopLevel([cfg EXCEPT !.active = IF @ = NoKey THEN current.active ELSE @])

\* Mutant: an edit of the profiles is not mirrored.
Mutant_MergedUnmirrored(cfg, current) ==
    normalizeTunnelProfiles([cfg EXCEPT !.active = IF @ = NoKey THEN current.active ELSE @])

\* Save: an edit of the top-level fields goes to the active profile, any
\* other edit is mirrored from it.
Merged(cfg, current) ==
    LET new == [cfg EXCEPT !.active = IF @ = NoKey THEN current.active ELSE @]
        sameActive == new.active = current.active
    IN  IF sameActive /\ new.setting # current.setting
        THEN syncActiveTunnelFromTopLevel(new)
        ELSE IF sameActive /\ new.manager # current.manager
        THEN syncActiveTunnelManagementFromTopLevel(new)
        ELSE applyActiveTunnelToTopLevel(new)

\* saveConfig: what the transaction leaves in the database.
Stored(cfg) == IF cfg.tunnels = <<>> THEN syncActiveTunnelFromTopLevel(cfg)
               ELSE applyActiveTunnelToTopLevel(cfg)

----------------------------------------------------------------------------
(* The edits callers make to their copy. An edit the code refuses has no   *)
(* result: it leads to no Save.                                            *)

NoEdit == [kind |-> "none"]

\* PUT /api/tunnels/{key}, or POST /api/tunnels with a key.
PutEdits == [kind : {"put"}, key : Keys, setting : Settings, local : BOOLEAN, manager : BOOLEAN]
\* A profile saved without a key: the OAuth console's "save local profile".
CreateEdits == [kind : {"create"}, setting : Settings]
DeleteEdits == [kind : {"delete"}, key : Keys]
ActivateEdits == [kind : {"activate"}, key : Keys]
\* POST /api/config and the MCP tool update_config: top-level fields.
PostEdits == [kind : {"post"}, active : {NoKey} \cup Keys, setting : Settings, manager : BOOLEAN]
\* POST /api/features.
FeatureEdits == [kind : {"manager", "ddns"}, on : BOOLEAN]
\* A whole profile list: an imported backup, or POST /api/config with tunnels.
ImportEdits == [kind : {"import"},
                keys : {<<DefaultTunnelProfileKey>>, <<NumberedKey(2), NumberedKey(2)>>},
                active : {DefaultTunnelProfileKey, NumberedKey(2)}]
Edits == PutEdits \cup CreateEdits \cup DeleteEdits \cup ActivateEdits
            \cup PostEdits \cup FeatureEdits \cup ImportEdits

PutProfile(cfg, profile) ==
    LET t == NormalProfile(profile, Len(cfg.tunnels) + 1)
        put == IF t.key \in KeysOf(cfg.tunnels)
               THEN [cfg EXCEPT !.tunnels[IndexOf(cfg.tunnels, t.key)] = t]
               ELSE [cfg EXCEPT !.tunnels = Append(@, t)]
    IN  applyActiveTunnelToTopLevel(put)

\* Keys are distinct, so one profile goes; those behind it move up.
DeleteProfile(cfg, key) ==
    LET at == IndexOf(cfg.tunnels, key)
        rest == [i \in 1..(Len(cfg.tunnels) - 1) |-> cfg.tunnels[IF i < at THEN i ELSE i + 1]]
    IN  applyActiveTunnelToTopLevel(
            [cfg EXCEPT !.tunnels = rest, !.active = IF @ = key THEN rest[1].key ELSE @])

\* The imported profiles are switched off. One whose key is already known keeps
\* its remote management.
ImportedProfile(cfg, key) ==
    Profile(key, DefaultSetting, FALSE,
            /\ key \in KeysOf(cfg.tunnels)
            /\ cfg.tunnels[IndexOf(cfg.tunnels, key)].manager)

Allowed(e, cfg) ==
    CASE e.kind = "put" -> e.key \in KeysOf(cfg.tunnels) \/ Len(cfg.tunnels) < MaxProfiles
      [] e.kind = "create" -> Len(cfg.tunnels) < MaxProfiles
      [] e.kind = "delete" -> Len(cfg.tunnels) > 1 /\ e.key \in KeysOf(cfg.tunnels)
      [] e.kind = "activate" -> e.key \in KeysOf(cfg.tunnels)
      [] e.kind = "ddns" -> e.on => cfg.manager
      [] OTHER -> TRUE

Edited(e, cfg) ==
    CASE e.kind = "put" -> PutProfile(cfg, Profile(e.key, e.setting, e.local, e.manager))
      [] e.kind = "create" -> PutProfile(cfg, Profile(NoKey, e.setting, TRUE, TRUE))
      [] e.kind = "delete" -> DeleteProfile(cfg, e.key)
      [] e.kind = "activate" -> applyActiveTunnelToTopLevel([cfg EXCEPT !.active = e.key])
      [] e.kind = "post" ->
            [cfg EXCEPT !.active = e.active, !.setting = e.setting, !.manager = e.manager]
      [] e.kind = "manager" -> [cfg EXCEPT !.manager = e.on, !.ddns = @ /\ e.on]
      [] e.kind = "ddns" -> [cfg EXCEPT !.ddns = e.on]
      [] e.kind = "import" ->
            [cfg EXCEPT !.tunnels = [i \in DOMAIN e.keys |-> ImportedProfile(cfg, e.keys[i])],
                        !.active = e.active]

----------------------------------------------------------------------------
VARIABLES process,     \* "down", "importing" a legacy source, or "up"
          mem,         \* Manager.cfg
          disk,        \* the structured tables, or NoConfig
          table, file, \* the legacy app_configs table and config.json: a setting or NoConfig
          saveMu,      \* the caller that holds it, or Nobody
          pc,          \* where each caller is
          edit, copy,  \* its edit and the configuration it will save
          edits, crashes,
          \* ghosts
          overtaken,   \* callers whose copy is older than the memory copy
          mixed,       \* an overtaken copy was saved since the last boot
          origin       \* the setting the first boot should find

vars == <<process, mem, disk, table, file, saveMu, pc, edit, copy, edits, crashes,
          overtaken, mixed, origin>>

callers == <<saveMu, pc, edit, copy, overtaken>>

Init ==
    /\ process = "down"
    /\ mem = DefaultConfig
    /\ disk = NoConfig
    /\ table \in {NoConfig} \cup TableSettings
    /\ file \in {NoConfig} \cup FileSettings
    /\ saveMu = Nobody
    /\ pc = [c \in Callers |-> "idle"]
    /\ edit = [c \in Callers |-> NoEdit]
    /\ copy = [c \in Callers |-> DefaultConfig]
    /\ edits = 0 /\ crashes = 0
    /\ overtaken = {}
    /\ mixed = FALSE
    /\ origin = IF table # NoConfig THEN table
                ELSE IF file # NoConfig THEN file ELSE DefaultSetting

----------------------------------------------------------------------------
(* NewManager and Load                                                     *)

\* Mutant: a legacy table that is still there is imported again.
Mutant_LegacyFirst ==
    /\ process = "down" /\ disk # NoConfig
    /\ disk' = IF table # NoConfig THEN Stored(LegacyConfig(table)) ELSE disk
    /\ mem' = applyActiveTunnelToTopLevel(disk')
    /\ process' = "up"
    /\ table' \in {table, NoConfig}
    /\ mixed' = FALSE
    /\ UNCHANGED <<file, callers, edits, crashes, origin>>

\* The structured tables exist: they are the configuration. A table left by
\* an import that crashed is dropped, if that succeeds.
LoadStructured ==
    /\ process = "down" /\ disk # NoConfig
    /\ mem' = applyActiveTunnelToTopLevel(disk)
    /\ process' = "up"
    /\ table' \in {table, NoConfig}
    /\ mixed' = FALSE
    /\ UNCHANGED <<disk, file, callers, edits, crashes, origin>>

\* Mutant: defaults are stored before the legacy sources are looked at.
Mutant_DefaultsFirst ==
    /\ process = "down" /\ disk = NoConfig
    /\ disk' = Stored(DefaultConfig)
    /\ mem' = DefaultConfig
    /\ process' = "importing"
    /\ UNCHANGED <<table, file, callers, edits, crashes, mixed, origin>>

\* Otherwise the first legacy source is stored, or the defaults.
ImportLegacy ==
    /\ process = "down" /\ disk = NoConfig
    /\ LET found == IF table # NoConfig THEN LegacyConfig(table)
                    ELSE IF file # NoConfig THEN LegacyConfig(file) ELSE DefaultConfig
       IN  /\ disk' = Stored(found)
           /\ mem' = applyActiveTunnelToTopLevel(found)
    /\ process' = "importing"
    /\ UNCHANGED <<table, file, callers, edits, crashes, mixed, origin>>

\* The source that was imported is dropped or renamed; a failure is logged.
CleanupLegacy ==
    /\ process = "importing"
    /\ process' = "up"
    /\ IF table # NoConfig THEN table' \in {table, NoConfig} /\ file' = file
                           ELSE file' \in {file, NoConfig} /\ table' = table
    /\ UNCHANGED <<mem, disk, callers, edits, crashes, mixed, origin>>

Crash ==
    /\ process # "down" /\ crashes < MaxCrashes
    /\ process' = "down"
    /\ crashes' = crashes + 1
    /\ saveMu' = Nobody
    /\ pc' = [c \in Callers |-> "idle"]
    /\ edit' = [c \in Callers |-> NoEdit]
    /\ copy' = [c \in Callers |-> DefaultConfig]
    /\ overtaken' = {}
    /\ mem' = DefaultConfig
    /\ UNCHANGED <<disk, table, file, edits, mixed, origin>>

----------------------------------------------------------------------------
(* A caller: Get and edit, take saveMu and merge, commit, publish          *)

GetAndEdit(c, e) ==
    /\ process = "up" /\ pc[c] = "idle" /\ edits < MaxEdits
    /\ Allowed(e, mem)
    /\ edits' = edits + 1
    /\ pc' = [pc EXCEPT ![c] = "edited"]
    /\ edit' = [edit EXCEPT ![c] = e]
    /\ copy' = [copy EXCEPT ![c] = Edited(e, mem)]
    /\ UNCHANGED <<process, mem, disk, table, file, saveMu, crashes, overtaken, mixed, origin>>

BeginSave(c) ==
    /\ pc[c] = "edited" /\ saveMu = Nobody
    /\ saveMu' = c
    /\ copy' = [copy EXCEPT ![c] = Merged(copy[c], mem)]
    /\ pc' = [pc EXCEPT ![c] = "merged"]
    /\ UNCHANGED <<process, mem, disk, table, file, edit, edits, crashes, overtaken, mixed, origin>>

Commit(c) ==
    /\ pc[c] = "merged"
    /\ disk' = Stored(copy[c])
    /\ pc' = [pc EXCEPT ![c] = "committed"]
    /\ UNCHANGED <<process, mem, table, file, saveMu, edit, copy, edits, crashes, overtaken, mixed, origin>>

\* The caller returns: its edit and copy are gone, saveMu is free.
Return(c) ==
    /\ saveMu' = Nobody
    /\ pc' = [pc EXCEPT ![c] = "idle"]
    /\ edit' = [edit EXCEPT ![c] = NoEdit]
    /\ copy' = [copy EXCEPT ![c] = DefaultConfig]

\* Mutant: the memory copy is replaced although the transaction failed.
Mutant_FailurePublishes(c) ==
    /\ pc[c] = "merged"
    /\ mem' = copy[c]
    /\ Return(c)
    /\ overtaken' = {d \in Callers \ {c} : pc[d] = "edited"}
    /\ mixed' = (mixed \/ c \in overtaken)
    /\ UNCHANGED <<process, disk, table, file, edits, crashes, origin>>

\* The transaction fails and is rolled back: Save reports the error.
CommitFails(c) ==
    /\ pc[c] = "merged"
    /\ Return(c)
    /\ overtaken' = overtaken \ {c}
    /\ UNCHANGED <<process, mem, disk, table, file, edits, crashes, mixed, origin>>

Publish(c) ==
    /\ pc[c] = "committed"
    /\ mem' = copy[c]
    /\ Return(c)
    /\ overtaken' = {d \in Callers \ {c} : pc[d] = "edited"}
    /\ mixed' = (mixed \/ c \in overtaken)
    /\ UNCHANGED <<process, disk, table, file, edits, crashes, origin>>

Next ==
    \/ LoadStructured \/ ImportLegacy \/ CleanupLegacy \/ Crash
    \/ \E c \in Callers :
        \/ \E e \in Edits : GetAndEdit(c, e)
        \/ BeginSave(c) \/ Commit(c) \/ CommitFails(c) \/ Publish(c)

Spec == Init /\ [][Next]_vars

----------------------------------------------------------------------------
(* Properties                                                              *)

\* What the mirror adds nothing to: the profiles, the active key and DDNS.
Essence(cfg) == <<cfg.tunnels, cfg.active, cfg.ddns>>

Mirrored(cfg) == cfg.setting = ActiveTunnelProfile(cfg).setting
                 /\ cfg.manager = ActiveTunnelProfile(cfg).manager

\* The type invariant, with the discipline of saveMu: exactly the caller that
\* is between its merge and its return holds it.
TypeOK ==
    /\ process \in {"down", "importing", "up"}
    /\ table \in {NoConfig} \cup TableSettings /\ file \in {NoConfig} \cup FileSettings
    /\ origin \in Settings
    /\ saveMu \in Callers \cup {Nobody}
    /\ pc \in [Callers -> {"idle", "edited", "merged", "committed"}]
    /\ \A c \in Callers : saveMu = c <=> pc[c] \in {"merged", "committed"}
    /\ edits \in 0..MaxEdits /\ crashes \in 0..MaxCrashes
    /\ overtaken \subseteq Callers /\ mixed \in BOOLEAN

\* Whenever no save is between its commit and its publication, memory and
\* database hold the same profiles, so a restart changes none (config.go:495-537).
MemoryMatchesDisk ==
    process = "up" /\ (\A c \in Callers : pc[c] # "committed") => Essence(mem) = Essence(disk)

\* The legacy fields every single-tunnel endpoint reads are those of the
\* active profile, as long as no save carried a copy older than memory.
ActiveProfileIsMirrored == process # "down" /\ ~mixed => Mirrored(mem)

\* The first boot ends with the settings of the legacy source with the highest
\* priority, also when it crashes between the import and the cleanup
\* (storage.go:36-51, configmigrate.go:31-48).
LegacySettingsKept == process # "down" /\ edits = 0 => mem.setting = origin

\* Once the structured tables exist, only a caller's save changes them: a
\* legacy source left behind is never imported over later edits.
LegacyNeverOverrides ==
    [][disk # NoConfig /\ disk' # disk => \E c \in Callers : pc[c] = "merged"]_vars

ProfileMap(cfg) ==
    [k \in KeysOf(cfg.tunnels) |-> cfg.tunnels[IndexOf(cfg.tunnels, k)]]

Known(cfg, key) == IF key \in KeysOf(cfg.tunnels) THEN key ELSE cfg.tunnels[1].key

\* What each edit means: the profiles and the active key after it, from those
\* before it. A post that names another active profile only switches to it.
\* An edit that gives the active profile another setting also enables it: the
\* merge takes it from the top level (tunnelProfileFromTopLevel), so that a put
\* that switches the active profile off and changes a setting does not switch
\* it off.
Means(e, old, new) ==
    LET was == ProfileMap(old)
        is == ProfileMap(new)
        enables == e.setting # was[old.active].setting
        activeNow(p) == is = [was EXCEPT ![old.active] = p] /\ new.active = old.active
    IN  CASE e.kind = "put" ->
                /\ DOMAIN is = DOMAIN was \cup {e.key}
                /\ \A k \in DOMAIN is :
                      is[k] = IF k # e.key THEN was[k]
                              ELSE Profile(k, e.setting, e.local \/ (k = old.active /\ enables),
                                           e.manager)
                /\ new.active = old.active
          [] e.kind = "create" ->
                \E key \in DOMAIN is :
                    /\ is[key].setting = e.setting
                    /\ \A k \in DOMAIN was \ {key} : k \in DOMAIN is /\ is[k] = was[k]
          [] e.kind = "delete" ->
                /\ DOMAIN is = DOMAIN was \ {e.key}
                /\ \A k \in DOMAIN is : is[k] = was[k]
                /\ old.active # e.key => new.active = old.active
          [] e.kind = "activate" -> is = was /\ new.active = e.key
          [] e.kind = "post" ->
                IF e.active \in {NoKey, old.active}
                THEN activeNow(Profile(old.active, e.setting, was[old.active].local \/ enables, e.manager))
                ELSE is = was /\ new.active = Known(old, e.active)
          [] e.kind = "manager" ->
                /\ activeNow([was[old.active] EXCEPT !.manager = e.on])
                /\ ~e.on => ~new.ddns
          [] e.kind = "ddns" -> is = was /\ new.active = old.active /\ new.ddns = e.on
          [] OTHER -> TRUE

\* An edit whose copy no other save overtook does what it says and nothing
\* else: Save's merge neither reverts it nor touches another profile
\* (config.go:515-521). It is promised only while the mirror is intact: after
\* an overtaken save it may not be, and the merge then takes the difference
\* for an edit.
EditIsExact ==
    [][\A c \in Callers : pc[c] = "committed" /\ pc'[c] = "idle" /\ process' = "up"
            /\ c \notin overtaken /\ ~mixed
            => Means(edit[c], mem, mem')]_vars

\* The promise of a created profile: it gets a key of its own and no profile
\* is lost (README.md:187, config.go:574-576).
CreateAddsProfile ==
    [][\A c \in Callers :
         pc[c] = "committed" /\ pc'[c] = "idle" /\ process' = "up"
            /\ c \notin overtaken /\ edit[c].kind = "create"
            => \A k \in DOMAIN ProfileMap(mem) :
                  k \in DOMAIN ProfileMap(mem') /\ ProfileMap(mem')[k] = ProfileMap(mem)[k]]_vars
=============================================================================
