------------------------- MODULE DesktopShellProofs -------------------------
(***************************************************************************)
(* For every version of the settings file, every number of launches and of *)
(* writes in flight: what the user chose is what the app uses, and the     *)
(* window has the theme of the preference.  And for every set of meetings  *)
(* and every page size: the history skips no meeting.                      *)
(***************************************************************************)
EXTENDS DesktopShell, MeetingHistory, SequenceTheorems, FiniteSetTheorems,
        WellFoundedInduction, TLAPS

SettingKeys == {"theme", "language"}

WriteRec == [key : SettingKeys, value : Values.theme \cup Values.language]

FileRec == [version : Nat, values : Settings]

(* TypeOK by the part of the shell it is about. *)
GateType ==
    /\ scene \in Scenes /\ launches \in 1..MaxLaunches
    /\ mounted \in BOOLEAN
    /\ session \in BOOLEAN /\ signOut \in BOOLEAN
    /\ gate \in {"loading", "authenticated", "unauthenticated"}
    /\ signIn \in {"none", "browser"}

SettingsType ==
    /\ file \in FileRec /\ writes \in Seq(WriteRec)
    /\ settings \in Settings /\ chosen \in Settings
    /\ hydrated \in BOOLEAN /\ lost \in BOOLEAN

ThemeType ==
    /\ os \in {"light", "dark"} /\ cache \in Themes
    /\ dark \in BOOLEAN /\ effectDue \in BOOLEAN

UpdaterType ==
    /\ released \in BOOLEAN /\ dismissed \in BOOLEAN /\ staged \in BOOLEAN
    /\ update \in {"idle", "checking", "downloading", "ready", "error"}
    /\ run \in {"none", "check", "download"}
    /\ orphan \in BOOLEAN /\ installing \in BOOLEAN /\ busy \in BOOLEAN

(* A queued write has a value of its setting. *)
WritesTyped == \A i \in 1..Len(writes) : writes[i].value \in Values[writes[i].key]

(* Once the queued writes have landed the file holds the choice for k: the  *)
(* last of them that is about k writes it, or the file has it already.      *)
NoWrite(k) == \A i \in 1..Len(writes) : writes[i].key # k

LastWrite(k, i) ==
    /\ i \in 1..Len(writes) /\ writes[i].key = k /\ writes[i].value = chosen[k]
    /\ \A j \in 1..Len(writes) : j > i => writes[j].key # k

WillHold(k) ==
    \/ NoWrite(k) /\ file.values[k] = chosen[k]
    \/ \E i \in 1..Len(writes) : LastWrite(k, i)

(* Why SettingsKept holds: while nothing went wrong, nothing is written     *)
(* before the settings are loaded, a file to be seeded means that nothing   *)
(* was ever chosen, and a file of this build will hold every choice.        *)
FileFollows ==
    ~lost =>
        /\ ~hydrated => writes = <<>>
        /\ file.version < SchemaVersion => ~hydrated /\ chosen = Defaults
        /\ file.version = SchemaVersion =>
              /\ \A k \in SettingKeys : WillHold(k)
              /\ hydrated => settings = chosen

MountedFirst == hydrated => mounted

(* The inductive invariant. *)
Inv == TypeOK /\ WritesTyped /\ FileFollows /\ MountedFirst /\ ThemeShown

-----------------------------------------------------------------------------
LEMMA TypeSplit ==
    /\ TypeOK <=> GateType /\ SettingsType /\ ThemeType /\ UpdaterType
    /\ TypeOK' <=> GateType' /\ SettingsType' /\ ThemeType' /\ UpdaterType'
BY DEF TypeOK, GateType, SettingsType, ThemeType, UpdaterType, FileRec, WriteRec, SettingKeys

LEMMA DefaultsTyped == Defaults \in Settings /\ DOMAIN Defaults = SettingKeys
BY DEF Defaults, Settings, Values, Themes, SettingKeys

LEMMA SetTyped ==
    ASSUME NEW f \in Settings, NEW k \in SettingKeys, NEW v \in Values[k]
    PROVE  /\ [f EXCEPT ![k] = v] \in Settings
           /\ [f EXCEPT ![k] = v][k] = v
           /\ \A j \in SettingKeys : j # k => [f EXCEPT ![k] = v][j] = f[j]
BY DEF Settings, Values, Themes, SettingKeys

LEMMA SameSettings ==
    ASSUME NEW f \in Settings, NEW g \in Settings, \A k \in SettingKeys : f[k] = g[k]
    PROVE  f = g
BY DEF Settings, Values, Themes, SettingKeys

LEMMA SettingValues ==
    ASSUME NEW f \in Settings, NEW k \in SettingKeys
    PROVE  f[k] \in Values[k]
BY DEF Settings, Values, Themes, SettingKeys

LEMMA InitInv == Init => Inv
<1> SUFFICES ASSUME Init PROVE Inv
  OBVIOUS
<1>1. file \in FileRec /\ file.values = Defaults
  BY ShellAssumption, DefaultsTyped DEF Init, FileRec
<1>2. TypeOK
  <2>1. GateType
    <3>1. /\ scene \in Scenes /\ launches = 1 /\ gate = "loading" /\ signIn = "none"
          /\ mounted = FALSE /\ session \in BOOLEAN /\ signOut = FALSE
      BY DEF Init
    <3>2. launches \in 1..MaxLaunches
      BY <3>1, ShellAssumption
    <3> QED BY <3>1, <3>2 DEF GateType
  <2>2. SettingsType
    <3>1. /\ settings = Defaults /\ chosen = Defaults /\ hydrated = FALSE
          /\ lost = FALSE /\ writes = <<>>
      BY DEF Init
    <3>2. writes \in Seq(WriteRec)
      BY <3>1
    <3> QED BY <1>1, <3>1, <3>2, DefaultsTyped, Zenon DEF SettingsType
  <2>3. ThemeType
    <3>1. dark \in BOOLEAN
      BY DEF Init
    <3> QED BY <3>1 DEF Init, ThemeType, Themes
  <2>4. UpdaterType
    BY DEF Init, UpdaterType
  <2> QED BY <2>1, <2>2, <2>3, <2>4, TypeSplit
<1>3. WritesTyped
  BY DEF Init, WritesTyped
<1>4. FileFollows
  <2>1. \A k \in SettingKeys : WillHold(k)
    BY <1>1 DEF Init, WillHold, NoWrite
  <2> QED BY <2>1 DEF Init, FileFollows
<1>5. MountedFirst /\ ThemeShown
  BY DEF Init, MountedFirst, ThemeShown
<1> QED BY <1>2, <1>3, <1>4, <1>5 DEF Inv

(* Steps of the gate and of the updater leave settings and theme alone.     *)
LEMMA Elsewhere ==
    ASSUME Inv, TypeOK', mounted => mounted', UNCHANGED <<settingsVars, themeVars>>
    PROVE  Inv'
<1>1. WritesTyped'
  BY DEF Inv, WritesTyped, settingsVars
<1>2. FileFollows'
  BY DEF Inv, FileFollows, WillHold, NoWrite, LastWrite, settingsVars
<1>3. MountedFirst' /\ ThemeShown'
  BY DEF Inv, MountedFirst, ThemeShown, TypeOK, settingsVars, themeVars
<1> QED BY <1>1, <1>2, <1>3 DEF Inv

-----------------------------------------------------------------------------
LEMMA GateSteps ==
    ASSUME Inv,
           Mount \/ HydrateAuth \/ StartLogin \/ LoginLands \/ LoginErrors \/ Logout
           \/ LogoutReplies
    PROVE  Inv'
<1> USE DEF Inv, TypeOK, authVars, settingsVars, themeVars, updateVars, checkerVars
<1>1. CASE Mount
  BY <1>1, Elsewhere DEF Mount
<1>2. CASE HydrateAuth
  BY <1>2, Elsewhere DEF HydrateAuth, EnterShell, StartRun
<1>3. CASE StartLogin
  BY <1>3, Elsewhere DEF StartLogin
<1>4. CASE LoginLands
  BY <1>4, Elsewhere DEF LoginLands, EnterShell, StartRun
<1>5. CASE LoginErrors
  BY <1>5, Elsewhere DEF LoginErrors
<1>6. CASE Logout
  <2>1. session' \in BOOLEAN
    BY <1>6 DEF Logout
  <2> QED BY <1>6, <2>1, Elsewhere DEF Logout
<1>7. CASE LogoutReplies
  <2>1. orphan' \in BOOLEAN
    BY <1>7 DEF LogoutReplies, LeaveShell
  <2>2. /\ gate' = "unauthenticated" /\ run' = "none" /\ signOut' = FALSE
        /\ signIn' = "none"
        /\ UNCHANGED <<scene, launches, mounted, session, settingsVars, themeVars,
                       released, update, dismissed, staged, installing, busy>>
    BY <1>7 DEF LogoutReplies, LeaveShell
  <2>3. GateType' /\ SettingsType' /\ ThemeType'
    BY <2>2, TypeSplit DEF GateType, SettingsType, ThemeType
  <2>4. UpdaterType'
    BY <2>1, <2>2, TypeSplit DEF UpdaterType
  <2>5. TypeOK'
    BY <2>3, <2>4, TypeSplit
  <2> QED BY <2>2, <2>5, Elsewhere
<1> QED BY <1>1, <1>2, <1>3, <1>4, <1>5, <1>6, <1>7

LEMMA UpdaterSteps ==
    ASSUME Inv,
           DailyTick \/ CheckAnswers \/ DownloadStages \/ RunFails \/ OrphanEnds
           \/ NewRelease \/ Dismiss \/ Install \/ InstallFails \/ RecordingToggles
    PROVE  Inv'
<1> USE DEF Inv, TypeOK, authVars, settingsVars, themeVars, updateVars, checkerVars
<1>1. CASE DailyTick
  BY <1>1, Elsewhere DEF DailyTick, StartRun
<1>2. CASE CheckAnswers
  <2>1. /\ update' \in {"downloading", "idle"} /\ run' \in {"download", "none"}
        /\ dismissed' \in {FALSE, dismissed}
    BY <1>2 DEF CheckAnswers
  <2>2. dismissed' \in BOOLEAN
    BY <2>1
  <2> QED BY <1>2, <2>1, <2>2, Elsewhere DEF CheckAnswers
<1>3. CASE DownloadStages
  BY <1>3, Elsewhere DEF DownloadStages
<1>4. CASE RunFails
  BY <1>4, Elsewhere DEF RunFails
<1>5. CASE OrphanEnds
  <2>1. staged' \in BOOLEAN
    BY <1>5 DEF OrphanEnds
  <2>2. /\ orphan' = FALSE
        /\ UNCHANGED <<scene, launches, mounted, authVars, settingsVars, themeVars,
                       released, update, dismissed, run, installing, busy>>
    BY <1>5 DEF OrphanEnds
  <2>3. GateType' /\ SettingsType' /\ ThemeType'
    BY <2>2, TypeSplit DEF GateType, SettingsType, ThemeType
  <2>4. UpdaterType'
    BY <2>1, <2>2, TypeSplit DEF UpdaterType
  <2>5. TypeOK'
    BY <2>3, <2>4, TypeSplit
  <2> QED BY <2>2, <2>5, Elsewhere
<1>6. CASE NewRelease
  BY <1>6, Elsewhere DEF NewRelease
<1>7. CASE Dismiss
  BY <1>7, Elsewhere DEF Dismiss
<1>8. CASE Install \/ InstallFails
  <2>1. installing' \in BOOLEAN
    BY <1>8 DEF Install, InstallFails
  <2> QED BY <1>8, <2>1, Elsewhere DEF Install, InstallFails
<1>9. CASE RecordingToggles
  BY <1>9, Elsewhere DEF RecordingToggles
<1> QED BY <1>1, <1>2, <1>3, <1>4, <1>5, <1>6, <1>7, <1>8, <1>9

(* A launch forgets the writes in flight, and says so.                      *)
LEMMA RelaunchInv ==
    ASSUME Inv, Relaunch, released' \in BOOLEAN
    PROVE  Inv'
<1>1. /\ writes' = <<>> /\ settings' = Defaults /\ hydrated' = FALSE
      /\ UNCHANGED <<file, chosen>> /\ lost' = (lost \/ writes # <<>>)
  BY DEF Relaunch, Boot
<1>2. TypeOK'
  <2>1. dark' \in BOOLEAN /\ lost' \in BOOLEAN
    BY DEF Relaunch, Boot
  <2>2. launches' \in 1..MaxLaunches
    BY ShellAssumption DEF Relaunch, Inv, TypeOK
  <2>3. writes' \in Seq(WriteRec)
    BY <1>1
  <2> QED
    BY <1>1, <2>1, <2>2, <2>3, DefaultsTyped
    DEF Relaunch, Boot, Inv, TypeOK, WriteRec, SettingKeys
<1>3. WritesTyped'
  BY <1>1 DEF WritesTyped
<1>4. FileFollows'
  <2> SUFFICES ASSUME ~lost'
               PROVE  /\ file'.version < SchemaVersion => chosen' = Defaults
                      /\ file'.version = SchemaVersion => \A k \in SettingKeys : WillHold(k)'
    BY <1>1 DEF FileFollows
  <2>1. ~lost /\ writes = <<>>
    BY <1>1
  <2> QED BY <1>1, <2>1 DEF Inv, FileFollows, WillHold, NoWrite, LastWrite
<1>5. MountedFirst' /\ ThemeShown'
  BY <1>1 DEF MountedFirst, ThemeShown
<1> QED BY <1>2, <1>3, <1>4, <1>5 DEF Inv

LEMMA HydrateSettingsInv ==
    ASSUME Inv, HydrateSettings
    PROVE  Inv'
<1>1. file \in FileRec /\ settings \in Settings /\ chosen \in Settings /\ lost \in BOOLEAN
  BY DEF Inv, TypeOK, FileRec
<1>2. settings' \in Settings /\ file' \in FileRec /\ lost' \in BOOLEAN
  <2>1. Loaded(file) \in Settings /\ Seeded(file) \in FileRec
    BY <1>1, DefaultsTyped DEF Loaded, Seeded, FileRec, SchemaVersion
  <2>2. settings' \in Settings /\ file' \in FileRec
    BY <1>1, <2>1, DefaultsTyped DEF HydrateSettings
  <2>3. lost' \in BOOLEAN
    BY <1>1 DEF HydrateSettings
  <2> QED BY <2>2, <2>3
<1>3. TypeOK'
  BY <1>2 DEF HydrateSettings, Inv, TypeOK, FileRec, authVars, updateVars, checkerVars
<1>4. WritesTyped'
  BY DEF HydrateSettings, Inv, WritesTyped
<1>5. FileFollows'
  <2> SUFFICES ASSUME ~lost'
               PROVE  /\ file'.version >= SchemaVersion
                      /\ file'.version = SchemaVersion =>
                            /\ \A k \in SettingKeys : WillHold(k)'
                            /\ settings' = chosen'
    BY <1>2 DEF FileFollows, HydrateSettings, FileRec, SchemaVersion
  <2>1. /\ settings' = Loaded(file) /\ file' = Seeded(file) /\ ~lost /\ writes = <<>>
        /\ UNCHANGED <<writes, chosen>>
    BY <1>1 DEF HydrateSettings, Inv, FileFollows
  <2>2. CASE file.version < SchemaVersion
    <3>1. /\ file' = [version |-> SchemaVersion, values |-> Defaults]
          /\ settings' = Defaults /\ chosen = Defaults
      BY <2>1, <2>2, <1>1 DEF Loaded, Seeded, Inv, FileFollows, FileRec, SchemaVersion
    <3> QED BY <2>1, <3>1 DEF WillHold, NoWrite, SchemaVersion
  <2>3. CASE file.version = SchemaVersion
    <3>1. file' = file /\ settings' = file.values
      BY <2>1, <2>3 DEF Loaded, Seeded, SchemaVersion
    <3>2. \A k \in SettingKeys : file.values[k] = chosen[k]
      BY <2>1, <2>3 DEF Inv, FileFollows, WillHold, LastWrite
    <3>3. file.values = chosen
      BY <1>1, <3>2, SameSettings DEF FileRec
    <3> QED BY <2>1, <2>3, <3>1, <3>3 DEF WillHold, NoWrite, SchemaVersion
  <2>4. CASE file.version > SchemaVersion
    BY <2>1, <2>4, <1>1 DEF Seeded, SchemaVersion, FileRec
  <2> QED BY <1>1, <2>2, <2>3, <2>4 DEF FileRec, SchemaVersion
<1>6. MountedFirst' /\ ThemeShown'
  BY DEF HydrateSettings, MountedFirst, ThemeShown
<1> QED BY <1>3, <1>4, <1>5, <1>6 DEF Inv

(* A setter changes the memory and queues the write; a choice made before   *)
(* the settings are loaded is one that may get lost.                        *)
LEMMA ChangeSettingInv ==
    ASSUME Inv, NEW k \in SettingKeys, NEW v \in Values[k], ChangeSetting(k, v)
    PROVE  Inv'
<1> DEFINE w == [key |-> k, value |-> v]
<1>1. /\ settings \in Settings /\ chosen \in Settings /\ writes \in Seq(WriteRec)
      /\ lost \in BOOLEAN /\ hydrated \in BOOLEAN
  BY DEF Inv, TypeOK, WriteRec, SettingKeys
<1>2. /\ settings' = [settings EXCEPT ![k] = v] /\ chosen' = [chosen EXCEPT ![k] = v]
      /\ writes' = Append(writes, w) /\ lost' = (lost \/ ~hydrated)
      /\ UNCHANGED <<file, hydrated>>
  BY DEF ChangeSetting
<1>3. w \in WriteRec
  BY DEF WriteRec, SettingKeys, Values
<1>4. /\ writes' \in Seq(WriteRec) /\ Len(writes') = Len(writes) + 1
      /\ writes'[Len(writes) + 1] = w /\ Len(writes) \in Nat
      /\ \A i \in 1..Len(writes) : writes'[i] = writes[i]
  BY <1>1, <1>2, <1>3
<1>5. TypeOK'
  <2>1. lost' \in BOOLEAN /\ effectDue' \in BOOLEAN
    BY DEF ChangeSetting
  <2>2. settings' \in Settings /\ chosen' \in Settings
    BY <1>1, <1>2, SetTyped
  <2> QED
    BY <1>4, <2>1, <2>2
    DEF ChangeSetting, Inv, TypeOK, WriteRec, SettingKeys, authVars, updateVars, checkerVars
<1>6. WritesTyped'
  BY <1>4 DEF Inv, WritesTyped
<1>7. FileFollows'
  <2> SUFFICES ASSUME ~lost'
               PROVE  /\ hydrated
                      /\ file.version >= SchemaVersion
                      /\ file.version = SchemaVersion =>
                            /\ \A j \in SettingKeys : WillHold(j)'
                            /\ settings' = chosen'
    BY <1>2 DEF FileFollows, SchemaVersion, Inv, TypeOK
  <2>1. ~lost /\ hydrated
    BY <1>2
  <2>2. file.version >= SchemaVersion
    BY <2>1 DEF Inv, FileFollows, TypeOK, SchemaVersion
  <2>3. ASSUME file.version = SchemaVersion PROVE settings' = chosen'
    BY <1>2, <2>1, <2>3 DEF Inv, FileFollows
  <2>4. ASSUME file.version = SchemaVersion, NEW j \in SettingKeys PROVE WillHold(j)'
    <3>1. CASE j = k
      <4>1. LastWrite(j, Len(writes))'
        <5>1. writes'[Len(writes')].key = k /\ writes'[Len(writes')].value = v
          BY <1>4
        <5>2. chosen'[k] = v
          BY <1>1, <1>2, SetTyped
        <5> QED BY <1>4, <3>1, <5>1, <5>2 DEF LastWrite
      <4> QED BY <1>4, <4>1 DEF WillHold
    <3>2. CASE j # k
      <4>1. chosen'[j] = chosen[j]
        BY <1>1, <1>2, <3>2, SetTyped
      <4>2. WillHold(j)
        BY <2>1, <2>4 DEF Inv, FileFollows
      <4>3. CASE NoWrite(j) /\ file.values[j] = chosen[j]
        <5>1. NoWrite(j)'
          BY <1>4, <3>2, <4>3 DEF NoWrite
        <5> QED BY <1>2, <4>1, <4>3, <5>1 DEF WillHold
      <4>4. ASSUME NEW i \in 1..Len(writes), LastWrite(j, i) PROVE WillHold(j)'
        <5>1. LastWrite(j, i)'
          BY <1>4, <3>2, <4>1, <4>4 DEF LastWrite
        <5> QED BY <1>4, <5>1 DEF WillHold
      <4> QED BY <4>2, <4>3, <4>4 DEF WillHold
    <3> QED BY <3>1, <3>2
  <2> QED BY <2>1, <2>2, <2>3, <2>4
<1>8. MountedFirst'
  BY DEF ChangeSetting, Inv, MountedFirst
<1>9. ThemeShown'
  <2>1. CASE k = "theme"
    BY <2>1 DEF ChangeSetting, ThemeShown
  <2>2. CASE k # "theme"
    <3>1. settings'.theme = settings.theme
      BY <1>1, <1>2, <2>2, SetTyped DEF SettingKeys, Settings
    <3> QED BY <1>1, <2>2, <3>1 DEF ChangeSetting, Inv, ThemeShown, ResolveTheme, TypeOK
  <2> QED BY <2>1, <2>2
<1> QED BY <1>5, <1>6, <1>7, <1>8, <1>9 DEF Inv

(* Writes land in the order in which they were made.                        *)
LEMMA WriteLandsInv ==
    ASSUME Inv, WriteLands
    PROVE  Inv'
<1> DEFINE k == writes[1].key
<1> DEFINE v == writes[1].value
<1>1. /\ file \in FileRec /\ writes \in Seq(WriteRec) /\ writes # <<>>
      /\ lost \in BOOLEAN /\ hydrated \in BOOLEAN
  BY DEF WriteLands, Inv, TypeOK, WriteRec, FileRec, SettingKeys
<1>2. /\ writes' \in Seq(WriteRec) /\ Len(writes') = Len(writes) - 1
      /\ Len(writes) \in Nat \ {0}
      /\ \A i \in 1..Len(writes') : writes'[i] = writes[i + 1]
  BY <1>1 DEF WriteLands
<1>3. k \in SettingKeys /\ v \in Values[k]
  <2>1. 1 \in 1..Len(writes) /\ writes[1] \in WriteRec
    BY <1>1, <1>2
  <2>2. k \in SettingKeys
    BY <2>1 DEF WriteRec
  <2> QED BY <2>1, <2>2 DEF Inv, WritesTyped
<1>4. \/ /\ file' = [file EXCEPT !.values = [file.values EXCEPT ![k] = v]]
         /\ lost' = lost
      \/ lost' = TRUE /\ file' = file
  BY <1>1 DEF WriteLands
<1>5. file' \in FileRec
  BY <1>1, <1>3, <1>4, SetTyped DEF FileRec
<1>6. TypeOK'
  <2>1. lost' \in BOOLEAN
    BY <1>1, <1>4
  <2> QED
    BY <1>2, <1>5, <2>1
    DEF WriteLands, Inv, TypeOK, WriteRec, FileRec, SettingKeys, authVars, themeVars, updateVars,
        checkerVars
<1>7. WritesTyped'
  BY <1>2 DEF Inv, WritesTyped
<1>8. FileFollows'
  <2> SUFFICES ASSUME ~lost' PROVE FileFollows'
    BY DEF FileFollows
  <2>1. /\ ~lost /\ file' = [file EXCEPT !.values = [file.values EXCEPT ![k] = v]]
        /\ UNCHANGED <<settings, hydrated, chosen>>
    BY <1>4 DEF WriteLands
  <2>2. file'.version = file.version
        /\ file'.values = [file.values EXCEPT ![k] = v] /\ file.values \in Settings
    BY <1>1, <2>1 DEF FileRec
  <2>3. hydrated
    BY <1>1, <2>1 DEF Inv, FileFollows
  <2>4. ASSUME file.version = SchemaVersion, NEW j \in SettingKeys PROVE WillHold(j)'
    <3>1. WillHold(j)
      BY <2>1, <2>4 DEF Inv, FileFollows
    <3>2. CASE NoWrite(j) /\ file.values[j] = chosen[j]
      <4>1. j # k
        BY <1>2, <3>2 DEF NoWrite
      <4>2. NoWrite(j)'
        BY <1>2, <3>2 DEF NoWrite
      <4>3. file'.values[j] = chosen'[j]
        BY <1>3, <2>1, <2>2, <3>2, <4>1, SetTyped
      <4> QED BY <4>2, <4>3 DEF WillHold
    <3>3. ASSUME NEW i \in 1..Len(writes), LastWrite(j, i) PROVE WillHold(j)'
      <4>1. CASE i = 1
        <5>1. j = k /\ v = chosen[j]
          BY <3>3, <4>1 DEF LastWrite
        <5>2. NoWrite(j)'
          BY <1>2, <3>3, <4>1 DEF NoWrite, LastWrite
        <5>3. /\ file.values \in Settings /\ k \in SettingKeys /\ v \in Values[k]
          BY <1>3, <2>2
        <5>5. [file.values EXCEPT ![k] = v][k] = v
          BY <5>3 DEF Settings, Values, Themes, SettingKeys
        <5>4. file'.values[j] = chosen'[j]
          BY <2>1, <2>2, <5>1, <5>5
        <5> QED BY <5>2, <5>4 DEF WillHold
      <4>2. CASE i > 1
        <5>1. i - 1 \in 1..Len(writes')
          BY <1>2, <4>2
        <5>2. LastWrite(j, i - 1)'
          <6>1. /\ writes'[i - 1] = writes[i] /\ chosen' = chosen
                /\ writes[i].key = j /\ writes[i].value = chosen[j]
            BY <1>2, <2>1, <3>3, <5>1 DEF LastWrite
          <6>2. ASSUME NEW n \in 1..Len(writes'), n > i - 1
                PROVE  writes'[n].key # j
            <7>1. n + 1 \in 1..Len(writes) /\ n + 1 > i /\ writes'[n] = writes[n + 1]
              BY <1>2, <6>2
            <7> QED BY <3>3, <7>1 DEF LastWrite
          <6> QED BY <5>1, <6>1, <6>2 DEF LastWrite
        <5> QED BY <5>1, <5>2 DEF WillHold
      <4> QED BY <4>1, <4>2
    <3> QED BY <3>1, <3>2, <3>3 DEF WillHold
  <2>5. file'.version < SchemaVersion => FALSE
    BY <2>1, <2>2, <2>3 DEF Inv, FileFollows
  <2>6. file'.version = SchemaVersion => settings' = chosen'
    BY <2>1, <2>2, <2>3 DEF Inv, FileFollows
  <2> QED BY <2>1, <2>2, <2>3, <2>4, <2>5, <2>6 DEF FileFollows
<1>9. MountedFirst' /\ ThemeShown'
  BY DEF WriteLands, Inv, MountedFirst, ThemeShown, themeVars
<1> QED BY <1>6, <1>7, <1>8, <1>9 DEF Inv

-----------------------------------------------------------------------------
LEMMA SettingsKeptAside ==
    ASSUME Inv, UNCHANGED settingsVars
    PROVE  WritesTyped' /\ FileFollows'
BY DEF Inv, WritesTyped, FileFollows, WillHold, NoWrite, LastWrite, settingsVars

LEMMA ApplyThemeInv ==
    ASSUME Inv, ApplyTheme
    PROVE  Inv'
<1>1. dark' \in BOOLEAN /\ cache' \in Themes
  BY DEF ApplyTheme, Inv, TypeOK, Settings, Values
<1>2. TypeOK'
  <2>1. /\ effectDue' = FALSE
        /\ UNCHANGED <<scene, launches, mounted, authVars, settingsVars, os, updateVars>>
    BY DEF ApplyTheme
  <2>2. GateType' /\ SettingsType' /\ UpdaterType'
    BY <2>1, TypeSplit
    DEF Inv, GateType, SettingsType, UpdaterType, authVars, settingsVars, updateVars,
        checkerVars
  <2>3. ThemeType'
    BY <1>1, <2>1, TypeSplit DEF Inv, ThemeType
  <2> QED BY <2>2, <2>3, TypeSplit
<1>3. MountedFirst'
  BY DEF ApplyTheme, Inv, MountedFirst, settingsVars
<1>4. ThemeShown'
  BY DEF ApplyTheme, ThemeShown, settingsVars
<1> QED BY <1>2, <1>3, <1>4, SettingsKeptAside DEF ApplyTheme, Inv

(* The listener follows the system only while the preference says so.       *)
LEMMA OsFlipsInv ==
    ASSUME Inv, OsFlips
    PROVE  Inv'
<1>1. dark' \in BOOLEAN /\ os' \in {"light", "dark"}
  BY DEF OsFlips, Inv, TypeOK
<1>2. TypeOK'
  BY <1>1 DEF OsFlips, Inv, TypeOK, authVars, settingsVars, updateVars, checkerVars
<1>3. MountedFirst'
  BY DEF OsFlips, Inv, MountedFirst, settingsVars
<1>4. ThemeShown'
  <2> SUFFICES ASSUME hydrated', ~effectDue'
               PROVE  dark' = (ResolveTheme(settings'.theme, os') = "dark")
    BY DEF ThemeShown
  <2>1. mounted /\ hydrated /\ ~effectDue /\ settings' = settings
    BY DEF OsFlips, Inv, MountedFirst, settingsVars
  <2>2. CASE settings.theme = "system"
    BY <2>1, <2>2 DEF OsFlips, ResolveTheme
  <2>3. CASE settings.theme # "system"
    BY <2>1, <2>3 DEF OsFlips, ResolveTheme, Inv, ThemeShown
  <2> QED BY <2>2, <2>3
<1> QED BY <1>2, <1>3, <1>4, SettingsKeptAside DEF OsFlips, Inv

LEMMA StutterInv ==
    ASSUME Inv, UNCHANGED vars
    PROVE  Inv'
BY Elsewhere DEF Inv, TypeOK, vars, authVars, settingsVars, themeVars, updateVars,
                 checkerVars

LEMMA NextInv ==
    ASSUME Inv, [Next]_vars
    PROVE  Inv'
<1>1. CASE QuitAndRelaunch
  BY <1>1, RelaunchInv DEF QuitAndRelaunch, Inv, TypeOK
<1>2. CASE InstallRelaunches
  BY <1>2, RelaunchInv DEF InstallRelaunches
<1>3. CASE Mount \/ HydrateAuth \/ StartLogin \/ LoginLands \/ LoginErrors \/ Logout
           \/ LogoutReplies
  BY <1>3, GateSteps
<1>4. CASE DailyTick \/ CheckAnswers \/ DownloadStages \/ RunFails \/ OrphanEnds
           \/ NewRelease \/ Dismiss \/ Install \/ InstallFails \/ RecordingToggles
  BY <1>4, UpdaterSteps
<1>5. CASE HydrateSettings \/ WriteLands
  BY <1>5, HydrateSettingsInv, WriteLandsInv
<1>6. ASSUME NEW k \in DOMAIN Defaults, NEW v \in Values[k], ChangeSetting(k, v)
      PROVE  Inv'
  BY <1>6, ChangeSettingInv, DefaultsTyped
<1>7. CASE ApplyTheme \/ OsFlips
  BY <1>7, ApplyThemeInv, OsFlipsInv
<1>8. CASE UNCHANGED vars
  BY <1>8, StutterInv
<1> QED BY <1>1, <1>2, <1>3, <1>4, <1>5, <1>6, <1>7, <1>8 DEF Next

-----------------------------------------------------------------------------
(* The shell keeps its inductive invariant over any number of launches.     *)
THEOREM ShellInvariant == Spec => []Inv
<1>1. Inv /\ [Next]_vars => Inv'
  BY NextInv
<1> QED BY InitInv, <1>1, PTL DEF Spec

(* The stores, the keyring, the settings file and the caches keep their     *)
(* types.                                                                   *)
THEOREM TypeCorrect == Spec => []TypeOK
<1>1. Inv => TypeOK
  BY DEF Inv
<1> QED BY ShellInvariant, <1>1, PTL

(* The app uses what the user chose, in this launch and after later ones.   *)
THEOREM ChoicesAreKept == Spec => []SettingsKept
<1>1. Inv => SettingsKept
  BY DEF Inv, TypeOK, FileFollows, SettingsKept, SchemaVersion
<1> QED BY ShellInvariant, <1>1, PTL

(* The window has the theme of the preference.                              *)
THEOREM ThemeAlwaysShown == Spec => []ThemeShown
<1>1. Inv => ThemeShown
  BY DEF Inv
<1> QED BY ShellInvariant, <1>1, PTL

-----------------------------------------------------------------------------
(* The update status outlives the checker that set it.  It tells the truth   *)
(* to the guard of the daily run all the same: a sign-in is answered to the  *)
(* gate only, a sign-out to the shell only, so no checker is mounted over    *)
(* another, and the status of a run is that of the run there is.             *)
UpdateStatusTrue ==
    gate = "authenticated" =>
        /\ update = "checking" => run = "check"
        /\ update = "ready" => staged

CheckerFollows ==
    /\ UpdateStatusTrue
    /\ update = "ready" => staged
    /\ run # "none" => gate = "authenticated"
    /\ run = "check" => update = "checking"
    /\ run = "download" => update = "downloading"
    /\ signIn = "browser" => gate = "unauthenticated"
    /\ signOut => gate = "authenticated"

LEMMA CheckerGate ==
    ASSUME CheckerFollows,
           HydrateAuth \/ StartLogin \/ LoginLands \/ LoginErrors \/ Logout \/ LogoutReplies
    PROVE  CheckerFollows'
<1> USE DEF CheckerFollows, UpdateStatusTrue, updateVars, checkerVars
<1>1. CASE HydrateAuth
  BY <1>1 DEF HydrateAuth, EnterShell, StartRun
<1>2. CASE StartLogin
  BY <1>2 DEF StartLogin
<1>3. CASE LoginErrors
  BY <1>3 DEF LoginErrors
<1>4. CASE Logout
  BY <1>4 DEF Logout
<1>5. CASE LoginLands
  BY <1>5 DEF LoginLands, EnterShell, StartRun
<1>6. CASE LogoutReplies
  BY <1>6 DEF LogoutReplies, LeaveShell
<1> QED BY <1>1, <1>2, <1>3, <1>4, <1>5, <1>6

LEMMA CheckerRuns ==
    ASSUME CheckerFollows,
           DailyTick \/ CheckAnswers \/ DownloadStages \/ RunFails \/ OrphanEnds
    PROVE  CheckerFollows'
<1> USE DEF CheckerFollows, UpdateStatusTrue, authVars
<1>1. CASE DailyTick
  BY <1>1 DEF DailyTick, StartRun
<1>2. CASE CheckAnswers
  BY <1>2 DEF CheckAnswers
<1>3. CASE DownloadStages
  BY <1>3 DEF DownloadStages
<1>4. CASE RunFails
  BY <1>4 DEF RunFails
<1>5. CASE OrphanEnds
  <2>1. staged => staged'
    BY <1>5 DEF OrphanEnds
  <2>2. UNCHANGED <<gate, signIn, signOut, update, run>>
    BY <1>5 DEF OrphanEnds
  <2> QED BY <2>1, <2>2
<1> QED BY <1>1, <1>2, <1>3, <1>4, <1>5

LEMMA CheckerNext == CheckerFollows /\ [Next]_vars => CheckerFollows'
<1> SUFFICES ASSUME CheckerFollows, [Next]_vars PROVE CheckerFollows'
  OBVIOUS
<1>1. CASE QuitAndRelaunch \/ InstallRelaunches
  BY <1>1 DEF QuitAndRelaunch, InstallRelaunches, Relaunch, Boot, CheckerFollows,
              UpdateStatusTrue
<1>2. ASSUME \/ Mount \/ HydrateSettings \/ WriteLands
             \/ \E k \in DOMAIN Defaults : \E v \in Values[k] : ChangeSetting(k, v)
             \/ ApplyTheme \/ OsFlips
             \/ NewRelease \/ Dismiss \/ Install \/ InstallFails \/ RecordingToggles
             \/ UNCHANGED vars
      PROVE  UNCHANGED <<gate, signIn, signOut, update, staged, run>>
  BY <1>2 DEF Mount, HydrateSettings, WriteLands, ChangeSetting, ApplyTheme, OsFlips,
              NewRelease, Dismiss, Install, InstallFails, RecordingToggles, authVars,
              updateVars, checkerVars, vars
<1>3. UNCHANGED <<gate, signIn, signOut, update, staged, run>> => CheckerFollows'
  BY DEF CheckerFollows, UpdateStatusTrue
<1> QED BY <1>1, <1>2, <1>3, CheckerGate, CheckerRuns DEF Next

(* In the signed-in shell a status that says a check is running has that     *)
(* check behind it, and a banner that offers an update has one to install,   *)
(* over any number of sign-ins, sign-outs, failed runs and launches.         *)
THEOREM UpdateStatusIsTrue == Spec => []UpdateStatusTrue
<1>1. Init => CheckerFollows
  BY DEF Init, CheckerFollows, UpdateStatusTrue
<1>2. CheckerFollows => UpdateStatusTrue
  BY DEF CheckerFollows
<1> QED BY <1>1, <1>2, CheckerNext, PTL DEF Spec

-----------------------------------------------------------------------------
(* The list of past meetings.                                              *)

(* Meetings are numbers; 0 is no cursor.                                   *)
LEMMA MeetingNumbers ==
    /\ \A m \in Meetings : m \in Nat /\ m # 0
    /\ PageLimit \in Nat /\ 0 < PageLimit
BY PagingAssumption

(* A set of meetings that is not empty has an oldest one.                  *)
LEMMA OldestLemma ==
    ASSUME NEW rows \in SUBSET Nat, rows # {}
    PROVE  Oldest(rows) \in rows /\ \A n \in rows : Oldest(rows) <= n
<1> DEFINE R == {p \in Nat \X Nat : p[1] < p[2]}
<1>1. IsWellFoundedOn(R, Nat)
  <2>1. R = OpToRel(<, Nat)
    BY DEF OpToRel
  <2> QED BY <2>1, NatLessThanWellFounded
<1> DEFINE least(m) == \A n \in rows : <<n, m>> \notin R
<1>2. PICK m \in rows : least(m)
  BY <1>1, WFMin
<1>3. \A n \in rows : m <= n
  <2>1. ASSUME NEW n \in rows, n < m PROVE FALSE
    <3>1. <<n, m>> \in R
      BY <2>1
    <3> QED BY <1>2, <3>1
  <2> QED BY <2>1
<1> QED BY <1>3 DEF Oldest

(* The first page of some rows is not empty, and it is their top.          *)
LEMMA FirstPageLemma ==
    ASSUME NEW b \in Nat, NEW rows \in SUBSET (0..b)
    PROVE  /\ FirstPage(rows) \subseteq rows
           /\ rows # {} => FirstPage(rows) # {}
           /\ \A m \in FirstPage(rows), n \in rows : n > m => n \in FirstPage(rows)
<1>0. \A m \in rows : m \in 0..b /\ m \in Nat /\ m <= b
  OBVIOUS
<1>1. \A m \in rows : IsFiniteSet(Newer(rows, m)) /\ Cardinality(Newer(rows, m)) \in Nat
  <2>1. IsFiniteSet(rows)
    <3>1. 0 \in Int /\ b \in Int
      OBVIOUS
    <3>2. IsFiniteSet(0..b)
      BY <3>1, FS_Interval
    <3> QED BY <3>2, FS_Subset
  <2>2. \A m \in rows : Newer(rows, m) \in SUBSET rows
    BY DEF Newer
  <2> QED BY <2>1, <2>2, FS_Subset, FS_CardinalityType
<1>2. ASSUME rows # {} PROVE FirstPage(rows) # {}
  <2> DEFINE below == {b - m : m \in rows}
  <2>1. below \in SUBSET Nat /\ below # {}
    <3>1. \A m \in rows : b - m \in Nat
      BY <1>0
    <3> QED BY <1>2, <3>1
  <2>2. PICK m \in rows : b - m = Oldest(below)
    BY <2>1, OldestLemma
  <2>3. \A n \in rows : b - m <= b - n
    BY <2>1, <2>2, OldestLemma
  <2>4. Newer(rows, m) = {}
    <3>1. ASSUME NEW n \in rows, n > m PROVE FALSE
      BY <1>0, <2>3, <3>1
    <3> QED BY <3>1 DEF Newer
  <2>5. Cardinality(Newer(rows, m)) = 0
    BY <2>4, FS_EmptySet
  <2>6. Cardinality(Newer(rows, m)) < PageLimit
    BY <2>5, MeetingNumbers
  <2> QED BY <2>6 DEF FirstPage
<1>3. ASSUME NEW m \in FirstPage(rows), NEW n \in rows, n > m
      PROVE  n \in FirstPage(rows)
  <2>1. Newer(rows, n) \in SUBSET Newer(rows, m)
    <3>1. m \in rows /\ \A k \in rows : k > n => k > m
      BY <1>0, <1>3 DEF FirstPage
    <3> QED BY <3>1 DEF Newer
  <2>2. Cardinality(Newer(rows, n)) <= Cardinality(Newer(rows, m))
    BY <1>1, <2>1, FS_Subset DEF FirstPage
  <2>3. Cardinality(Newer(rows, m)) < PageLimit /\ m \in rows
    BY DEF FirstPage
  <2>4. Cardinality(Newer(rows, n)) < PageLimit
    BY <1>1, <2>2, <2>3, MeetingNumbers
  <2> QED BY <2>4 DEF FirstPage
<1> QED BY <1>2, <1>3 DEF FirstPage

(* GET /meetings: a page is the top of the rows below the cursor; there is *)
(* another page exactly if it is not all of them.                          *)
LEMMA PageLemma ==
    ASSUME newest \in Nat, NEW key \in Keys, NEW cursor \in Nat
    PROVE  LET rows == {m \in Matching(key) : cursor = 0 \/ m < cursor}
               p    == Page(key, cursor)
           IN  /\ p \in Pages
               /\ p.items \subseteq rows
               /\ \A m \in p.items, n \in rows : n > m => n \in p.items
               /\ p.next = 0 => p.items = rows
               /\ p.next # 0 => p.next \in p.items /\ \A m \in p.items : p.next <= m
<1> DEFINE rows == {m \in Matching(key) : cursor = 0 \/ m < cursor}
           items == FirstPage(rows)
<1>1. /\ rows \in SUBSET (0..newest)
      /\ rows \in SUBSET Meetings /\ Meetings \in SUBSET Nat /\ 0 \notin Meetings
  <2>1. \A m \in rows : m \in Meetings /\ m <= newest
    BY DEF Matching
  <2>2. \A m \in rows : m \in 0..newest
    BY <2>1, MeetingNumbers
  <2> QED BY <2>1, <2>2, MeetingNumbers
<1>2. /\ items \subseteq rows /\ (rows # {} => items # {})
      /\ \A m \in items, n \in rows : n > m => n \in items
  BY <1>1, FirstPageLemma
<1>3. /\ Page(key, cursor).items = items
      /\ Page(key, cursor).next = IF rows = items THEN 0 ELSE Oldest(items)
      /\ Page(key, cursor) = [items |-> items, next |-> IF rows = items THEN 0 ELSE Oldest(items)]
  BY DEF Page
<1> HIDE DEF rows, items
<1>4. rows # items => /\ Oldest(items) \in items /\ \A m \in items : Oldest(items) <= m
                      /\ Oldest(items) # 0
  BY <1>1, <1>2, OldestLemma
<1>5. Page(key, cursor) \in Pages
  BY <1>1, <1>2, <1>3, <1>4 DEF Pages
<1> QED BY <1>2, <1>3, <1>4, <1>5 DEF rows

-----------------------------------------------------------------------------
ListTypeOK ==
    /\ topic \in Topics /\ newest \in Nat /\ tagged \subseteq Meetings
    /\ list \in [Keys -> Lists]
    /\ fetch \in [Keys -> {Idle} \cup Fetches]

(* Pages read one after the other, each from the cursor of the one before  *)
(* it, are a window of the server's list, whatever the server has gained   *)
(* at its top in the meantime; but a filter excuses the meetings that      *)
(* entered or left it since the first of the pages was read.               *)
Excused(key, gone) == IF key = "all" THEN {} ELSE gone

Window(key, pages, gone) ==
    /\ \A m \in Shown(pages) : m \in Nat /\ m <= newest
    /\ Shown(pages) \ Excused(key, gone) \subseteq Matching(key)
    /\ \A i, j \in DOMAIN pages : i < j =>
           \A m \in pages[i].items, n \in pages[j].items : n < m
    /\ NextCursor(pages) # 0 =>
           /\ NextCursor(pages) \in Shown(pages)
           /\ \A m \in Shown(pages) : NextCursor(pages) <= m
    /\ \A m \in Matching(key) \ Excused(key, gone) :
           /\ \E newer \in Shown(pages) : m < newer
           /\ (\E older \in Shown(pages) : older < m) \/ NextCursor(pages) = 0
           => m \in Shown(pages)

(* What is loaded is a window, and so is what a fetch has read so far,     *)
(* which goes on only from a cursor.                                       *)
Windows ==
    \A key \in Keys :
        /\ Window(key, list[key].pages, list[key].moved)
        /\ Window(key, fetch[key].pages, fetch[key].moved)
        /\ fetch[key].pages # <<>> => NextCursor(fetch[key].pages) # 0

LEMMA EmptyWindow == \A key, gone : Window(key, <<>>, gone)
BY DEF Window, Shown, NextCursor

LEMMA CursorLemma ==
    ASSUME NEW pages \in Seq(Pages)
    PROVE  NextCursor(pages) \in Nat
<1>1. pages # <<>> => pages[Len(pages)] \in Pages
  OBVIOUS
<1>2. \A p \in Pages : p.next \in Nat
  BY MeetingNumbers DEF Pages
<1> QED BY <1>1, <1>2 DEF NextCursor

(* One more page of a window is a window.                                  *)
LEMMA NextPageLemma ==
    ASSUME newest \in Nat, NEW key \in Keys, NEW pages \in Seq(Pages), NEW gone,
           Window(key, pages, gone), pages # <<>> => NextCursor(pages) # 0
    PROVE  /\ Append(pages, Page(key, NextCursor(pages))) \in Seq(Pages)
           /\ Window(key, Append(pages, Page(key, NextCursor(pages))), gone)
<1> DEFINE cursor == NextCursor(pages)
           rows == {m \in Matching(key) : cursor = 0 \/ m < cursor}
           p == Page(key, cursor)
           longer == Append(pages, p)
           judged == Matching(key) \ Excused(key, gone)
<1>1. cursor \in Nat
  BY CursorLemma
<1>2. /\ p \in Pages /\ p.items \subseteq rows
      /\ \A m \in p.items, n \in rows : n > m => n \in p.items
      /\ p.next = 0 => p.items = rows
      /\ p.next # 0 => p.next \in p.items /\ \A m \in p.items : p.next <= m
  BY <1>1, PageLemma
<1> HIDE DEF p
<1>3. /\ longer \in Seq(Pages) /\ Len(longer) = Len(pages) + 1
      /\ \A i \in DOMAIN pages : longer[i] = pages[i]
      /\ longer[Len(pages) + 1] = p
      /\ DOMAIN longer = DOMAIN pages \cup {Len(pages) + 1}
      /\ DOMAIN pages = 1..Len(pages) /\ Len(pages) \in Nat
  BY <1>2
<1>4. Shown(longer) = Shown(pages) \cup p.items
  BY <1>3 DEF Shown
<1>5. NextCursor(longer) = p.next
  <2>1. longer # <<>>
    BY <1>3
  <2> QED BY <1>3, <2>1 DEF NextCursor
<1>6. pages = <<>> => Shown(pages) = {}
  BY DEF Shown
<1>7. /\ \A m \in Shown(pages) : m \in Nat /\ m <= newest
      /\ Shown(pages) \ Excused(key, gone) \subseteq Matching(key)
      /\ \A m \in Matching(key) : m \in Nat /\ m <= newest
      /\ cursor # 0 => cursor \in Shown(pages) /\ \A m \in Shown(pages) : cursor <= m
      /\ \A m \in judged :
           /\ \E newer \in Shown(pages) : m < newer
           /\ (\E older \in Shown(pages) : older < m) \/ cursor = 0
           => m \in Shown(pages)
      /\ cursor = 0 => pages = <<>>
  BY MeetingNumbers DEF Window, Matching
<1> HIDE DEF cursor, longer
<1>8. p.items \subseteq Matching(key) /\ \A n \in p.items, m \in Shown(pages) : n < m
  BY <1>1, <1>2, <1>6, <1>7
<1>9. \A i, j \in DOMAIN longer : i < j =>
          \A m \in longer[i].items, n \in longer[j].items : n < m
  <2> SUFFICES ASSUME NEW i \in DOMAIN longer, NEW j \in DOMAIN longer, i < j,
                      NEW m \in longer[i].items, NEW n \in longer[j].items
               PROVE  n < m
    OBVIOUS
  <2>1. i \in DOMAIN pages /\ m \in pages[i].items
    BY <1>3
  <2>2. CASE j \in DOMAIN pages
    BY <1>3, <2>1, <2>2 DEF Window
  <2>3. CASE j = Len(pages) + 1
    BY <1>3, <1>8, <2>1, <2>3 DEF Shown
  <2> QED BY <1>3, <2>2, <2>3
<1>10. p.next # 0 => /\ p.next \in Shown(longer)
                     /\ \A m \in Shown(longer) : p.next <= m
  BY <1>2, <1>4, <1>7, <1>8
<1>11. ASSUME NEW m \in judged, NEW newer \in Shown(longer), m < newer,
              (\E older \in Shown(longer) : older < m) \/ p.next = 0
       PROVE  m \in Shown(longer)
  <2>1. CASE cursor = 0 \/ m < cursor
    <3>1. m \in rows
      BY <2>1
    <3>2. ASSUME NEW older \in Shown(pages), older < m PROVE FALSE
      BY <1>1, <1>6, <1>7, <2>1, <3>2
    <3> QED BY <1>2, <1>4, <1>7, <1>11, <3>1, <3>2
  <2>2. CASE cursor # 0 /\ m = cursor
    BY <1>4, <1>7, <2>2
  <2>3. CASE cursor # 0 /\ m > cursor
    <3>1. newer \in Shown(pages)
      BY <1>1, <1>2, <1>4, <1>7, <1>11, <2>3
    <3> QED BY <1>4, <1>7, <1>11, <2>3, <3>1
  <2> QED BY <1>1, <1>7, <2>1, <2>2, <2>3
<1>12. Window(key, longer, gone)
  <2>1. \A m \in Shown(longer) : m \in Nat /\ m <= newest
    BY <1>4, <1>7, <1>8
  <2>2. Shown(longer) \ Excused(key, gone) \subseteq Matching(key)
    BY <1>4, <1>7, <1>8
  <2> QED BY <1>5, <1>9, <1>10, <1>11, <2>1, <2>2 DEF Window
<1> QED BY <1>3, <1>12 DEF longer, p, cursor

(* A page arrives at the end of what a fetch has read.                     *)
LEMMA PageArrivesStep ==
    ASSUME ListTypeOK, Windows, NEW key \in Keys, PageArrives(key)
    PROVE  ListTypeOK' /\ Windows'
<1> DEFINE f == fetch[key]
           pages == Append(f.pages, Page(key, NextCursor(f.pages)))
<1>1. /\ f \in Fetches /\ f.pages \in Seq(Pages) /\ f.left \in Nat \ {0}
      /\ f.moved \in SUBSET Meetings
  BY DEF ListTypeOK, PageArrives, Fetches
<1>2. pages \in Seq(Pages) /\ Window(key, pages, f.moved)
  BY <1>1, NextPageLemma DEF Windows, ListTypeOK
<1>3. newest' = newest /\ tagged' = tagged /\ topic' = topic
  BY DEF PageArrives, serverVars
<1>4. \A k, p, g : Window(k, p, g) => Window(k, p, g)'
  BY <1>3 DEF Window, Matching
<1>5. CASE f.left = 1 \/ NextCursor(pages) = 0
  <2>1. /\ list' = [list EXCEPT ![key] = [pages |-> pages, stale |-> FALSE, error |-> FALSE,
                                          moved |-> f.moved]]
        /\ fetch' = [fetch EXCEPT ![key] = Idle]
    BY <1>5 DEF PageArrives
  <2> HIDE DEF pages
  <2> HIDE DEF f
  <2>2. ListTypeOK'
    BY <1>1, <1>2, <1>3, <2>1 DEF ListTypeOK, Lists
  <2>3. ASSUME NEW k \in Keys, k # key
        PROVE  list'[k] = list[k] /\ fetch'[k] = fetch[k]
    BY <2>1, <2>3 DEF ListTypeOK
  <2>4. /\ list'[key].pages = pages /\ list'[key].moved = f.moved
        /\ fetch'[key].pages = <<>>
    BY <2>1 DEF ListTypeOK, Idle
  <2> QED BY <1>2, <1>4, <2>2, <2>3, <2>4, EmptyWindow DEF Windows
<1>6. CASE ~(f.left = 1 \/ NextCursor(pages) = 0)
  <2>1. /\ fetch' = [fetch EXCEPT ![key].pages = pages, ![key].left = @ - 1]
        /\ list' = list /\ f.left # 1 /\ NextCursor(pages) # 0
    BY <1>6 DEF PageArrives
  <2> HIDE DEF pages
  <2>2. [f EXCEPT !.pages = pages, !.left = @ - 1] \in Fetches
    <3>1. f.left - 1 \in Nat \ {0}
      BY <1>1, <2>1
    <3> HIDE DEF f
    <3> QED BY <1>1, <1>2, <3>1 DEF Fetches
  <2>3. fetch' = [fetch EXCEPT ![key] = [f EXCEPT !.pages = pages, !.left = @ - 1]]
    BY <2>1 DEF ListTypeOK
  <2>4. ListTypeOK'
    BY <1>3, <2>1, <2>2, <2>3 DEF ListTypeOK
  <2>5. ASSUME NEW k \in Keys, k # key
        PROVE  fetch'[k] = fetch[k]
    BY <2>3, <2>5 DEF ListTypeOK
  <2>6. fetch'[key].pages = pages /\ fetch'[key].moved = f.moved
    BY <1>1, <2>3 DEF ListTypeOK, Fetches
  <2> QED BY <1>2, <1>4, <2>1, <2>4, <2>5, <2>6 DEF Windows
<1> QED BY <1>5, <1>6

-----------------------------------------------------------------------------
(* Every other step leaves the pages alone: at most it starts a fetch, from *)
(* the top or from the cursor of the last page, or gives one up.            *)
StartsFetches ==
    /\ UNCHANGED serverVars
    /\ list' \in [Keys -> Lists]
    /\ fetch' \in [Keys -> {Idle} \cup Fetches]
    /\ \A k \in Keys :
          /\ list'[k].pages = list[k].pages /\ list'[k].moved = list[k].moved
          /\ \/ fetch'[k] = fetch[k]
             \/ fetch'[k].pages = <<>>
             \/ /\ HasNextPage(k)
                /\ fetch'[k].pages = list[k].pages /\ fetch'[k].moved = list[k].moved

LEMMA StartsFetchesStep ==
    ASSUME ListTypeOK, Windows, StartsFetches
    PROVE  ListTypeOK' /\ Windows'
<1>1. ListTypeOK'
  BY DEF StartsFetches, ListTypeOK, serverVars
<1>2. \A k, p, g : Window(k, p, g) => Window(k, p, g)'
  BY DEF StartsFetches, Window, Matching, serverVars
<1>3. ASSUME NEW k \in Keys
      PROVE  /\ Window(k, list[k].pages, list[k].moved)'
             /\ Window(k, fetch[k].pages, fetch[k].moved)'
             /\ fetch'[k].pages # <<>> => NextCursor(fetch'[k].pages) # 0
  <2>1. Window(k, list[k].pages, list[k].moved)'
    BY <1>2 DEF Windows, StartsFetches
  <2>2. CASE fetch'[k] = fetch[k]
    BY <1>2, <2>1, <2>2 DEF Windows
  <2>3. CASE fetch'[k].pages = <<>>
    BY <1>2, <2>1, <2>3, EmptyWindow
  <2>4. CASE /\ HasNextPage(k)
             /\ fetch'[k].pages = list[k].pages /\ fetch'[k].moved = list[k].moved
    BY <1>2, <2>1, <2>4 DEF Windows, HasNextPage
  <2> QED BY <2>1, <2>2, <2>3, <2>4 DEF StartsFetches
<1> QED BY <1>1, <1>3 DEF Windows

(* A new meeting is newer than every one that is shown.                    *)
LEMMA CreateStep ==
    ASSUME ListTypeOK, Windows, CreateMeeting
    PROVE  ListTypeOK' /\ Windows'
<1>1. newest' = newest + 1 /\ newest \in Nat /\ UNCHANGED <<topic, tagged, list, fetch>>
  BY DEF CreateMeeting, ListTypeOK
<1>2. ListTypeOK'
  BY <1>1 DEF ListTypeOK
<1>3. ASSUME NEW key, NEW pages, NEW gone, Window(key, pages, gone)
      PROVE  Window(key, pages, gone)'
  <2>1. \A m \in Matching(key)' : m \in Matching(key) \/ m = newest + 1
    BY <1>1, MeetingNumbers DEF Matching
  <2>2. \A m \in Matching(key) : m \in Nat /\ m <= newest
    BY MeetingNumbers DEF Matching
  <2>3. Matching(key) \subseteq Matching(key)'
    BY <1>1, MeetingNumbers DEF Matching
  <2>4. ASSUME NEW m \in Matching(key)', NEW newer \in Shown(pages), m < newer
        PROVE  m \in Matching(key)
    BY <1>1, <1>3, <2>1, <2>2, <2>4 DEF Window
  <2>5. \A m \in Shown(pages) : m \in Nat /\ m <= newest'
    BY <1>1, <1>3 DEF Window
  <2> QED BY <1>3, <2>3, <2>4, <2>5 DEF Window
<1> QED BY <1>1, <1>2, <1>3 DEF Windows

(* A meeting enters or leaves the filter under what is loaded and read: it *)
(* is excused from then on.                                                *)
LEMMA TouchWindow ==
    ASSUME NEW m, Retag(m), NEW pages, NEW gone, Window("tagged", pages, gone)
    PROVE  Window("tagged", pages, gone \cup {m})'
<1>1. newest' = newest /\ tagged' \ {m} = tagged \ {m}
  BY DEF Retag
<1>2. Matching("tagged")' \ {m} = Matching("tagged") \ {m}
  BY <1>1 DEF Matching
<1>3. /\ Matching("tagged")' \ (gone \cup {m}) \subseteq Matching("tagged") \ gone
      /\ Shown(pages) \ gone \subseteq Matching("tagged")
      /\ Shown(pages) \ (gone \cup {m}) \subseteq Matching("tagged")'
  BY <1>2 DEF Window, Excused
<1> QED BY <1>1, <1>3 DEF Window, Excused

LEMMA RetagStep ==
    ASSUME ListTypeOK, Windows, NEW m \in Editable, Retag(m)
    PROVE  ListTypeOK' /\ Windows'
<1>1. /\ newest' = newest /\ topic' = topic /\ m \in Meetings
      /\ tagged' \in SUBSET Meetings
      /\ list' = [list EXCEPT !["tagged"] = Touch(list["tagged"], m)]
      /\ fetch' = [fetch EXCEPT !["tagged"] = Touch(fetch["tagged"], m)]
      /\ "tagged" \in Keys /\ "all" \in Keys /\ "all" # "tagged"
  BY PagingAssumption DEF Retag, ListTypeOK, Keys
<1>2. /\ Touch(list["tagged"], m) \in Lists
      /\ Touch(list["tagged"], m).pages = list["tagged"].pages
      /\ \/ list["tagged"].pages = <<>>
         \/ Touch(list["tagged"], m).moved = list["tagged"].moved \cup {m}
  BY <1>1 DEF ListTypeOK, Lists, Touch
<1>3. /\ Touch(fetch["tagged"], m) \in {Idle} \cup Fetches
      /\ Touch(fetch["tagged"], m).pages = fetch["tagged"].pages
      /\ \/ fetch["tagged"].pages = <<>>
         \/ Touch(fetch["tagged"], m).moved = fetch["tagged"].moved \cup {m}
  <2>1. CASE fetch["tagged"] = Idle
    BY <2>1 DEF Touch, Idle
  <2>2. CASE fetch["tagged"] \in Fetches
    BY <1>1, <2>2 DEF Fetches, Touch
  <2> QED BY <1>1, <2>1, <2>2 DEF ListTypeOK
<1>4. ListTypeOK'
  BY <1>1, <1>2, <1>3 DEF ListTypeOK
<1>5. /\ list'["tagged"] = Touch(list["tagged"], m) /\ list'["all"] = list["all"]
      /\ fetch'["tagged"] = Touch(fetch["tagged"], m) /\ fetch'["all"] = fetch["all"]
  BY <1>1 DEF ListTypeOK
<1>6. \A p, g : Window("all", p, g) => Window("all", p, g)'
  BY <1>1 DEF Window, Matching
<1>7. /\ Window("tagged", list["tagged"].pages, list["tagged"].moved)'
      /\ Window("tagged", fetch["tagged"].pages, fetch["tagged"].moved)'
  <2>1. \A p, g : p = <<>> => Window("tagged", p, g)'
    BY DEF Window, Shown, NextCursor
  <2> QED BY <1>2, <1>3, <1>5, <2>1, TouchWindow DEF Windows, Keys
<1> QED BY <1>3, <1>4, <1>5, <1>6, <1>7 DEF Windows, Keys

LEMMA RefetchLemma ==
    ASSUME NEW key \in Keys, list[key].pages \in Seq(Pages)
    PROVE  Refetch(key) \in Fetches /\ Refetch(key).pages = <<>>
<1>2. list[key].pages # <<>> => Len(list[key].pages) \in Nat \ {0}
  OBVIOUS
<1>3. <<>> \in Seq(Pages)
  OBVIOUS
<1> QED BY <1>2, <1>3 DEF Refetch, Fetches

(* Steps that touch neither the pages nor a fetch.                         *)
LEMMA QuietLemma ==
    ASSUME ListTypeOK, UNCHANGED <<serverVars, list, fetch>>
    PROVE  StartsFetches
BY DEF ListTypeOK, StartsFetches

LEMMA ObserveLemma ==
    ASSUME ListTypeOK, NEW v, NEW f, Observe(v, f), UNCHANGED <<serverVars, list>>
    PROVE  StartsFetches
<1>1. /\ DOMAIN fetch' = Keys /\ fetch' = [k \in Keys |-> fetch'[k]]
      /\ \A k \in Keys : fetch'[k] \in {fetch[k], Refetch(k)}
  BY DEF Observe
<1> QED BY <1>1, RefetchLemma DEF ListTypeOK, Lists, StartsFetches

LEMMA ShowViewLemma ==
    ASSUME ListTypeOK, NEW v, ShowView(v)
    PROVE  StartsFetches
BY ObserveLemma DEF ShowView

LEMMA ListStepLemma ==
    ASSUME ListTypeOK,
           \/ InvalidateMeetings \/ LoadMore \/ RetryList
           \/ \E key \in Keys : FetchFails(key) \/ Ages(key)
    PROVE  StartsFetches
<1>1. CASE InvalidateMeetings
  <2>1. /\ UNCHANGED serverVars
        /\ list' = [k \in Keys |-> [list[k] EXCEPT !.stale = TRUE]]
        /\ fetch' = [k \in Keys |-> fetch'[k]]
        /\ \A k \in Keys : fetch'[k] \in {fetch[k], Refetch(k)}
    BY <1>1 DEF InvalidateMeetings
  <2> QED BY <2>1, RefetchLemma DEF ListTypeOK, Lists, StartsFetches
<1>2. CASE LoadMore
  <2> DEFINE key == NormaliseFilters(filters)
             more == [kind |-> "more", pages |-> list[key].pages, left |-> 1,
                      moved |-> list[key].moved]
  <2>1. /\ UNCHANGED serverVars /\ list' = list /\ HasNextPage(key)
        /\ fetch' = [fetch EXCEPT ![key] = more]
    BY <1>2 DEF LoadMore
  <2>2. key \in Keys
    BY DEF NormaliseFilters, Keys
  <2>3. /\ more \in Fetches
        /\ more.pages = list[key].pages /\ more.moved = list[key].moved
    BY <2>2 DEF ListTypeOK, Lists, Fetches
  <2> HIDE DEF key, more
  <2> QED BY <2>1, <2>2, <2>3 DEF ListTypeOK, Lists, StartsFetches
<1>3. CASE RetryList
  <2>1. PICK key : fetch' = [fetch EXCEPT ![key] = Refetch(key)]
    BY <1>3 DEF RetryList
  <2>2. UNCHANGED serverVars /\ list' = list
    BY <1>3 DEF RetryList
  <2>3. CASE key \in Keys
    BY <2>1, <2>2, <2>3, RefetchLemma DEF ListTypeOK, Lists, StartsFetches
  <2>4. CASE key \notin Keys
    BY <2>1, <2>2, <2>4 DEF ListTypeOK, Lists, StartsFetches
  <2> QED BY <2>3, <2>4
<1>4. ASSUME NEW key \in Keys, FetchFails(key) PROVE StartsFetches
  <2>1. /\ UNCHANGED serverVars /\ fetch' = [fetch EXCEPT ![key] = Idle]
        /\ list' = [list EXCEPT ![key].error = TRUE]
    BY <1>4 DEF FetchFails
  <2> QED BY <2>1 DEF ListTypeOK, Lists, StartsFetches, Idle
<1>5. ASSUME NEW key \in Keys, Ages(key) PROVE StartsFetches
  <2>1. /\ UNCHANGED serverVars /\ fetch' = fetch
        /\ list' = [list EXCEPT ![key].stale = TRUE]
    BY <1>5 DEF Ages
  <2> QED BY <2>1 DEF ListTypeOK, Lists, StartsFetches
<1> QED BY <1>1, <1>2, <1>3, <1>4, <1>5

LEMMA OtherStepLemma ==
    ASSUME ListTypeOK,
           \/ GoRecording \/ GoHistory \/ OpenRow \/ OpenHit \/ ConsumePendingSegment
           \/ RequestSearchFocus \/ ConsumeSearchFocus
           \/ ChangeFilters \/ SearchAnswers \/ RetrySearch
           \/ \E text \in Drafts : Type(text)
           \/ Enter \/ Debounce \/ SyncDraft
           \/ UNCHANGED historyVars
    PROVE  StartsFetches
<1>1. ASSUME GoRecording \/ GoHistory \/ OpenRow \/ OpenHit \/ RequestSearchFocus
      PROVE  StartsFetches
  BY <1>1, ShowViewLemma DEF GoRecording, GoHistory, OpenRow, OpenHit, RequestSearchFocus
<1>2. ASSUME ChangeFilters PROVE StartsFetches
  BY <1>2, ObserveLemma DEF ChangeFilters
<1>3. ASSUME NEW text \in Drafts, Type(text) PROVE StartsFetches
  BY <1>3, QuietLemma DEF Type, Submit
<1>4. ASSUME \/ ConsumePendingSegment \/ ConsumeSearchFocus \/ SearchAnswers \/ RetrySearch
             \/ Enter \/ Debounce \/ SyncDraft \/ UNCHANGED historyVars
      PROVE  StartsFetches
  <2>1. UNCHANGED <<serverVars, list, fetch>>
    BY <1>4 DEF ConsumePendingSegment, ConsumeSearchFocus, SearchAnswers, RetrySearch,
                Enter, Debounce, Submit, SyncDraft, historyVars
  <2> QED BY <2>1, QuietLemma
<1> QED BY <1>1, <1>2, <1>3, <1>4

LEMMA HistoryInitWindows == HistoryInit => ListTypeOK /\ Windows
<1> SUFFICES ASSUME HistoryInit PROVE ListTypeOK /\ Windows
  OBVIOUS
<1>1. /\ topic \in Topics /\ newest \in Nat /\ tagged \subseteq Meetings
      /\ list = [k \in Keys |-> Empty]
  BY PagingAssumption DEF HistoryInit
<1>2. \A k \in Keys : list[k].pages \in Seq(Pages)
  <2>1. <<>> \in Seq(Pages)
    OBVIOUS
  <2>2. \A k \in Keys : list[k].pages = <<>>
    BY <1>1 DEF Empty
  <2> QED BY <2>1, <2>2
<1>3. \A k \in Keys : fetch[k] \in {Idle} \cup Fetches /\ fetch[k].pages = <<>>
  <2>1. Idle.pages = <<>>
    BY DEF Idle
  <2>2. ASSUME NEW k \in Keys
        PROVE  Refetch(k) \in Fetches /\ Refetch(k).pages = <<>>
    BY <1>2, RefetchLemma
  <2>3. \A k \in Keys : fetch[k] = Idle \/ fetch[k] = Refetch(k)
    BY DEF HistoryInit
  <2> QED BY <2>1, <2>2, <2>3
<1>4. fetch = [k \in Keys |-> fetch[k]]
  BY DEF HistoryInit
<1>5. ListTypeOK
  BY <1>1, <1>2, <1>3, <1>4 DEF ListTypeOK, Lists, Empty
<1> QED BY <1>1, <1>3, <1>5, EmptyWindow DEF Windows, Empty

LEMMA HistoryNextWindows ==
    ListTypeOK /\ Windows /\ [HistoryNext]_historyVars => ListTypeOK' /\ Windows'
<1> SUFFICES ASSUME ListTypeOK, Windows, [HistoryNext]_historyVars
             PROVE  ListTypeOK' /\ Windows'
  OBVIOUS
<1>1. CASE CreateMeeting
  BY <1>1, CreateStep
<1>2. CASE \E key \in Keys : PageArrives(key)
  BY <1>2, PageArrivesStep
<1>3. CASE StartsFetches
  BY <1>3, StartsFetchesStep
<1>4. CASE \E m \in Editable : Retag(m)
  BY <1>4, RetagStep
<1> QED BY <1>1, <1>2, <1>3, <1>4, ListStepLemma, OtherStepLemma DEF HistoryNext

(* For every set of meetings, page size and key: the list the user scrolls *)
(* is a window of the server's, whatever meetings were created between the *)
(* reads of its pages and whatever fetches were started, failed, abandoned *)
(* for others or raced; without a filter that holds of every meeting, with *)
(* one it excuses those that entered or left the filter since the list was *)
(* read from its top.                                                      *)
THEOREM HistoryHasNoGaps == HistorySpec => []ListHasNoGaps
<1>1. Windows => ListHasNoGaps
  BY DEF Windows, Window, Excused, ListHasNoGaps, HasNextPage
<1> QED BY <1>1, HistoryInitWindows, HistoryNextWindows, PTL DEF HistorySpec

-----------------------------------------------------------------------------
(* The views and the search box.  What is submitted is what the parent has,  *)
(* and a box that is not on screen is empty; so a draft that is not what is  *)
(* searched is on screen and its timer armed.                                *)
SearchTypeOK ==
    /\ view \in {"recording", "history", "detail"}
    /\ {segment, focus, syncing} \subseteq BOOLEAN
    /\ filters \in {"absent", "empty", "selected"}
    /\ {query, draft, submitted} \subseteq Drafts
    /\ hits \in {"disabled", "pending", "found", "failed"}

BoxFollows ==
    /\ submitted = query
    /\ view # "history" => draft = Blank /\ query = Blank
    /\ hits = "disabled" <=> query = Blank

SearchInv == SearchTypeOK /\ BoxFollows

LEMMA InitSearch == HistoryInit => SearchInv
BY DraftsAssumption DEF HistoryInit, SearchInv, SearchTypeOK, BoxFollows

LEMMA ShowViewSearch ==
    ASSUME SearchInv, NEW v \in {"recording", "history", "detail"}, ShowView(v),
           segment' \in BOOLEAN, focus' \in BOOLEAN
    PROVE  SearchInv'
<1>1. CASE v = view
  BY <1>1 DEF ShowView, SearchInv, SearchTypeOK, BoxFollows, searchVars
<1>2. CASE v # view
  BY <1>2, DraftsAssumption DEF ShowView, SearchInv, SearchTypeOK, BoxFollows
<1> QED BY <1>1, <1>2

LEMMA NavigationSearch ==
    ASSUME SearchInv,
           \/ GoRecording \/ GoHistory \/ OpenRow \/ OpenHit \/ RequestSearchFocus
           \/ ConsumePendingSegment \/ ConsumeSearchFocus
    PROVE  SearchInv'
<1>1. segment \in BOOLEAN /\ focus \in BOOLEAN
  BY DEF SearchInv, SearchTypeOK
<1>2. CASE GoRecording \/ GoHistory \/ OpenRow \/ OpenHit \/ RequestSearchFocus
  BY <1>1, <1>2, ShowViewSearch DEF GoRecording, GoHistory, OpenRow, OpenHit, RequestSearchFocus
<1>3. CASE ConsumePendingSegment \/ ConsumeSearchFocus
  BY <1>3 DEF ConsumePendingSegment, ConsumeSearchFocus, SearchInv, SearchTypeOK,
              BoxFollows, searchVars
<1> QED BY <1>2, <1>3

LEMMA SubmitSearch ==
    ASSUME SearchInv, NEW text \in Drafts, Submit(text), view = "history",
           draft' \in Drafts
    PROVE  SearchInv'
<1>1. CASE text = query
  BY <1>1 DEF Submit, SearchInv, SearchTypeOK, BoxFollows, uiVars
<1>2. CASE text # query
  BY <1>2 DEF Submit, Search, SearchInv, SearchTypeOK, BoxFollows, uiVars
<1> QED BY <1>1, <1>2

LEMMA TypeSearch ==
    ASSUME SearchInv, NEW text \in Drafts, Type(text)
    PROVE  SearchInv'
<1>1. CASE text = Blank /\ submitted # Blank
  BY <1>1, SubmitSearch DEF Type
<1>2. CASE ~(text = Blank /\ submitted # Blank)
  BY <1>2 DEF Type, SearchInv, SearchTypeOK, BoxFollows, uiVars
<1> QED BY <1>1, <1>2

LEMMA ChangeFiltersSearch ==
    ASSUME SearchInv, ChangeFilters
    PROVE  SearchInv'
<1>1. filters' \in {"absent", "empty", "selected"}
  BY DEF ChangeFilters, ToggleTag, ClearChip, SearchInv, SearchTypeOK
<1>2. hits' = hits \/ Search(query)
  BY DEF ChangeFilters
<1> QED BY <1>1, <1>2
        DEF ChangeFilters, Search, SearchInv, SearchTypeOK, BoxFollows, uiVars

LEMMA BoxSearch ==
    ASSUME SearchInv,
           Enter \/ Debounce \/ SyncDraft \/ SearchAnswers \/ RetrySearch
    PROVE  SearchInv'
<1>1. CASE Enter \/ Debounce
  BY <1>1, SubmitSearch DEF Enter, Debounce, SearchInv, SearchTypeOK
<1>2. CASE SyncDraft
  BY <1>2 DEF SyncDraft, SearchInv, SearchTypeOK, BoxFollows, uiVars
<1>3. CASE SearchAnswers \/ RetrySearch
  BY <1>3 DEF SearchAnswers, RetrySearch, SearchInv, SearchTypeOK, BoxFollows, uiVars
<1> QED BY <1>1, <1>2, <1>3

LEMMA NextSearch == SearchInv /\ [HistoryNext]_historyVars => SearchInv'
<1> SUFFICES ASSUME SearchInv, [HistoryNext]_historyVars PROVE SearchInv'
  OBVIOUS
<1>1. ASSUME \/ CreateMeeting \/ InvalidateMeetings \/ LoadMore \/ RetryList
             \/ \E m \in Editable : Retag(m)
             \/ \E key \in Keys : PageArrives(key) \/ FetchFails(key) \/ Ages(key)
             \/ UNCHANGED historyVars
      PROVE  UNCHANGED <<uiVars, filters, searchVars>>
  BY <1>1 DEF CreateMeeting, Retag, InvalidateMeetings, LoadMore, RetryList, PageArrives,
              FetchFails, Ages, historyVars
<1>2. UNCHANGED <<uiVars, filters, searchVars>> => SearchInv'
  BY DEF uiVars, searchVars, SearchInv, SearchTypeOK, BoxFollows
<1> QED BY <1>1, <1>2, NavigationSearch, TypeSearch, ChangeFiltersSearch, BoxSearch
        DEF HistoryNext

(* Lists, fetches, views, filters and the search box keep their types.       *)
THEOREM HistoryTypeCorrect == HistorySpec => []HistoryTypeOK
<1>1. ListTypeOK /\ SearchInv => HistoryTypeOK
  BY DEF ListTypeOK, SearchInv, SearchTypeOK, HistoryTypeOK
<1>2. HistorySpec => [](ListTypeOK /\ Windows)
  BY HistoryInitWindows, HistoryNextWindows, PTL DEF HistorySpec
<1>3. HistorySpec => []SearchInv
  BY InitSearch, NextSearch, PTL DEF HistorySpec
<1> QED BY <1>1, <1>2, <1>3, PTL

(* A draft that is not what is searched is never taken for submitted: it is  *)
(* in a box on screen, and the debounce timer is armed for it.               *)
DraftIsPending == draft # query => view = "history" /\ draft # submitted

THEOREM DraftIsNeverForgotten == HistorySpec => []DraftIsPending
<1>1. SearchInv => DraftIsPending
  BY DEF SearchInv, SearchTypeOK, BoxFollows, DraftIsPending
<1> QED BY <1>1, InitSearch, NextSearch, PTL DEF HistorySpec
=============================================================================
