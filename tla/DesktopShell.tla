---------------------------- MODULE DesktopShell ----------------------------
(***************************************************************************)
(* The shell of the desktop app around its views: the sign-in gate (App,   *)
(* auth-store), the persisted settings (settings-store), the theme that    *)
(* follows one of them (ThemeProvider) and the update checker and banner,  *)
(* from launch to launch.                                                  *)
(*                                                                         *)
(* A launch loses everything but the keyring, the settings file, the boot  *)
(* cache of the theme and what the system has: its appearance, the release *)
(* server.  Token refresh is left out, and so are the settings that differ *)
(* from "language" in nothing but their values.                            *)
(***************************************************************************)
EXTENDS Integers, Sequences

CONSTANTS
    Versions,     \* schema versions the settings file may have at first
    MaxLaunches,  \* bound: launches
    Scenes,       \* bound: what the user is busy with, from SceneKinds
    MaxWrites     \* bound: settings writes in flight

SchemaVersion == 1

(* Settings and updates share the gate and the launch only, so a behaviour  *)
(* exercises one of them: it changes settings or releases updates.          *)
SceneKinds == {"settings", "updates"}

ASSUME ShellAssumption ==
    /\ Versions \subseteq Nat /\ MaxLaunches \in Nat \ {0} /\ MaxWrites \in Nat
    /\ Scenes \subseteq SceneKinds

VARIABLES
    scene,      \* bound: the scene of this behaviour
    launches,   \* launches so far
    mounted,    \* React has mounted the app, its listeners are registered
    session,    \* the keyring holds a session
    gate,       \* auth-store: status
    signIn,     \* auth-store: pending, and whether the browser is open
    signOut,    \* auth_logout is running
    file,       \* settings.json: version and values
    writes,     \* store.set() calls in flight
    settings,   \* settings-store: the values in memory
    hydrated,   \* settings-store: hydrated
    chosen,     \* what the user last chose for each setting
    lost,       \* a choice met a failed or interrupted write or load
    os,         \* the appearance the system prefers
    dark,       \* <html> has the class "dark"
    cache,      \* the preference in the boot cache
    effectDue,  \* the effect on [preference, hydrated] has not run yet
    released,   \* the manifest names a newer build
    update,     \* update-store: status
    dismissed,  \* update-store: dismissed
    staged,     \* updater-bridge: stagedUpdate is set
    run,        \* where the run of the mounted checker is
    orphan,     \* a run of an unmounted checker is still downloading
    installing, \* install() is running
    busy        \* phase is starting, recording or stopping

authVars     == <<session, gate, signIn, signOut>>
settingsVars == <<file, writes, settings, hydrated, chosen, lost>>
themeVars    == <<os, dark, cache, effectDue>>
checkerVars  == <<update, dismissed, staged, run, orphan>>
updateVars   == <<released, checkerVars, installing, busy>>
vars == <<scene, launches, mounted, authVars, settingsVars, themeVars, updateVars>>

Themes   == {"system", "light", "dark"}
Values   == [theme |-> Themes, language |-> {"auto", "en"}]
Defaults == [theme |-> "system", language |-> "auto"]
Settings == [theme : Values.theme, language : Values.language]

-----------------------------------------------------------------------------
(* theme.ts *)
ResolveTheme(preference, appearance) ==
    IF preference = "system" THEN appearance ELSE preference

(* main.tsx applies the cached preference before the first paint.          *)
Boot(preference, appearance) ==
    /\ dark' = (ResolveTheme(preference, appearance) = "dark")
    /\ mounted' = FALSE /\ gate' = "loading" /\ signIn' = "none" /\ signOut' = FALSE
    /\ writes' = <<>> /\ settings' = Defaults /\ hydrated' = FALSE
    /\ effectDue' = FALSE
    /\ update' = "idle" /\ dismissed' = FALSE /\ staged' = FALSE
    /\ run' = "none" /\ orphan' = FALSE /\ installing' = FALSE /\ busy' = FALSE

\* Mutant: "version <= SCHEMA_VERSION" takes the file for one to seed.
LoadedOffByOne(f) == Defaults

(* readAndMigrate() on the file it finds: a file of a newer build is left   *)
(* alone, an older one is seeded with the defaults.                         *)
Loaded(f) == IF f.version = SchemaVersion THEN f.values ELSE Defaults

Seeded(f) ==
    IF f.version < SchemaVersion THEN [version |-> SchemaVersion, values |-> Defaults]
                                 ELSE f

Init ==
    /\ scene \in Scenes /\ launches = 1 /\ mounted = FALSE
    /\ session \in BOOLEAN
    /\ gate = "loading" /\ signIn = "none" /\ signOut = FALSE
    /\ file \in [version : Versions, values : {Defaults}]
    /\ writes = <<>> /\ settings = Defaults /\ hydrated = FALSE
    /\ chosen = Defaults /\ lost = FALSE
    /\ os \in {"light", "dark"}
    /\ cache = "system" /\ dark = (os = "dark") /\ effectDue = FALSE
    /\ released = FALSE /\ update = "idle" /\ dismissed = FALSE /\ staged = FALSE
    /\ run = "none" /\ orphan = FALSE /\ installing = FALSE /\ busy = FALSE

(* The app mounts: App asks for both stores to be hydrated and listens to   *)
(* the sign-in events, ThemeProvider to the system's appearance.            *)
Mount ==
    /\ ~mounted /\ mounted' = TRUE
    /\ UNCHANGED <<scene, launches, authVars, settingsVars, themeVars, updateVars>>

-----------------------------------------------------------------------------
(* The update checker lives in the signed-in shell.                         *)

\* Mutant: a run starts only from the initial status.
StartRunOnce ==
    IF update # "idle" THEN UNCHANGED <<update, run>>
    ELSE update' = "checking" /\ run' = "check"

(* run() in useUpdateChecker(): not while an update is staged or on its way. *)
StartRun ==
    IF update = "downloading" \/ (update = "ready" /\ staged)
    THEN UNCHANGED <<update, run>>
    ELSE update' = "checking" /\ run' = "check"

(* The shell mounts, and the checker with it.                               *)
EnterShell ==
    /\ gate' = "authenticated"
    /\ StartRun
    /\ UNCHANGED <<dismissed, staged, orphan>>

(* The shell unmounts: the run is cancelled, which ends a check but not a    *)
(* download.  The status stays as it is.                                    *)
LeaveShell ==
    /\ gate' = "unauthenticated"
    /\ orphan' = (orphan \/ run = "download") /\ run' = "none"
    /\ UNCHANGED <<update, dismissed, staged>>

(* Once a day.  Checks are assumed to be shorter than a day.                *)
DailyTick ==
    /\ gate = "authenticated" /\ run # "check"
    /\ StartRun
    /\ UNCHANGED <<scene, launches, mounted, authVars, settingsVars, themeVars, released,
                   dismissed, staged, orphan, installing, busy>>

CheckAnswers ==
    /\ run = "check"
    /\ IF released
       THEN update' = "downloading" /\ dismissed' = FALSE /\ run' = "download"
       ELSE update' = "idle" /\ run' = "none" /\ UNCHANGED dismissed
    /\ UNCHANGED <<scene, launches, mounted, authVars, settingsVars, themeVars, released,
                   staged, orphan, installing, busy>>

DownloadStages ==
    /\ run = "download"
    /\ staged' = TRUE /\ update' = "ready" /\ run' = "none"
    /\ UNCHANGED <<scene, launches, mounted, authVars, settingsVars, themeVars, released,
                   dismissed, orphan, installing, busy>>

RunFails ==
    /\ run # "none"
    /\ update' = "error" /\ run' = "none"
    /\ UNCHANGED <<scene, launches, mounted, authVars, settingsVars, themeVars, released,
                   dismissed, staged, orphan, installing, busy>>

(* The cancelled run stages what it has downloaded and says nothing.        *)
OrphanEnds ==
    /\ orphan /\ orphan' = FALSE
    /\ staged' \in {staged, TRUE}
    /\ UNCHANGED <<scene, launches, mounted, authVars, settingsVars, themeVars, released,
                   update, dismissed, run, installing, busy>>

NewRelease ==
    /\ scene = "updates" /\ ~released /\ released' = TRUE
    /\ UNCHANGED <<scene, launches, mounted, authVars, settingsVars, themeVars,
                   checkerVars, installing, busy>>

(* The banner is offered unless a recording session is in flight.           *)
BannerShown == gate = "authenticated" /\ update = "ready" /\ ~dismissed /\ ~busy

Dismiss ==
    /\ BannerShown /\ dismissed' = TRUE
    /\ UNCHANGED <<scene, launches, mounted, authVars, settingsVars, themeVars, released,
                   update, staged, run, orphan, installing, busy>>

Install ==
    /\ BannerShown /\ ~installing /\ installing' = TRUE
    /\ UNCHANGED <<scene, launches, mounted, authVars, settingsVars, themeVars, released,
                   checkerVars, busy>>

InstallFails ==
    /\ installing /\ installing' = FALSE
    /\ UNCHANGED <<scene, launches, mounted, authVars, settingsVars, themeVars, released,
                   checkerVars, busy>>

(* The phase of the recording store, which the banner reads.                *)
RecordingToggles ==
    /\ scene = "updates" /\ gate = "authenticated" /\ busy' = ~busy
    /\ UNCHANGED <<scene, launches, mounted, authVars, settingsVars, themeVars, released,
                   checkerVars, installing>>

(* The app quits or is killed and starts again; writes in flight are lost.   *)
Relaunch ==
    /\ launches < MaxLaunches /\ launches' = launches + 1
    /\ Boot(cache, os)
    /\ lost' = (lost \/ writes # <<>>)
    /\ UNCHANGED <<scene, session, file, chosen, os, cache>>

QuitAndRelaunch == Relaunch /\ UNCHANGED released

InstallRelaunches == installing /\ Relaunch /\ released' = FALSE

-----------------------------------------------------------------------------
(* The sign-in gate.                                                        *)

(* hydrate(): what auth_get_session finds; a failed read counts as none.     *)
HydrateAuth ==
    /\ mounted /\ gate = "loading"
    /\ \/ session /\ EnterShell
       \/ gate' = "unauthenticated" /\ UNCHANGED checkerVars
    /\ UNCHANGED <<scene, launches, mounted, session, signIn, signOut, settingsVars,
                   themeVars, released, installing, busy>>

(* startLogin() is not repeated while one is pending.                       *)
StartLogin ==
    /\ gate = "unauthenticated" /\ signIn = "none"
    /\ signIn' \in {"browser", "none"}
    /\ UNCHANGED <<scene, launches, mounted, session, gate, signOut, settingsVars,
                   themeVars, updateVars>>

(* The redirect lands: auth://session-changed, or auth://error.             *)
LoginLands ==
    /\ signIn = "browser" /\ signIn' = "none"
    /\ session' = TRUE /\ EnterShell
    /\ UNCHANGED <<scene, launches, mounted, signOut, settingsVars, themeVars, released,
                   installing, busy>>

LoginErrors ==
    /\ signIn = "browser" /\ signIn' = "none"
    /\ UNCHANGED <<scene, launches, mounted, session, gate, signOut, settingsVars,
                   themeVars, updateVars>>

(* logout() clears the keyring, asks the server for a URL and only then      *)
(* leaves the shell, whatever came of it.                                    *)
Logout ==
    /\ gate = "authenticated" /\ ~signOut
    /\ signOut' = TRUE /\ session' \in {FALSE, session}
    /\ UNCHANGED <<scene, launches, mounted, gate, signIn, settingsVars, themeVars,
                   updateVars>>

LogoutReplies ==
    /\ signOut /\ signOut' = FALSE
    /\ LeaveShell
    /\ signIn' = "none"
    /\ UNCHANGED <<scene, launches, mounted, session, settingsVars, themeVars, released,
                   installing, busy>>

-----------------------------------------------------------------------------
(* The settings.                                                            *)

(* hydrate() of the settings store; when it fails the defaults are used.     *)
HydrateSettings ==
    /\ mounted /\ ~hydrated /\ hydrated' = TRUE
    /\ \/ settings' = Loaded(file) /\ file' = Seeded(file) /\ UNCHANGED lost
       \/ settings' = Defaults /\ lost' = TRUE /\ UNCHANGED file
    /\ effectDue' = TRUE
    /\ UNCHANGED <<scene, launches, mounted, authVars, writes, chosen, os, dark, cache,
                   updateVars>>

(* The settings sheet of the shell: a setter changes the memory first and    *)
(* then writes, best effort.  hydrate() overwrites what was set under it.    *)
ChangeSetting(k, v) ==
    /\ scene = "settings" /\ gate = "authenticated"
    /\ settings[k] # v /\ Len(writes) < MaxWrites
    /\ settings' = [settings EXCEPT ![k] = v]
    /\ chosen' = [chosen EXCEPT ![k] = v]
    /\ writes' = Append(writes, [key |-> k, value |-> v])
    /\ lost' = (lost \/ ~hydrated)
    /\ effectDue' = (effectDue \/ (k = "theme" /\ hydrated))
    /\ UNCHANGED <<scene, launches, mounted, authVars, file, hydrated, os, dark, cache,
                   updateVars>>

WriteLands ==
    /\ writes # <<>> /\ writes' = Tail(writes)
    /\ \/ /\ file' = [file EXCEPT !.values[Head(writes).key] = Head(writes).value]
          /\ UNCHANGED lost
       \/ lost' = TRUE /\ UNCHANGED file
    /\ UNCHANGED <<scene, launches, mounted, authVars, settings, hydrated, chosen,
                   themeVars, updateVars>>

-----------------------------------------------------------------------------
(* The theme.                                                               *)

(* The effect on a new preference, or on hydration.  The cache is best effort. *)
ApplyTheme ==
    /\ effectDue /\ effectDue' = FALSE
    /\ dark' = (ResolveTheme(settings.theme, os) = "dark")
    /\ cache' \in {cache, settings.theme}
    /\ UNCHANGED <<scene, launches, mounted, authVars, settingsVars, os, updateVars>>

\* Mutant: the listener knows the preference it was registered with.
OsFlipsStale ==
    /\ scene = "settings"
    /\ os' = IF os = "dark" THEN "light" ELSE "dark"
    /\ dark' = IF mounted THEN os' = "dark" ELSE dark
    /\ UNCHANGED <<scene, launches, mounted, authVars, settingsVars, cache, effectDue,
                   updateVars>>

(* The system's appearance flips; the listener reads the preference now.     *)
OsFlips ==
    /\ scene = "settings"
    /\ os' = IF os = "dark" THEN "light" ELSE "dark"
    /\ dark' = IF mounted /\ settings.theme = "system" THEN os' = "dark" ELSE dark
    /\ UNCHANGED <<scene, launches, mounted, authVars, settingsVars, cache, effectDue,
                   updateVars>>

-----------------------------------------------------------------------------
Next ==
    \/ Mount \/ QuitAndRelaunch \/ InstallRelaunches
    \/ HydrateAuth \/ StartLogin \/ LoginLands \/ LoginErrors
    \/ Logout \/ LogoutReplies
    \/ HydrateSettings \/ WriteLands
    \/ \E k \in DOMAIN Defaults : \E v \in Values[k] : ChangeSetting(k, v)
    \/ ApplyTheme \/ OsFlips
    \/ DailyTick \/ CheckAnswers \/ DownloadStages \/ RunFails \/ OrphanEnds
    \/ NewRelease \/ Dismiss \/ Install \/ InstallFails \/ RecordingToggles

Spec == Init /\ [][Next]_vars

(* The daily timer ticks and requests end; not all of them fail.            *)
Fairness ==
    /\ WF_vars(DailyTick)
    /\ SF_vars(CheckAnswers) /\ SF_vars(DownloadStages)

FairSpec == Spec /\ Fairness

-----------------------------------------------------------------------------
TypeOK ==
    /\ scene \in Scenes /\ launches \in 1..MaxLaunches
    /\ mounted \in BOOLEAN
    /\ session \in BOOLEAN /\ signOut \in BOOLEAN
    /\ gate \in {"loading", "authenticated", "unauthenticated"}
    /\ signIn \in {"none", "browser"}
    /\ file \in [version : Nat, values : Settings]
    /\ writes \in Seq([key : {"theme", "language"},
                       value : Values.theme \cup Values.language])
    /\ settings \in Settings /\ chosen \in Settings
    /\ hydrated \in BOOLEAN /\ lost \in BOOLEAN
    /\ os \in {"light", "dark"} /\ cache \in Themes
    /\ dark \in BOOLEAN /\ effectDue \in BOOLEAN
    /\ released \in BOOLEAN /\ dismissed \in BOOLEAN /\ staged \in BOOLEAN
    /\ update \in {"idle", "checking", "downloading", "ready", "error"}
    /\ run \in {"none", "check", "download"}
    /\ orphan \in BOOLEAN /\ installing \in BOOLEAN /\ busy \in BOOLEAN

(* What the user has chosen is what the app uses, in this launch and after   *)
(* later ones, unless a write or the load of the settings failed, the app    *)
(* quit under a write, the choice was made before the settings were loaded,  *)
(* or the file belongs to a newer build.                                     *)
SettingsKept ==
    hydrated /\ ~lost /\ file.version <= SchemaVersion => settings = chosen

(* Once the settings are loaded and the effects have run the window has the  *)
(* theme of the preference in memory, whatever the system's appearance and   *)
(* the boot cache were before.                                               *)
ThemeShown ==
    hydrated /\ ~effectDue =>
        dark = (ResolveTheme(settings.theme, os) = "dark")

(* A download whose checker was unmounted leaves the status behind: no run   *)
(* will ever move it in this launch.                                         *)
Stranded == update = "downloading" /\ run = "none"

(* While the user stays signed in a release is offered, however often checks *)
(* and downloads fail, unless a sign-out has stranded a download.            *)
UpdateIsOffered ==
    (<>[](gate = "authenticated")) =>
        (released ~> update = "ready" \/ Stranded)
=============================================================================
