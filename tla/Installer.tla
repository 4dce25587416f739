------------------------------ MODULE Installer -----------------------------
(***************************************************************************)
(* install.sh and uninstall.sh, command by command, on the files they      *)
(* share with the distribution's package manager: the PDF generator in     *)
(* Okular's plugin directory, the copy of the distribution's generator     *)
(* that install.sh saves in tmp/, and the plugin's own files.              *)
(*                                                                         *)
(* Neither script stops at a failing command, so every command may fail    *)
(* and the next one still runs; either script may be stopped between two   *)
(* commands; and the package manager takes no notice of either.            *)
(***************************************************************************)
EXTENDS Naturals, FiniteSets

CONSTANTS
    Versions,   \* the distribution's builds of okularGenerator_poppler.so
    PluginFiles \* okularGenerator_v3d.so, libv3dCommon.so and the shaders

\* The other things okularGenerator_poppler.so can be: missing, the plugin's
\* build, a truncated copy of it that still holds one of the strings
\* is_plugin_build() looks for, and one too short to hold any.
None   == "none"
Plugin == "plugin"
Cut    == "cut"
Stub   == "stub"

ASSUME VersionAssumption ==
    /\ Versions \cap {None, Plugin, Cut, Stub} = {}
    /\ PluginFiles \cap {"mime", "desktop"} = {}

VARIABLES
    package, \* the version of the package that is installed, or None
    poppler, \* what is in place as okularGenerator_poppler.so
    backup,  \* what is saved as tmp/okularGenerator_poppler.so
    extras,  \* the plugin's other files that are in place
    script,  \* the running script: its name, next command, no failure so far
    outcome, \* the script that last ran to its end, all commands succeeding
    harm     \* mishaps since the package manager last wrote its generator

vars == <<package, poppler, backup, extras, script, outcome, harm>>

Generator   == Versions \cup {None, Plugin, Cut, Stub}
SystemFiles == {"mime", "desktop"}
Extras      == PluginFiles \cup SystemFiles

Steps == {"", "inspect", "save", "generator", "extras", "clean", "judge",
          "restore", "remove", "discard", "system"}

Idle == [name |-> None, at |-> "", ok |-> TRUE]

TypeOK ==
    /\ package \in Versions \cup {None}
    /\ poppler \in Generator
    /\ backup \in Generator
    /\ extras \subseteq Extras
    /\ script \in [name: {None, "install", "uninstall"}, at: Steps, ok: BOOLEAN]
    /\ outcome \in {None, "install", "uninstall"}
    /\ harm \subseteq {"legacy", "move", "tear", "race"}

\* The plugin is not installed, or an older install.sh, which saved whatever
\* was in place, has run once or twice.
Init ==
    /\ package \in Versions
    /\ \/ poppler = package /\ backup = None /\ extras = {} /\ harm = {}
       \/ poppler = Plugin /\ backup = package /\ extras = Extras /\ harm = {}
       \/ poppler = Plugin /\ backup = Plugin /\ extras = Extras /\ harm = {"legacy"}
    /\ script = Idle
    /\ outcome = None

-----------------------------------------------------------------------------
\* Mutant: a string near the end of the file is looked for, which a copy that
\* was cut short does not hold.
is_plugin_build_Whole(file) == file = Plugin

is_plugin_build(file) == file \in {Plugin, Cut}

\* [ -d "$dir" ]: the directory goes away with the last file in it.
PLUGIN_DIR ==
    \/ package # None \/ poppler # None \/ backup # None
    \/ extras \cap PluginFiles # {}

Running(name, at) == script.name = name /\ script.at = at

\* The script goes on; ok is FALSE when the command failed.
GoOn(at, ok) == script' = [script EXCEPT !.at = at, !.ok = @ /\ ok]

Start(name) ==
    /\ script = Idle
    /\ script' = [name |-> name, at |-> IF name = "install" THEN "inspect" ELSE "clean", ok |-> TRUE]
    /\ outcome' = None
    /\ UNCHANGED <<package, poppler, backup, extras, harm>>

\* The script is killed, or the machine goes down, between two commands.
Stop ==
    /\ script # Idle
    /\ script' = Idle
    /\ UNCHANGED <<package, poppler, backup, extras, outcome, harm>>

-----------------------------------------------------------------------------
(* install.sh                                                              *)

NoDirectory ==
    /\ Running("install", "inspect")
    /\ ~PLUGIN_DIR
    /\ script' = Idle
    /\ UNCHANGED <<package, poppler, backup, extras, outcome, harm>>

\* Mutant: whatever is in place is saved, as older versions of the script did.
Inspect_SaveAnything ==
    /\ Running("install", "inspect")
    /\ PLUGIN_DIR
    /\ GoOn(IF poppler # None THEN "save" ELSE "generator", TRUE)
    /\ UNCHANGED <<package, poppler, backup, extras, outcome, harm>>

\* Only a generator that is not recognised as the plugin's is saved.
Inspect ==
    /\ Running("install", "inspect")
    /\ PLUGIN_DIR
    /\ GoOn(IF poppler # None /\ ~is_plugin_build(poppler) THEN "save" ELSE "generator", TRUE)
    /\ UNCHANGED <<package, poppler, backup, extras, outcome, harm>>

\* mv -f "$POPPLER" "$BACKUP": a rename, done or not done.
Save ==
    /\ Running("install", "save")
    /\ poppler # None
    /\ backup' = poppler
    /\ poppler' = None
    /\ GoOn("generator", TRUE)
    /\ UNCHANGED <<package, extras, outcome, harm>>

SaveFails ==
    /\ Running("install", "save")
    /\ harm' = harm \cup {"move"}
    /\ GoOn("generator", FALSE)
    /\ UNCHANGED <<package, poppler, backup, extras, outcome>>

\* install okularGenerator_poppler.so "$PLUGIN_DIR".  When it fails it leaves
\* the old file (it could not read the new one), no file, or a part of one.
CopyGenerator ==
    /\ Running("install", "generator")
    /\ poppler' = Plugin
    /\ GoOn("extras", TRUE)
    /\ UNCHANGED <<package, backup, extras, outcome, harm>>

CopyGeneratorFails ==
    /\ Running("install", "generator")
    /\ poppler' \in {poppler, None, Cut, Stub}
    /\ harm' = IF poppler' = Stub THEN harm \cup {"tear"} ELSE harm
    /\ GoOn("extras", FALSE)
    /\ UNCHANGED <<package, backup, extras, outcome>>

\* The other install commands, each of which may fail: some of the files
\* arrive, and the run counts as complete when all did.
CopyExtras ==
    /\ Running("install", "extras")
    /\ \E arrived \in SUBSET Extras :
         /\ extras' = extras \cup arrived
         /\ outcome' = IF script.ok /\ arrived = Extras THEN "install" ELSE None
    /\ script' = Idle
    /\ UNCHANGED <<package, poppler, backup, harm>>

-----------------------------------------------------------------------------
(* uninstall.sh                                                            *)

\* rm -f of the plugin's own files, skipped without a plugin directory.
Clean ==
    /\ Running("uninstall", "clean")
    /\ IF PLUGIN_DIR
       THEN /\ \E kept \in SUBSET PluginFiles :
                 /\ extras' = extras \ (PluginFiles \ kept)
                 /\ GoOn("judge", kept = {})
       ELSE UNCHANGED extras /\ GoOn("system", TRUE)
    /\ UNCHANGED <<package, poppler, backup, outcome, harm>>

\* Mutant: a plugin build in place is removed without a look at the backup.
Judge_RemoveFirst ==
    /\ Running("uninstall", "judge")
    /\ LET saved == backup # None /\ ~is_plugin_build(backup) IN
       GoOn(CASE is_plugin_build(poppler)    -> "remove"
              [] poppler = None /\ saved     -> "restore"
              [] OTHER                       -> "discard", TRUE)
    /\ UNCHANGED <<package, poppler, backup, extras, outcome, harm>>

\* Which generator is in place, and which is saved?
Judge ==
    /\ Running("uninstall", "judge")
    /\ LET saved == backup # None /\ ~is_plugin_build(backup) IN
       GoOn(CASE is_plugin_build(poppler) /\ ~saved                  -> "remove"
              [] (is_plugin_build(poppler) \/ poppler = None) /\ saved -> "restore"
              [] OTHER                                               -> "discard", TRUE)
    /\ UNCHANGED <<package, poppler, backup, extras, outcome, harm>>

\* mv -f "$BACKUP" "$POPPLER"
Restore ==
    /\ Running("uninstall", "restore")
    /\ backup # None
    /\ poppler' = backup
    /\ backup' = None
    /\ GoOn("discard", TRUE)
    /\ UNCHANGED <<package, extras, outcome, harm>>

RestoreFails ==
    /\ Running("uninstall", "restore")
    /\ harm' = harm \cup {"move"}
    /\ GoOn("discard", FALSE)
    /\ UNCHANGED <<package, poppler, backup, extras, outcome>>

\* rm -f "$POPPLER"
Remove ==
    /\ Running("uninstall", "remove")
    /\ \/ poppler' = None /\ GoOn("discard", TRUE)
       \/ UNCHANGED poppler /\ GoOn("discard", FALSE)
    /\ UNCHANGED <<package, backup, extras, outcome, harm>>

\* rm -rf "$PLUGIN_DIR/tmp"
Discard ==
    /\ Running("uninstall", "discard")
    /\ \/ backup' = None /\ GoOn("system", TRUE)
       \/ UNCHANGED backup /\ GoOn("system", FALSE)
    /\ UNCHANGED <<package, poppler, extras, outcome, harm>>

\* The mime type and the desktop entry.
CleanSystem ==
    /\ Running("uninstall", "system")
    /\ \E kept \in SUBSET SystemFiles :
         /\ extras' = extras \ (SystemFiles \ kept)
         /\ outcome' = IF script.ok /\ kept = {} THEN "uninstall" ELSE None
    /\ script' = Idle
    /\ UNCHANGED <<package, poppler, backup, harm>>

-----------------------------------------------------------------------------
(* The package manager installs, updates, reinstalls or removes the        *)
(* distribution's generator.  A script that is running is caught unawares. *)

Caught == IF script = Idle THEN {} ELSE {"race"}

InstallPackage(v) ==
    /\ package' = v
    /\ poppler' = v
    /\ outcome' = None
    /\ harm' = Caught
    /\ UNCHANGED <<backup, extras, script>>

RemovePackage ==
    /\ package # None
    /\ package' = None
    /\ poppler' = None
    /\ outcome' = None
    /\ harm' = harm \cup Caught
    /\ UNCHANGED <<backup, extras, script>>

-----------------------------------------------------------------------------
Install   == \/ NoDirectory \/ Inspect \/ Save \/ SaveFails
             \/ CopyGenerator \/ CopyGeneratorFails \/ CopyExtras
Uninstall == \/ Clean \/ Judge \/ Restore \/ RestoreFails
             \/ Remove \/ Discard \/ CleanSystem

Next ==
    \/ Start("install") \/ Start("uninstall") \/ Stop
    \/ Install \/ Uninstall
    \/ \E v \in Versions : InstallPackage(v)
    \/ RemovePackage

Spec == Init /\ [][Next]_vars

-----------------------------------------------------------------------------
(* Properties                                                              *)

\* The distribution's generator is never lost: as long as no rename failed,
\* no truncated copy was left behind and the package manager did not run at
\* the same time, the build the package installed is in place or saved,
\* however often the scripts run, are stopped between two commands or have
\* other commands fail.  (install.sh: "the original is preserved in
\* <plugindir>/tmp/ so that uninstall.sh can restore it".)
OriginalKept ==
    harm = {} /\ package # None => package \in {poppler, backup}

\* A build that is recognised as the plugin's is never saved as the original,
\* whatever fails (install.sh:11-12).
PluginNeverSaved == [][backup' # backup => ~is_plugin_build(backup')]_vars

\* What is saved is the generator of the package that is installed: a command
\* that changes the saved copy saves that build or gives the copy up, never the
\* build of an earlier package, an empty file or a part of one, as long as no
\* mishap was recorded (install.sh:9-10, "The backup is only taken from a
\* distribution generator").
OriginalSaved ==
    [][harm = {} /\ harm' = {} /\ package # None /\ backup' # backup
         => backup' \in {package, None}]_vars

\* What a complete run achieves, whatever runs that were stopped or failed
\* came before it: after uninstall.sh nothing is left that can be told to be
\* the plugin's (a copy torn beyond recognition cannot), and without mishaps
\* the package's own generator is in place; after install.sh everything is.
CompleteRuns ==
    /\ outcome = "install" /\ "race" \notin harm => poppler = Plugin /\ extras = Extras
    /\ outcome = "uninstall" =>
         /\ ~is_plugin_build(poppler)
         /\ backup = None
         /\ extras = {}
         /\ harm = {} /\ package # None => poppler = package

\* install.sh:11-12 taken at its word: what is saved is the distribution's
\* build.  A copy that was cut short is not recognised by the next run, which
\* saves it over the original.
OnlyOriginalsSaved == [][backup' # backup => backup' \in Versions \cup {None}]_vars
=============================================================================
