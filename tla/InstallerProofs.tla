--------------------------- MODULE InstallerProofs --------------------------
(***************************************************************************)
(* Proofs about Installer for any number of versions and plugin files.     *)
(*                                                                         *)
(* A script decides what to do with a file in one command and does it in a *)
(* later one, so the properties need what the script knows at each of its  *)
(* commands (KnowsInstall, KnowsUninstall): that the original is saved     *)
(* when the generator is about to be overwritten, that it is in place when *)
(* the saved copy is about to be discarded.                                *)
(***************************************************************************)
EXTENDS Installer, TLAPS

USE VersionAssumption DEF None, Plugin, Cut, Stub

\* The package's generator is somewhere, and nothing else that would be
\* taken for it is in place.
Safe == harm = {} /\ package # None =>
           /\ package \in {poppler, backup}
           /\ poppler \in {package, None, Plugin, Cut}

At(a) == script.at = a /\ harm = {} /\ package # None

KnowsInstall ==
    script.name = "install" =>
      /\ script.at \in {"inspect", "save", "generator", "extras"}
      /\ At("save") => poppler = package
      /\ At("generator") \/ At("extras") => backup = package
      /\ script.at = "extras" /\ script.ok /\ "race" \notin harm => poppler = Plugin

KnowsUninstall ==
    script.name = "uninstall" =>
      /\ script.at \in {"clean", "judge", "restore", "remove", "discard", "system"}
      /\ At("restore") => backup = package
      /\ ~At("remove")
      /\ At("discard") \/ At("system") => poppler = package
      /\ script.ok /\ script.at # "clean" => extras \cap PluginFiles = {}
      /\ script.ok /\ script.at \in {"discard", "system"} => ~is_plugin_build(poppler)
      /\ script.ok /\ script.at = "system" => backup = None

\* A build recognised as the plugin's is not about to be saved or restored.
KnowsBuilds ==
    /\ Running("install", "save") => ~is_plugin_build(poppler)
    /\ Running("uninstall", "restore") => ~is_plugin_build(backup)

Resting ==
    /\ (script.name = None) <=> (script = Idle)
    /\ script.name # None => outcome = None

IInv == TypeOK /\ Resting /\ Safe /\ KnowsInstall /\ KnowsUninstall /\ KnowsBuilds /\ CompleteRuns

\* What moving on to the next command does to the script.
LEMMA Moves ==
    ASSUME TypeOK, NEW a, NEW ok \in BOOLEAN, GoOn(a, ok)
    PROVE  script'.name = script.name /\ script'.at = a /\ script'.ok = (script.ok /\ ok)
<1>1. script.ok \in BOOLEAN /\ script = [name |-> script.name, at |-> script.at, ok |-> script.ok]
  BY DEF TypeOK
<1> QED
  BY <1>1 DEF GoOn

\* No script: no name, no command, no failure.
LEMMA IdleFields == Idle.name = None /\ Idle.at = "" /\ Idle.ok = TRUE
BY DEF Idle

\* A system on which no script has run satisfies the invariant.
LEMMA InitIInv == Init => IInv
<1> SUFFICES ASSUME Init PROVE IInv
  OBVIOUS
<1>1. TypeOK /\ Resting
  BY DEF Init, TypeOK, Resting, Idle, Generator, Steps, Extras, SystemFiles
<1>2. Safe /\ CompleteRuns
  BY DEF Init, Safe, CompleteRuns
<1>3. KnowsInstall /\ KnowsUninstall /\ KnowsBuilds
  BY DEF Init, KnowsInstall, KnowsUninstall, KnowsBuilds, Idle, Running
<1> QED
  BY <1>1, <1>2, <1>3 DEF IInv

\* A script starts at its first command.
LEMMA Starts ==
    ASSUME NEW n \in {"install", "uninstall"}, Start(n)
    PROVE  /\ script'.name = n /\ script'.ok = TRUE
           /\ script'.at = IF n = "install" THEN "inspect" ELSE "clean"
           /\ script' # Idle /\ outcome' = None
           /\ UNCHANGED <<package, poppler, backup, extras, harm>>
BY DEF Start, Idle

\* What the two inspections find.
LEMMA InspectFinds ==
    ASSUME TypeOK, Inspect
    PROVE  /\ script.name = "install" /\ script'.name = "install"
           /\ script.at = "inspect"
           /\ script'.ok = script.ok
           /\ \/ script'.at = "save" /\ poppler # None /\ ~is_plugin_build(poppler)
              \/ script'.at = "generator" /\ (poppler = None \/ is_plugin_build(poppler))
<1> DEFINE a == IF poppler # None /\ ~is_plugin_build(poppler) THEN "save" ELSE "generator"
<1>1. GoOn(a, TRUE) /\ Running("install", "inspect")
  BY DEF Inspect
<1>2. script'.name = script.name /\ script'.at = a /\ script'.ok = (script.ok /\ TRUE)
  <2> HIDE DEF a
  <2> QED
    BY <1>1, Moves
<1>3. script.ok \in BOOLEAN
  BY DEF TypeOK
<1> QED
  BY <1>1, <1>2, <1>3 DEF Running

\* What uninstall.sh has found out about both files when it chooses a branch.
LEMMA JudgeFinds ==
    ASSUME TypeOK, Judge
    PROVE  /\ script.name = "uninstall" /\ script'.name = "uninstall"
           /\ script.at = "judge"
           /\ script'.ok = script.ok
           /\ \/ /\ script'.at = "remove" /\ is_plugin_build(poppler)
                 /\ backup = None \/ is_plugin_build(backup)
              \/ /\ script'.at = "restore" /\ (is_plugin_build(poppler) \/ poppler = None)
                 /\ backup # None /\ ~is_plugin_build(backup)
              \/ /\ script'.at = "discard" /\ ~is_plugin_build(poppler)
                 /\ poppler # None \/ backup = None \/ is_plugin_build(backup)
<1> DEFINE saved == backup # None /\ ~is_plugin_build(backup)
           a == CASE is_plugin_build(poppler) /\ ~saved -> "remove"
                  [] (is_plugin_build(poppler) \/ poppler = None) /\ saved -> "restore"
                  [] OTHER -> "discard"
<1>1. GoOn(a, TRUE) /\ Running("uninstall", "judge")
  BY DEF Judge
<1>2. script'.name = script.name /\ script'.at = a /\ script'.ok = (script.ok /\ TRUE)
  <2> HIDE DEF a
  <2> QED
    BY <1>1, Moves
<1>3. script.ok \in BOOLEAN
  BY DEF TypeOK
<1>4. CASE is_plugin_build(poppler) /\ ~saved
  <2>1. a = "remove"
    BY <1>4
  <2> QED
    BY <1>1, <1>2, <1>3, <1>4, <2>1 DEF Running
<1>5. CASE (is_plugin_build(poppler) \/ poppler = None) /\ saved
  <2>1. a = "restore"
    BY <1>5
  <2> QED
    BY <1>1, <1>2, <1>3, <1>5, <2>1 DEF Running
<1>6. CASE ~is_plugin_build(poppler) /\ ~(poppler = None /\ saved)
  <2>1. a = "discard"
    BY <1>6
  <2> QED
    BY <1>1, <1>2, <1>3, <1>6, <2>1 DEF Running
<1> QED
  BY <1>4, <1>5, <1>6

\* Every command keeps the types.
LEMMA TypeStep == TypeOK /\ [Next]_vars => TypeOK'
<1> SUFFICES ASSUME TypeOK, [Next]_vars PROVE TypeOK'
  OBVIOUS
<1> DEFINE S == [name: {None, "install", "uninstall"}, at: Steps, ok: BOOLEAN]
<1>1. Idle \in S
  BY DEF Idle, Steps
<1>2. ASSUME NEW a \in Steps, NEW ok \in BOOLEAN, GoOn(a, ok) PROVE script' \in S
  BY <1>2 DEF GoOn, TypeOK
<1>3. script' \in S
  <2>1. CASE Start("install") \/ Start("uninstall")
    <3>1. /\ "inspect" \in Steps /\ "clean" \in Steps
          /\ \/ script' = [name |-> "install", at |-> "inspect", ok |-> TRUE]
             \/ script' = [name |-> "uninstall", at |-> "clean", ok |-> TRUE]
      BY <2>1 DEF Start, Steps
    <3>2. CASE script' = [name |-> "install", at |-> "inspect", ok |-> TRUE]
      BY <3>1, <3>2
    <3>3. CASE script' = [name |-> "uninstall", at |-> "clean", ok |-> TRUE]
      BY <3>1, <3>3
    <3> QED
      BY <3>1, <3>2, <3>3
  <2>2. CASE Install
    <3>1. CASE Inspect
      <4> DEFINE a == IF poppler # None /\ ~is_plugin_build(poppler) THEN "save" ELSE "generator"
      <4>1. GoOn(a, TRUE) /\ a \in Steps
        BY <3>1 DEF Inspect, Steps
      <4> QED
        BY <1>2, <4>1
    <3> QED
      BY <1>1, <1>2, <2>2, <3>1 DEF Install, NoDirectory, Save, SaveFails, CopyGenerator,
         CopyGeneratorFails, CopyExtras, Steps
  <2>3. CASE Uninstall
    <3>1. CASE Judge
      <4>1. /\ script'.name = "uninstall" /\ script'.at \in Steps /\ script'.ok = script.ok
            /\ script' = [name |-> script'.name, at |-> script'.at, ok |-> script'.ok]
        BY <3>1, JudgeFinds DEF Judge, GoOn, TypeOK, Steps
      <4> QED
        BY <4>1 DEF TypeOK
    <3> QED
      BY <1>1, <1>2, <2>3, <3>1 DEF Uninstall, Clean, Restore, RestoreFails, Remove, Discard,
         CleanSystem, Steps
  <2> QED
    BY <1>1, <2>1, <2>2, <2>3 DEF Next, Stop, InstallPackage, RemovePackage, vars, TypeOK
<1> HIDE DEF S
<1>4. /\ package' \in Versions \cup {None} /\ poppler' \in Generator /\ backup' \in Generator
      /\ outcome' \in {None, "install", "uninstall"}
      /\ extras' \subseteq Extras
      /\ harm' \subseteq {"legacy", "move", "tear", "race"}
  <2> USE DEF TypeOK, Generator, Extras
  <2>1. CASE UNCHANGED vars
    BY <2>1 DEF vars
  <2>2. CASE Start("install") \/ Start("uninstall") \/ Stop
    BY <2>2 DEF Start, Stop
  <2>3. CASE Install
    BY <2>3 DEF Install, NoDirectory, Inspect, Save, SaveFails, CopyGenerator,
       CopyGeneratorFails, CopyExtras
  <2>4. CASE Uninstall
    BY <2>4 DEF Uninstall, Clean, Judge, Restore, RestoreFails, Remove, Discard, CleanSystem
  <2>5. CASE (\E v \in Versions : InstallPackage(v)) \/ RemovePackage
    BY <2>5 DEF InstallPackage, RemovePackage, Caught
  <2> QED
    BY <2>1, <2>2, <2>3, <2>4, <2>5 DEF Next
<1> QED
  BY <1>3, <1>4 DEF TypeOK, S

\* No command loses the package's generator, by what the script knows.
LEMMA SafeStep == IInv /\ [Next]_vars => Safe'
<1> SUFFICES ASSUME IInv, [Next]_vars PROVE Safe'
  OBVIOUS
<1> USE DEF IInv, TypeOK, Generator, Safe, At, Running, is_plugin_build
<1>1. CASE UNCHANGED vars
  BY <1>1 DEF vars
<1>2. CASE Start("install") \/ Start("uninstall") \/ Stop
  BY <1>2 DEF Start, Stop
<1>3. CASE NoDirectory \/ Inspect \/ Save \/ SaveFails
  BY <1>3 DEF NoDirectory, Inspect, Save, SaveFails, KnowsInstall
<1>4. CASE CopyGenerator \/ CopyGeneratorFails \/ CopyExtras
  BY <1>4 DEF CopyGenerator, CopyGeneratorFails, CopyExtras, KnowsInstall
<1>5. CASE Clean \/ Judge
  BY <1>5 DEF Clean, Judge
<1>6. CASE Restore \/ RestoreFails \/ Remove \/ Discard \/ CleanSystem
  BY <1>6 DEF Restore, RestoreFails, Remove, Discard, CleanSystem, KnowsUninstall
<1>7. CASE (\E v \in Versions : InstallPackage(v)) \/ RemovePackage
  BY <1>7 DEF InstallPackage, RemovePackage, Caught
<1> QED
  BY <1>1, <1>2, <1>3, <1>4, <1>5, <1>6, <1>7 DEF Next, Install, Uninstall

\* A script that ends leaves the idle state behind, one that runs has no outcome.
LEMMA RestingStep == IInv /\ [Next]_vars => Resting'
<1> SUFFICES ASSUME IInv, [Next]_vars PROVE Resting'
  OBVIOUS
<1>1. CASE UNCHANGED script /\ outcome' \in {outcome, None}
  BY <1>1 DEF IInv, Resting, Idle
<1>2. CASE script' = Idle
  BY <1>2 DEF Resting, Idle
<1>3. ASSUME NEW a, NEW ok \in BOOLEAN, GoOn(a, ok), script.name # None, outcome' = outcome
      PROVE  Resting'
  BY <1>3, Moves, IdleFields DEF IInv, Resting
<1>4. CASE Start("install") \/ Start("uninstall")
  BY <1>4, Starts DEF Resting
<1>5. CASE Install
  BY <1>2, <1>3, <1>5 DEF Install, NoDirectory, Inspect, Save, SaveFails, CopyGenerator,
     CopyGeneratorFails, CopyExtras, Running
<1>6. CASE Uninstall
  BY <1>2, <1>3, <1>6 DEF Uninstall, Clean, Judge, Restore, RestoreFails, Remove, Discard,
     CleanSystem, Running
<1> QED
  BY <1>1, <1>2, <1>4, <1>5, <1>6 DEF Next, Stop, InstallPackage, RemovePackage, vars

\* What install.sh has established holds until the command that relies on it.
LEMMA KnowsInstallStep == IInv /\ [Next]_vars => KnowsInstall'
<1> SUFFICES ASSUME IInv, [Next]_vars PROVE KnowsInstall'
  OBVIOUS
<1>t. TypeOK
  BY DEF IInv
<1>1. CASE UNCHANGED vars
  BY <1>1 DEF vars, IInv, KnowsInstall, At
<1>2. CASE script'.name # "install"
  BY <1>2 DEF KnowsInstall
<1>3. CASE Start("install")
  BY <1>3, Starts DEF KnowsInstall, At
<1>4. CASE Inspect
  <2>1. UNCHANGED <<package, poppler, backup, extras, outcome, harm>>
    BY <1>4 DEF Inspect
  <2>2. package # None => package \notin {None, Plugin, Cut, Stub}
    BY <1>t DEF TypeOK
  <2> QED
    BY <1>4, <1>t, <2>1, <2>2, InspectFinds DEF KnowsInstall, At, IInv, Safe, is_plugin_build
<1>5. CASE Save \/ SaveFails
  <2>1. script.name = "install" /\ script.at = "save" /\ script'.at = "generator"
    BY <1>5, <1>t, Moves DEF Save, SaveFails, Running
  <2> QED
    BY <1>5, <2>1 DEF Save, SaveFails, KnowsInstall, At, IInv
<1>6. CASE CopyGenerator \/ CopyGeneratorFails
  <2>1. /\ script.name = "install" /\ script.at = "generator" /\ script'.at = "extras"
        /\ script'.ok => poppler' = Plugin
    BY <1>6, <1>t, Moves DEF CopyGenerator, CopyGeneratorFails, Running
  <2>2. harm' = {} => harm = {}
    BY <1>6 DEF CopyGenerator, CopyGeneratorFails
  <2> QED
    BY <1>6, <2>1, <2>2 DEF CopyGenerator, CopyGeneratorFails, KnowsInstall, At, IInv
<1>7. CASE (\E v \in Versions : InstallPackage(v)) \/ RemovePackage
  BY <1>7, IdleFields DEF InstallPackage, RemovePackage, Caught, Resting, KnowsInstall, At, IInv
<1>8. CASE Uninstall
  BY <1>2, <1>8, <1>t, Moves, JudgeFinds, IdleFields DEF Uninstall, Clean, Judge, Restore,
     RestoreFails, Remove, Discard, CleanSystem, Running
<1>9. CASE Start("uninstall") \/ Stop \/ NoDirectory \/ CopyExtras
  BY <1>2, <1>9, IdleFields, Starts DEF Stop, NoDirectory, CopyExtras
<1> QED
  BY <1>1, <1>3, <1>4, <1>5, <1>6, <1>7, <1>8, <1>9 DEF Next, Install

\* What uninstall.sh has established holds until the command that relies on it.
LEMMA KnowsUninstallStep == IInv /\ [Next]_vars => KnowsUninstall'
<1> SUFFICES ASSUME IInv, [Next]_vars PROVE KnowsUninstall'
  OBVIOUS
<1>t. TypeOK
  BY DEF IInv
<1>k. script.ok \in BOOLEAN
  BY <1>t DEF TypeOK
<1>1. CASE UNCHANGED vars
  BY <1>1 DEF vars, IInv, KnowsUninstall, At, is_plugin_build
<1>2. CASE script'.name # "uninstall"
  BY <1>2 DEF KnowsUninstall, At
<1>3. CASE Start("uninstall")
  BY <1>3, Starts DEF KnowsUninstall, At
<1>4. CASE Clean
  <2>0. script.name = "uninstall" /\ UNCHANGED <<package, poppler, backup, harm>>
    BY <1>4 DEF Clean, Running
  <2>1. CASE PLUGIN_DIR
    <3>1. PICK kept \in SUBSET PluginFiles :
             extras' = extras \ (PluginFiles \ kept) /\ GoOn("judge", kept = {})
      BY <1>4, <2>1 DEF Clean
    <3>2. script'.name = "uninstall" /\ script'.at = "judge" /\ (script'.ok => kept = {})
      BY <1>t, <2>0, <3>1, Moves
    <3> QED
      BY <3>1, <3>2 DEF KnowsUninstall, At
  <2>2. CASE ~PLUGIN_DIR
    <3>1. extras' = extras /\ script'.name = "uninstall" /\ script'.at = "system"
      BY <1>4, <1>t, <2>0, <2>2, Moves DEF Clean
    <3> QED
      BY <2>0, <2>2, <3>1 DEF PLUGIN_DIR, KnowsUninstall, At, is_plugin_build
  <2> QED
    BY <2>1, <2>2
<1>5. CASE Judge
  <2>1. UNCHANGED <<package, poppler, backup, extras, outcome, harm>>
    BY <1>5 DEF Judge
  <2>2. package # None => package \notin {None, Plugin, Cut, Stub}
    BY <1>t DEF TypeOK
  <2> QED
    BY <1>5, <1>t, <2>1, <2>2, JudgeFinds DEF Safe, IInv, KnowsUninstall, At, is_plugin_build
<1>6. CASE Restore \/ RestoreFails
  <2>1. /\ script.name = "uninstall" /\ script.at = "restore"
        /\ script'.name = "uninstall" /\ script'.at = "discard"
        /\ script'.ok => script.ok /\ poppler' = backup
    BY <1>6, <1>t, <1>k, Moves DEF Restore, RestoreFails, Running
  <2> QED
    BY <1>6, <2>1 DEF Restore, RestoreFails, KnowsUninstall, KnowsBuilds, Running, At, IInv,
       is_plugin_build
<1>7. CASE Remove \/ Discard
  <2>1. /\ script.name = "uninstall" /\ script'.name = "uninstall"
        /\ script'.ok => script.ok
    BY <1>7, <1>t, <1>k, Moves DEF Remove, Discard, Running
  <2>2. CASE Remove
    <3>1. /\ script.at = "remove" /\ script'.at = "discard"
          /\ script'.ok => poppler' = None
      BY <2>2, <1>t, <1>k, Moves DEF Remove, Running
    <3> QED
      BY <2>1, <2>2, <3>1 DEF Remove, KnowsUninstall, At, IInv, is_plugin_build
  <2>3. CASE Discard
    <3>1. /\ script.at = "discard" /\ script'.at = "system"
          /\ script'.ok => backup' = None
      BY <2>3, <1>t, <1>k, Moves DEF Discard, Running
    <3> QED
      BY <2>1, <2>3, <3>1 DEF Discard, KnowsUninstall, At, IInv, is_plugin_build
  <2> QED
    BY <1>7, <2>2, <2>3
<1>8. CASE (\E v \in Versions : InstallPackage(v)) \/ RemovePackage
  BY <1>8, IdleFields DEF InstallPackage, RemovePackage, Caught, Resting, KnowsUninstall, At,
     IInv, is_plugin_build
<1>9. CASE Install
  BY <1>2, <1>9, <1>t, Moves, InspectFinds, IdleFields DEF Install, NoDirectory, Inspect, Save,
     SaveFails, CopyGenerator, CopyGeneratorFails, CopyExtras, Running
<1>10. CASE Start("install") \/ Stop \/ CleanSystem
  BY <1>2, <1>10, IdleFields, Starts DEF Stop, CleanSystem
<1> QED
  BY <1>1, <1>3, <1>4, <1>5, <1>6, <1>7, <1>8, <1>9, <1>10 DEF Next, Uninstall

\* A file found not to be the plugin's is still not when it is copied.
LEMMA KnowsBuildsStep == IInv /\ [Next]_vars => KnowsBuilds'
<1> SUFFICES ASSUME IInv, [Next]_vars PROVE KnowsBuilds'
  OBVIOUS
<1>t. TypeOK
  BY DEF IInv
<1>1. CASE script'.at \notin {"save", "restore"}
  BY <1>1 DEF KnowsBuilds, Running
<1>2. CASE UNCHANGED vars
  BY <1>2 DEF vars, IInv, KnowsBuilds, Running, is_plugin_build
<1>3. CASE Start("install") \/ Start("uninstall") \/ Stop
  BY <1>1, <1>3, IdleFields, Starts DEF Stop
<1>4. CASE Inspect
  BY <1>4, <1>t, InspectFinds DEF Inspect, KnowsBuilds, Running, is_plugin_build
<1>5. CASE NoDirectory \/ Save \/ SaveFails \/ CopyGenerator \/ CopyGeneratorFails \/ CopyExtras
  <2>1. script'.at \in {"", "generator", "extras"}
    BY <1>5, <1>t, Moves, IdleFields
       DEF NoDirectory, Save, SaveFails, CopyGenerator, CopyGeneratorFails, CopyExtras
  <2> QED
    BY <1>1, <2>1
<1>6. CASE Judge
  BY <1>6, <1>t, JudgeFinds DEF Judge, KnowsBuilds, Running, is_plugin_build
<1>7. CASE Clean \/ Restore \/ RestoreFails \/ Remove \/ Discard \/ CleanSystem
  <2>1. script'.at \in {"", "judge", "discard", "system"}
    BY <1>7, <1>t, Moves, IdleFields
       DEF Clean, Restore, RestoreFails, Remove, Discard, CleanSystem
  <2> QED
    BY <1>1, <2>1
<1>8. CASE (\E v \in Versions : InstallPackage(v)) \/ RemovePackage
  BY <1>8 DEF InstallPackage, RemovePackage, IInv, KnowsBuilds, Running, is_plugin_build
<1> QED
  BY <1>2, <1>3, <1>4, <1>5, <1>6, <1>7, <1>8 DEF Next, Install, Uninstall

\* A script that ends with success has done all of its work.
LEMMA CompleteStep == IInv /\ [Next]_vars => CompleteRuns'
<1> SUFFICES ASSUME IInv, [Next]_vars PROVE CompleteRuns'
  OBVIOUS
<1>1. CASE UNCHANGED <<package, poppler, backup, extras, outcome, harm>>
  BY <1>1 DEF IInv, CompleteRuns, is_plugin_build
<1>2. CASE outcome' = None
  BY <1>2 DEF CompleteRuns
<1>3. CASE CopyExtras
  <2>1. /\ script.name = "install" /\ script.at = "extras"
        /\ outcome' = "install" => script.ok /\ extras' = Extras
    BY <1>3 DEF CopyExtras, Running, IInv, TypeOK
  <2> QED
    BY <1>3, <2>1 DEF CopyExtras, CompleteRuns, KnowsInstall, IInv
<1>4. CASE CleanSystem
  <2>1. /\ script.name = "uninstall" /\ script.at = "system"
        /\ outcome' = "uninstall" => script.ok /\ extras' = extras \ SystemFiles
        /\ outcome' # "install"
    BY <1>4 DEF CleanSystem, Running
  <2>2. outcome' = "uninstall" => extras' = {}
    BY <2>1 DEF IInv, KnowsUninstall, TypeOK, Extras
  <2> QED
    BY <1>4, <2>1, <2>2 DEF CleanSystem, CompleteRuns, KnowsUninstall, At, IInv, is_plugin_build
<1>5. script.name # None => outcome = None
  BY DEF IInv, Resting
<1>6. CASE Install
  BY <1>2, <1>3, <1>5, <1>6 DEF Install, NoDirectory, Inspect, Save, SaveFails, CopyGenerator,
     CopyGeneratorFails, Running
<1>7. CASE Uninstall
  BY <1>2, <1>4, <1>5, <1>7 DEF Uninstall, Clean, Judge, Restore, RestoreFails, Remove, Discard,
     Running
<1> QED
  BY <1>1, <1>2, <1>6, <1>7 DEF Next, Start, Stop, InstallPackage, RemovePackage, vars

\* The inductive invariant of the scripts: what the next command of a running
\* script relies on is still true when it runs, whatever failed before it, and
\* the package's generator is in place or saved unless a mishap was recorded.
THEOREM InvariantHolds == Spec => []IInv
<1>1. IInv /\ [Next]_vars => IInv'
  BY TypeStep, SafeStep, RestingStep, KnowsInstallStep, KnowsUninstallStep, KnowsBuildsStep,
     CompleteStep DEF IInv
<1> QED
  BY <1>1, InitIInv, PTL DEF Spec

\* However often the scripts run and wherever they are stopped, the package's
\* own generator is in place or saved, as long as no rename failed, no
\* unrecognisable copy was left and no package operation ran beside a script.
THEOREM OriginalIsKept == Spec => []OriginalKept
<1>1. IInv => OriginalKept
  BY DEF IInv, Safe, OriginalKept
<1> QED
  BY <1>1, InvariantHolds, PTL

\* A run of either script that went through leaves what it promises, whatever
\* state earlier runs, stopped or failed, had left.
THEOREM CompleteRunsDeliver == Spec => []CompleteRuns
<1>1. IInv => CompleteRuns
  BY DEF IInv
<1> QED
  BY <1>1, InvariantHolds, PTL

\* No step of any script or of the package manager ever saves a build that
\* is_plugin_build() recognises.
THEOREM PluginIsNeverSaved == Spec => PluginNeverSaved
<1>1. IInv /\ [Next]_vars => [backup' # backup => ~is_plugin_build(backup')]_vars
  <2> SUFFICES ASSUME IInv, Next, backup' # backup PROVE ~is_plugin_build(backup')
    BY DEF vars
  <2>1. CASE Save
    BY <2>1 DEF Save, IInv, KnowsBuilds, is_plugin_build
  <2>2. CASE backup' = None
    BY <2>2 DEF is_plugin_build
  <2> QED
    BY <2>1, <2>2 DEF Next, Start, Stop, Install, Uninstall, NoDirectory, Inspect, SaveFails,
       CopyGenerator, CopyGeneratorFails, CopyExtras, Clean, Judge, Restore, RestoreFails,
       Remove, Discard, CleanSystem, InstallPackage, RemovePackage
<1> QED
  BY <1>1, InvariantHolds, PTL DEF Spec, PluginNeverSaved

\* Unless a mishap was recorded, what is saved is the generator of the package
\* that is installed: install.sh saves what it found in place, and what it found
\* and did not recognise is still the package's own build when it is renamed.
THEOREM SavedIsOriginal == Spec => OriginalSaved
<1>1. IInv /\ [Next]_vars =>
        [harm = {} /\ harm' = {} /\ package # None /\ backup' # backup
           => backup' \in {package, None}]_vars
  <2> SUFFICES ASSUME IInv, Next, harm = {}, package # None, backup' # backup
               PROVE  backup' \in {package, None}
    BY DEF vars
  <2>1. CASE Save
    BY <2>1 DEF Save, Running, IInv, KnowsInstall, At
  <2>2. CASE Restore \/ Discard
    BY <2>2 DEF Restore, Discard
  <2> QED
    BY <2>1, <2>2 DEF Next, Start, Stop, Install, Uninstall, NoDirectory, Inspect, SaveFails,
       CopyGenerator, CopyGeneratorFails, CopyExtras, Clean, Judge, RestoreFails,
       Remove, CleanSystem, InstallPackage, RemovePackage
<1> QED
  BY <1>1, InvariantHolds, PTL DEF Spec, OriginalSaved
=============================================================================
