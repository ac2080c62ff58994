---------------------------- MODULE SystemFiles ----------------------------
(***************************************************************************)
(* What the application keeps on disk between its runs, and how it finds    *)
(* out at each start what is missing: the installation of the shared image  *)
(* (ImageFsInstaller), stamped with its version, and the preparation of a   *)
(* container before its guest is started (XServerDisplayActivity), with     *)
(* markers in the container's configuration file that tell which DirectX    *)
(* wrapper and which graphics driver have been extracted.                   *)
(*                                                                         *)
(* The driver's libraries lie in the image, which all containers share; the *)
(* wrapper's in the container's own prefix.  The process can be killed      *)
(* between any two steps, and extracting or writing a file can fail, which  *)
(* most callers ignore.                                                     *)
(***************************************************************************)
EXTENDS Naturals, FiniteSets

CONSTANTS
  Containers,
  Drivers,          \* graphics drivers
  Wrappers,         \* DirectX wrappers
  MaxVersion,       \* bound on LATEST_VERSION
  None,             \* nothing there; a marker that is not set
  Broken            \* a file or a set of files written in part

Versions == 1 .. MaxVersion

ASSUME FilesAssumption ==
  /\ MaxVersion \in Nat \ {0}
  /\ None # Broken
  /\ None \notin Containers
  /\ {None, Broken} \cap (Drivers \cup Wrappers \cup Versions \cup {0}) = {}

VARIABLES
  app,              \* LATEST_VERSION of the installed application
  stamp,            \* the content of .img_version
  image,            \* the version of the extracted image
  patched,          \* applyGeneralPatches has been run on it
  libs,             \* the driver whose libraries are in the image
  prefix,           \* the wrapper whose DLLs are in each prefix
  config,           \* the markers in each configuration file
  pc,               \* where the process is
  todo,             \* containers still to be reset
  current,          \* the container being started
  wanted,           \* its settings: [driver, wrapper]
  extra,            \* extraData of the loaded container
  changed,          \* containerDataChanged
  torn              \* prefixes and (None) libraries whose extraction was cut
                    \* short or failed: not in the code

diskVars == <<stamp, image, patched, libs, prefix, config>>
runVars == <<todo, current, wanted, extra, changed>>
vars == <<app, diskVars, pc, runVars, torn>>

Markers == [imgVersion : Versions \cup {0, None}, appVersion : Versions \cup {None},
            driver : Drivers \cup {None}, wrapper : Wrappers \cup {None}]

NoMarkers == [imgVersion |-> None, appVersion |-> None, driver |-> None, wrapper |-> None]

Settings == [driver : Drivers, wrapper : Wrappers]

(* Containers whose configuration can be parsed.                            *)
Intact == {c \in Containers : config[c] # Broken}

(* loadContainers stops at the first configuration it cannot parse, in the  *)
(* order in which the directories happen to be listed.                      *)
Loadable == {S \in SUBSET Intact : Intact = Containers => S = Intact}

Init ==
  /\ app = 1
  /\ stamp = None
  /\ image = None
  /\ patched = FALSE
  /\ libs = None
  /\ prefix = [c \in Containers |-> None]
  /\ config = [c \in Containers |-> NoMarkers]
  /\ pc = "dead"
  /\ todo = {}
  /\ current = None
  /\ wanted = None
  /\ extra = NoMarkers
  /\ changed = FALSE
  /\ torn = {}

-----------------------------------------------------------------------------
(* Installing the image.                                                    *)

(* getVersion of ImageFs.  An empty .img_version makes it throw.            *)
StampVersion == IF stamp = None THEN 0 ELSE stamp

InstallIfNeeded ==
  /\ pc = "dead"
  /\ stamp # Broken
  /\ pc' = IF StampVersion < app THEN "clear" ELSE "main"
  /\ UNCHANGED <<app, diskVars, runVars, torn>>

(* clearRootDir deletes what is in the root directory, except home and opt, *)
(* in the order in which it is listed.                                      *)
ClearStamp ==
  /\ pc = "clear"
  /\ stamp' = None
  /\ UNCHANGED <<app, image, patched, libs, prefix, config, pc, runVars, torn>>

ClearFiles ==
  /\ pc = "clear"
  /\ image' = None
  /\ patched' = FALSE
  /\ libs' = None
  /\ UNCHANGED <<app, stamp, prefix, config, pc, runVars, torn>>

(* Mutant: the version is written as soon as the extraction begins.         *)
ExtractImage_StampFirst(outcome) ==
  /\ pc = "clear"
  /\ stamp = None /\ image = None
  /\ stamp' = app
  /\ image' = outcome
  /\ pc' = IF outcome = app THEN "stamp" ELSE "main"
  /\ UNCHANGED <<app, patched, libs, prefix, config, runVars, torn>>

(* The archive is extracted, or this fails and leaves a part of it.         *)
ExtractImage(outcome) ==
  /\ pc = "clear"
  /\ stamp = None /\ image = None
  /\ image' = outcome
  /\ pc' = IF outcome = app THEN "stamp" ELSE "main"
  /\ UNCHANGED <<app, stamp, patched, libs, prefix, config, runVars, torn>>

(* createImgVersionFile: the file is created, then written; it stays empty  *)
(* if writing fails.                                                        *)
CreateStamp ==
  /\ pc = "stamp"
  /\ stamp' = Broken
  /\ pc' = "write stamp"
  /\ UNCHANGED <<app, image, patched, libs, prefix, config, runVars, torn>>

(* Then resetContainerImgVersions loads the containers.                     *)
WriteStamp(content) ==
  /\ pc = "write stamp"
  /\ stamp' = content
  /\ \E S \in Loadable : todo' = S
  /\ pc' = "reset"
  /\ UNCHANGED <<app, image, patched, libs, prefix, config, current, wanted,
                 extra, changed, torn>>

(* Each is written again without its imgVersion.                            *)
ResetContainer(c) ==
  /\ pc = "reset"
  /\ c \in todo
  /\ todo' = todo \ {c}
  /\ current' = c
  /\ extra' = [config[c] EXCEPT !.imgVersion = None]
  /\ config' = [config EXCEPT ![c] = Broken]
  /\ pc' = "reset save"
  /\ UNCHANGED <<app, stamp, image, patched, libs, prefix, wanted, changed, torn>>

ResetDone ==
  /\ pc = "reset"
  /\ todo = {}
  /\ pc' = "main"
  /\ UNCHANGED <<app, diskVars, runVars, torn>>

-----------------------------------------------------------------------------
(* saveData truncates the configuration file, then writes it; it stays      *)
(* empty if writing fails.                                                  *)

SaveBegins ==
  /\ pc \in {"save files", "save driver"}
  /\ config' = [config EXCEPT ![current] = Broken]
  /\ pc' = IF pc = "save files" THEN "write files" ELSE "write driver"
  /\ UNCHANGED <<app, stamp, image, patched, libs, prefix, runVars, torn>>

SaveEnds(content) ==
  /\ pc \in {"write files", "write driver", "reset save"}
  /\ content \in {extra, Broken}
  /\ config' = [config EXCEPT ![current] = content]
  /\ pc' = CASE pc = "write files" -> "driver"
             [] pc = "write driver" -> "extract driver"
             [] pc = "reset save" -> "reset"
  /\ UNCHANGED <<app, stamp, image, patched, libs, prefix, runVars, torn>>

-----------------------------------------------------------------------------
(* Starting a container: XServerDisplayActivity.onCreate.                   *)

Launch(c, s) ==
  /\ pc = "main"
  /\ stamp # Broken
  /\ \E S \in Loadable : c \in S
  /\ current' = c
  /\ wanted' = s
  /\ extra' = config[c]
  /\ changed' = FALSE
  /\ pc' = "patch"
  /\ UNCHANGED <<app, diskVars, todo, torn>>

(* Mutant: only the version of the application is compared.                 *)
Unpatched_SameImage == extra.appVersion # app

Unpatched == extra.appVersion # app \/ extra.imgVersion # StampVersion

(* Mutant: the marker of the driver is kept.                                *)
ApplyGeneralPatches_KeepsDriver ==
  /\ pc = "patch"
  /\ Unpatched
  /\ patched' = TRUE
  /\ extra' = [extra EXCEPT !.appVersion = app, !.imgVersion = StampVersion]
  /\ changed' = TRUE
  /\ pc' = "wrapper"
  /\ UNCHANGED <<app, stamp, image, libs, prefix, config, todo, current, wanted, torn>>

ApplyGeneralPatches ==
  /\ pc = "patch"
  /\ Unpatched
  /\ patched' = TRUE
  /\ extra' = [extra EXCEPT !.appVersion = app, !.imgVersion = StampVersion,
                            !.driver = None]
  /\ changed' = TRUE
  /\ pc' = "wrapper"
  /\ UNCHANGED <<app, stamp, image, libs, prefix, config, todo, current, wanted, torn>>

KeepPatches ==
  /\ pc = "patch"
  /\ ~Unpatched
  /\ pc' = "wrapper"
  /\ UNCHANGED <<app, diskVars, runVars, torn>>

(* extractDXWrapperFiles.                                                   *)
ExtractWrapper ==
  /\ pc = "wrapper"
  /\ wanted.wrapper # extra.wrapper
  /\ prefix' = [prefix EXCEPT ![current] = Broken]
  /\ pc' = "extract wrapper"
  /\ UNCHANGED <<app, stamp, image, patched, libs, config, runVars, torn>>

(* Mutant: the extraction alone is no reason to save.                       *)
WrapperExtracted_Unsaved(outcome) ==
  /\ pc = "extract wrapper"
  /\ outcome \in {wanted.wrapper, Broken}
  /\ prefix' = [prefix EXCEPT ![current] = outcome]
  /\ extra' = [extra EXCEPT !.wrapper = wanted.wrapper]
  /\ torn' = IF outcome = Broken THEN torn \cup {current} ELSE torn \ {current}
  /\ pc' = IF changed THEN "save files" ELSE "driver"
  /\ UNCHANGED <<app, stamp, image, patched, libs, config, todo, current, wanted, changed>>

(* The marker is set whether or not the extraction succeeded.               *)
WrapperExtracted(outcome) ==
  /\ pc = "extract wrapper"
  /\ outcome \in {wanted.wrapper, Broken}
  /\ prefix' = [prefix EXCEPT ![current] = outcome]
  /\ extra' = [extra EXCEPT !.wrapper = wanted.wrapper]
  /\ changed' = TRUE
  /\ torn' = IF outcome = Broken THEN torn \cup {current} ELSE torn \ {current}
  /\ pc' = "save files"
  /\ UNCHANGED <<app, stamp, image, patched, libs, config, todo, current, wanted>>

(* The markers of components, theme and services, which are not modelled,   *)
(* may call for saving too.                                                 *)
KeepWrapper ==
  /\ pc = "wrapper"
  /\ wanted.wrapper = extra.wrapper
  /\ pc' \in {"save files"} \cup (IF changed THEN {} ELSE {"driver"})
  /\ UNCHANGED <<app, diskVars, runVars, torn>>

(* Mutant: the settings themselves are stored for the marker.               *)
DeleteDriver_Settings ==
  /\ pc = "driver"
  /\ wanted.driver # extra.driver
  /\ libs' = None
  /\ extra' = [extra EXCEPT !.driver = wanted]
  /\ pc' = "save driver"
  /\ UNCHANGED <<app, stamp, image, patched, prefix, config, todo, current, wanted,
                 changed, torn>>

(* extractGraphicsDriverFiles: the old libraries are deleted and the marker *)
(* is saved before the new ones are extracted.                              *)
DeleteDriver ==
  /\ pc = "driver"
  /\ wanted.driver # extra.driver
  /\ libs' = None
  /\ extra' = [extra EXCEPT !.driver = wanted.driver]
  /\ pc' = "save driver"
  /\ UNCHANGED <<app, stamp, image, patched, prefix, config, todo, current, wanted,
                 changed, torn>>

DriverExtracted(outcome) ==
  /\ pc = "extract driver"
  /\ outcome \in {wanted.driver, Broken}
  /\ libs' = outcome
  /\ torn' = IF outcome = Broken THEN torn \cup {None} ELSE torn \ {None}
  /\ pc' = "guest"
  /\ UNCHANGED <<app, stamp, image, patched, prefix, config, runVars>>

KeepDriver ==
  /\ pc = "driver"
  /\ wanted.driver = extra.driver
  /\ pc' = "guest"
  /\ UNCHANGED <<app, diskVars, runVars, torn>>

-----------------------------------------------------------------------------
(* The guest has ended or the user has left: restartApplication.            *)
Exit ==
  /\ pc = "guest"
  /\ pc' = "dead"
  /\ UNCHANGED <<app, diskVars, runVars, torn>>

(* From where on a kill leaves files that no marker tells of.               *)
WrapperOpen == pc \in {"extract wrapper", "save files"}
DriverOpen == pc \in {"save driver", "write driver", "extract driver"}

(* The process is killed.  An image whose clearing was not finished is      *)
(* cleared again; a driver whose extraction was not, is not extracted again.*)
Killed ==
  /\ pc # "dead"
  /\ pc' = "dead"
  /\ torn' = torn \cup (IF WrapperOpen THEN {current} ELSE {})
                  \cup (IF DriverOpen THEN {None} ELSE {})
  /\ UNCHANGED <<app, diskVars, runVars>>

(* An update of the application is installed.                               *)
Upgrade ==
  /\ pc = "dead"
  /\ app < MaxVersion
  /\ app' = app + 1
  /\ UNCHANGED <<diskVars, pc, runVars, torn>>

Install ==
  \/ InstallIfNeeded \/ ClearStamp \/ ClearFiles
  \/ \E outcome \in {app, Broken} : ExtractImage(outcome)
  \/ CreateStamp
  \/ \E content \in {app, Broken} : WriteStamp(content)
  \/ \E c \in Containers : ResetContainer(c)
  \/ ResetDone

Start ==
  \/ \E c \in Containers, s \in Settings : Launch(c, s)
  \/ ApplyGeneralPatches \/ KeepPatches
  \/ ExtractWrapper \/ KeepWrapper
  \/ \E outcome \in Wrappers \cup {Broken} : WrapperExtracted(outcome)
  \/ DeleteDriver \/ KeepDriver
  \/ \E outcome \in Drivers \cup {Broken} : DriverExtracted(outcome)
  \/ SaveBegins
  \/ \E content \in {extra, Broken} : SaveEnds(content)
  \/ Exit

Next == Install \/ Start \/ Killed \/ Upgrade

Spec == Init /\ [][Next]_vars

-----------------------------------------------------------------------------
TypeOK ==
  /\ app \in Versions
  /\ stamp \in Versions \cup {None, Broken}
  /\ image \in Versions \cup {None, Broken}
  /\ patched \in BOOLEAN
  /\ libs \in Drivers \cup {None, Broken}
  /\ prefix \in [Containers -> Wrappers \cup {None, Broken}]
  /\ config \in [Containers -> Markers \cup {Broken}]
  /\ pc \in {"dead", "clear", "stamp", "write stamp", "reset", "reset save", "main",
             "patch", "wrapper", "extract wrapper", "save files", "write files",
             "driver", "save driver", "write driver", "extract driver", "guest"}
  /\ todo \subseteq Containers
  /\ current \in Containers \cup {None}
  /\ wanted \in Settings \cup {None}
  /\ extra \in Markers
  /\ changed \in BOOLEAN
  /\ torn \subseteq Containers \cup {None}

(* Wherever the process was killed, an image that is taken for the latest    *)
(* version is completely extracted.                                         *)
ImageWhole == stamp = app => image = app

(* A guest never runs on a freshly installed image before the patches of    *)
(* this application have been applied to it, even if the containers were    *)
(* not all reset after the installation.                                    *)
GuestOnPatchedImage == pc = "guest" /\ stamp = app => patched

(* A guest finds the DLLs of the wrapper it is started with, unless an       *)
(* extraction into its prefix failed or was cut short.                      *)
WrapperMatches ==
  pc = "guest" /\ current \notin torn => prefix[current] = wanted.wrapper

(* A guest finds the libraries of its graphics driver, unless the last       *)
(* extraction failed or was cut short, or the markers of the containers,     *)
(* which share the libraries, name different drivers.                       *)
DriverMatches ==
  /\ pc = "guest"
  /\ stamp = app
  /\ None \notin torn
  /\ \A c \in Containers : config[c] # Broken /\ config[c].driver \in {None, wanted.driver}
  => libs = wanted.driver

=============================================================================
