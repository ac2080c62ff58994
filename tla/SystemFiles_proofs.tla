------------------------- MODULE SystemFiles_proofs -------------------------
(***************************************************************************)
(* What SystemFiles promises for every number of containers, drivers,       *)
(* wrappers and updates.                                                    *)
(*                                                                         *)
(* The three safety properties need the state of the files at every moment  *)
(* a kill may leave behind: Stamped says what the stamp tells of the image, *)
(* Patched what a container's imgVersion tells of the patches, and Wrapped  *)
(* what its wrapper marker tells of the prefix.                             *)
(***************************************************************************)
EXTENDS SystemFiles, TLAPS

(* Where a container is being started: from when on its wrapper is there,   *)
(* and everywhere.                                                          *)
WrapperDone == {"save files", "write files", "driver", "save driver",
                "write driver", "extract driver", "guest"}
Started == {"patch", "wrapper", "extract wrapper"} \cup WrapperDone

(* What the process knows of the container it works on, and of those it is   *)
(* going to work on.                                                        *)
CurrentKnown ==
  /\ pc \in Started \cup {"reset save"} => current \in Containers
  /\ pc \in Started => wanted \in Settings /\ stamp # Broken
  /\ pc \in {"reset", "reset save"} => todo \subseteq Intact
  /\ pc = "reset save" => current \notin todo

(* No version on disk is newer than the application, the stamp is written    *)
(* after the extraction, and nothing is cleared while the stamp is valid.   *)
Stamped ==
  /\ stamp \in Versions => stamp <= app
  /\ pc \in {"clear", "stamp", "write stamp"} => stamp # app
  /\ pc \in {"stamp", "write stamp"} => image = app
  /\ ImageWhole

(* A container that was prepared for the latest image bears witness that the *)
(* image on disk is the latest and has been patched.                        *)
Witness(marker) ==
  marker \in Versions => marker <= app /\ (marker = app => stamp = app /\ patched)

Patched ==
  /\ \A c \in Intact : Witness(config[c].imgVersion)
  /\ Witness(extra.imgVersion)
  /\ pc \in Started \ {"patch"} /\ stamp = app => patched

(* The marker of the wrapper, if it is set, names what is in the prefix,     *)
(* except between an extraction and the next save.                          *)
Wrapped ==
  /\ \A c \in Intact \ torn :
       config[c].wrapper \in {None, prefix[c]} \/ (c = current /\ WrapperOpen)
  /\ pc \in {"patch", "wrapper", "reset save"} /\ current \notin torn
       => extra.wrapper \in {None, prefix[current]}
  /\ pc \in WrapperDone => extra.wrapper = wanted.wrapper
  /\ pc \in WrapperDone /\ current \notin torn => prefix[current] = wanted.wrapper

Typed == TypeOK /\ CurrentKnown

IInv == Typed /\ Stamped /\ Patched /\ Wrapped

-----------------------------------------------------------------------------
LEMMA Fresh == {None, Broken} \cap Versions = {} /\ None # Broken
  BY FilesAssumption

LEMMA InitInv == Init => IInv
<1> SUFFICES ASSUME Init PROVE IInv
  OBVIOUS
<1>1. NoMarkers \in Markers
  BY DEF NoMarkers, Markers
<1>2. 1 \in Versions /\ app = 1
  BY FilesAssumption DEF Init, Versions
<1>3. Typed
  BY <1>1, <1>2 DEF Init, Typed, TypeOK, CurrentKnown, Started, WrapperDone
<1>4. Stamped
  BY Fresh, <1>2 DEF Init, Stamped, ImageWhole
<1>5. Patched
  BY Fresh DEF Init, Patched, Witness, NoMarkers, Intact, Started, WrapperDone
<1>6. Wrapped
  BY DEF Init, Wrapped, NoMarkers, Intact, WrapperDone
<1> QED
  BY <1>3, <1>4, <1>5, <1>6 DEF IInv

(* Every step keeps the types. *)
LEMMA TypedKept ==
  ASSUME Typed, [Next]_vars
  PROVE  Typed'
<1> USE DEF diskVars, runVars
<1>1. Typed
  OBVIOUS
<1>2. CASE InstallIfNeeded
  BY <1>2, FilesAssumption
  DEF InstallIfNeeded, Typed, TypeOK, CurrentKnown, Intact, Started, WrapperDone
<1>3. CASE ClearStamp
  BY <1>3, FilesAssumption
  DEF ClearStamp, Typed, TypeOK, CurrentKnown, Intact, Started, WrapperDone
<1>4. CASE ClearFiles
  BY <1>4, FilesAssumption
  DEF ClearFiles, Typed, TypeOK, CurrentKnown, Intact, Started, WrapperDone
<1>5. ASSUME NEW outcome \in {app, Broken}, ExtractImage(outcome)
      PROVE  Typed'
  BY <1>5, FilesAssumption
  DEF ExtractImage, Typed, TypeOK, CurrentKnown, Intact, Started, WrapperDone
<1>6. CASE CreateStamp
  BY <1>6, FilesAssumption
  DEF CreateStamp, Typed, TypeOK, CurrentKnown, Intact, Started, WrapperDone
<1>7. ASSUME NEW content \in {app, Broken}, WriteStamp(content)
      PROVE  Typed'
  BY <1>7, FilesAssumption
  DEF WriteStamp, Loadable, Typed, TypeOK, CurrentKnown, Intact, Started,
      WrapperDone
<1>8. ASSUME NEW c \in Containers, ResetContainer(c)
      PROVE  Typed'
  <2>1. c \in Intact /\ config[c] \in Markers
    BY <1>1, <1>8 DEF ResetContainer, Typed, TypeOK, CurrentKnown, Intact
  <2>2. extra' \in Markers
    BY <1>1, <1>8, <2>1 DEF ResetContainer, Markers, Typed, TypeOK
  <2>3. config' \in [Containers -> Markers \cup {Broken}]
    BY <1>1, <1>8 DEF ResetContainer, Typed, TypeOK
  <2> QED
    BY <1>1, <1>8, <2>1, <2>2, <2>3
    DEF ResetContainer, Typed, TypeOK, CurrentKnown, Intact, Started, WrapperDone
<1>9. CASE ResetDone
  BY <1>9, FilesAssumption
  DEF ResetDone, Typed, TypeOK, CurrentKnown, Intact, Started, WrapperDone
<1>10. ASSUME NEW c \in Containers, NEW s \in Settings, Launch(c, s)
      PROVE  Typed'
  BY <1>10, FilesAssumption
  DEF Launch, Loadable, Typed, TypeOK, CurrentKnown, Intact, Started, WrapperDone
<1>11. CASE ApplyGeneralPatches
  <2>1. StampVersion \in Versions \cup {0}
    BY <1>1, <1>11
    DEF ApplyGeneralPatches, StampVersion, Typed, TypeOK, CurrentKnown, Started
  <2>2. extra' \in Markers
    BY <1>1, <1>11, <2>1 DEF ApplyGeneralPatches, Markers, Typed, TypeOK
  <2> QED
    BY <1>1, <1>11, <2>2
    DEF ApplyGeneralPatches, Typed, TypeOK, CurrentKnown, Intact, Started, WrapperDone
<1>12. CASE KeepPatches
  BY <1>12, FilesAssumption
  DEF KeepPatches, Typed, TypeOK, CurrentKnown, Intact, Started, WrapperDone
<1>13. CASE ExtractWrapper
  BY <1>13, FilesAssumption
  DEF ExtractWrapper, Typed, TypeOK, CurrentKnown, Intact, Started, WrapperDone
<1>14. CASE KeepWrapper
  BY <1>14, FilesAssumption
  DEF KeepWrapper, Typed, TypeOK, CurrentKnown, Intact, Started, WrapperDone
<1>15. ASSUME NEW outcome \in Wrappers \cup {Broken}, WrapperExtracted(outcome)
      PROVE  Typed'
  BY <1>15, FilesAssumption
  DEF WrapperExtracted, Markers, Settings, Typed, TypeOK, CurrentKnown, Intact,
      Started, WrapperDone
<1>16. CASE DeleteDriver
  BY <1>16, FilesAssumption
  DEF DeleteDriver, Markers, Settings, Typed, TypeOK, CurrentKnown, Intact,
      Started, WrapperDone
<1>17. CASE KeepDriver
  BY <1>17, FilesAssumption
  DEF KeepDriver, Typed, TypeOK, CurrentKnown, Intact, Started, WrapperDone
<1>18. ASSUME NEW outcome \in Drivers \cup {Broken}, DriverExtracted(outcome)
      PROVE  Typed'
  BY <1>18, FilesAssumption
  DEF DriverExtracted, Typed, TypeOK, CurrentKnown, Intact, Started, WrapperDone
<1>19. CASE SaveBegins
  BY <1>19, FilesAssumption
  DEF SaveBegins, Typed, TypeOK, CurrentKnown, Intact, Started, WrapperDone
<1>20. ASSUME NEW content \in {extra, Broken}, SaveEnds(content)
      PROVE  Typed'
  BY <1>20, FilesAssumption
  DEF SaveEnds, Typed, TypeOK, CurrentKnown, Intact, Started, WrapperDone
<1>21. CASE Exit
  BY <1>21, FilesAssumption
  DEF Exit, Typed, TypeOK, CurrentKnown, Intact, Started, WrapperDone
<1>22. CASE Killed
  BY <1>22, FilesAssumption
  DEF Killed, Typed, TypeOK, CurrentKnown, Intact, Started, WrapperDone
<1>23. CASE Upgrade
  BY <1>23, FilesAssumption
  DEF Upgrade, Versions, Typed, TypeOK, CurrentKnown, Intact, Started, WrapperDone
<1>24. CASE UNCHANGED vars
  <2>1. TypeOK'
    BY <1>1, <1>24 DEF vars, Typed, TypeOK
  <2>2. CurrentKnown'
    BY <1>1, <1>24 DEF vars, Typed, CurrentKnown, Intact
  <2> QED
    BY <2>1, <2>2 DEF Typed
<1>25. QED
  BY <1>1, <1>2, <1>3, <1>4, <1>5, <1>6, <1>7, <1>8, <1>9, <1>10, <1>11, <1>12,
     <1>13, <1>14, <1>15, <1>16, <1>17, <1>18, <1>19, <1>20, <1>21, <1>22, <1>23, <1>24
  DEF Next, Install, Start

(* Every step keeps what the stamp tells. *)
LEMMA StampedKept ==
  ASSUME Typed, Typed', Stamped, [Next]_vars
  PROVE  Stamped'
<1> USE DEF diskVars, runVars
<1>1. Typed
  OBVIOUS
<1>2. CASE InstallIfNeeded
  BY <1>2, FilesAssumption
  DEF InstallIfNeeded, StampVersion, Typed, TypeOK, Stamped, ImageWhole, Versions
<1>3. CASE ClearStamp
  BY <1>3, FilesAssumption DEF ClearStamp, Typed, TypeOK, Stamped, ImageWhole, Versions
<1>4. CASE ClearFiles
  BY <1>4, FilesAssumption DEF ClearFiles, Typed, TypeOK, Stamped, ImageWhole, Versions
<1>5. ASSUME NEW outcome \in {app, Broken}, ExtractImage(outcome)
      PROVE  Stamped'
  BY <1>5, FilesAssumption
  DEF ExtractImage, Typed, TypeOK, Stamped, ImageWhole, Versions
<1>6. CASE CreateStamp
  BY <1>6, FilesAssumption DEF CreateStamp, Typed, TypeOK, Stamped, ImageWhole, Versions
<1>7. ASSUME NEW content \in {app, Broken}, WriteStamp(content)
      PROVE  Stamped'
  <2>1. stamp' \in {app, Broken} /\ app' = app /\ image' = app /\ pc' = "reset"
    BY <1>7 DEF WriteStamp, Stamped
  <2>2. app \in Versions /\ app <= app
    <3>1. app \in Versions
      BY <1>1 DEF Typed, TypeOK
    <3> QED
      BY <3>1, FilesAssumption DEF Versions
  <2> QED
    BY <2>1, <2>2, Fresh DEF Stamped, ImageWhole
<1>8. ASSUME NEW c \in Containers, ResetContainer(c)
      PROVE  Stamped'
  BY <1>8, FilesAssumption
  DEF ResetContainer, Typed, TypeOK, Stamped, ImageWhole, Versions
<1>9. CASE ResetDone
  BY <1>9, FilesAssumption DEF ResetDone, Typed, TypeOK, Stamped, ImageWhole, Versions
<1>10. ASSUME NEW c \in Containers, NEW s \in Settings, Launch(c, s)
      PROVE  Stamped'
  BY <1>10, FilesAssumption DEF Launch, Typed, TypeOK, Stamped, ImageWhole, Versions
<1>11. CASE ApplyGeneralPatches
  BY <1>11, FilesAssumption
  DEF ApplyGeneralPatches, Typed, TypeOK, Stamped, ImageWhole, Versions
<1>12. CASE KeepPatches
  BY <1>12, FilesAssumption
  DEF KeepPatches, Typed, TypeOK, Stamped, ImageWhole, Versions
<1>13. CASE ExtractWrapper
  BY <1>13, FilesAssumption
  DEF ExtractWrapper, Typed, TypeOK, Stamped, ImageWhole, Versions
<1>14. CASE KeepWrapper
  BY <1>14, FilesAssumption
  DEF KeepWrapper, Typed, TypeOK, Stamped, ImageWhole, Versions
<1>15. ASSUME NEW outcome \in Wrappers \cup {Broken}, WrapperExtracted(outcome)
      PROVE  Stamped'
  BY <1>15, FilesAssumption
  DEF WrapperExtracted, Typed, TypeOK, Stamped, ImageWhole, Versions
<1>16. CASE DeleteDriver
  BY <1>16, FilesAssumption
  DEF DeleteDriver, Typed, TypeOK, Stamped, ImageWhole, Versions
<1>17. CASE KeepDriver
  BY <1>17, FilesAssumption DEF KeepDriver, Typed, TypeOK, Stamped, ImageWhole, Versions
<1>18. ASSUME NEW outcome \in Drivers \cup {Broken}, DriverExtracted(outcome)
      PROVE  Stamped'
  BY <1>18, FilesAssumption
  DEF DriverExtracted, Typed, TypeOK, Stamped, ImageWhole, Versions
<1>19. CASE SaveBegins
  BY <1>19, FilesAssumption DEF SaveBegins, Typed, TypeOK, Stamped, ImageWhole, Versions
<1>20. ASSUME NEW content \in {extra, Broken}, SaveEnds(content)
      PROVE  Stamped'
  BY <1>20, FilesAssumption DEF SaveEnds, Typed, TypeOK, Stamped, ImageWhole, Versions
<1>21. CASE Exit
  BY <1>21, FilesAssumption DEF Exit, Typed, TypeOK, Stamped, ImageWhole, Versions
<1>22. CASE Killed
  BY <1>22, FilesAssumption DEF Killed, Typed, TypeOK, Stamped, ImageWhole, Versions
<1>23. CASE Upgrade
  BY <1>23, FilesAssumption DEF Upgrade, Typed, TypeOK, Stamped, ImageWhole, Versions
<1>24. CASE UNCHANGED vars
  BY <1>24, FilesAssumption
  DEF vars, diskVars, runVars, Typed, TypeOK, Stamped, ImageWhole, Versions
<1>25. QED
  BY <1>1, <1>2, <1>3, <1>4, <1>5, <1>6, <1>7, <1>8, <1>9, <1>10, <1>11, <1>12,
     <1>13, <1>14, <1>15, <1>16, <1>17, <1>18, <1>19, <1>20, <1>21, <1>22, <1>23, <1>24
  DEF Next, Install, Start

(* Every step keeps what imgVersion tells. *)
LEMMA PatchedKept ==
  ASSUME Typed, Typed', Stamped, Patched, [Next]_vars
  PROVE  Patched'
<1> USE DEF diskVars, runVars
<1>1. Typed
  OBVIOUS
<1>2. CASE InstallIfNeeded
  BY <1>2, FilesAssumption
  DEF InstallIfNeeded, Typed, TypeOK, CurrentKnown, Started, WrapperDone, Markers,
      Versions, Stamped, Patched, Witness, Intact
<1>3. CASE ClearStamp
  BY <1>3, FilesAssumption
  DEF ClearStamp, Typed, TypeOK, CurrentKnown, Started, WrapperDone, Markers,
      Versions, Stamped, Patched, Witness, Intact
<1>4. CASE ClearFiles
  BY <1>4, FilesAssumption
  DEF ClearFiles, Typed, TypeOK, CurrentKnown, Started, WrapperDone, Markers,
      Versions, Stamped, Patched, Witness, Intact
<1>5. ASSUME NEW outcome \in {app, Broken}, ExtractImage(outcome)
      PROVE  Patched'
  BY <1>5, FilesAssumption
  DEF ExtractImage, Typed, TypeOK, CurrentKnown, Started, WrapperDone, Markers,
      Versions, Stamped, Patched, Witness, Intact
<1>6. CASE CreateStamp
  BY <1>6, FilesAssumption
  DEF CreateStamp, Typed, TypeOK, CurrentKnown, Started, WrapperDone, Markers,
      Versions, Stamped, Patched, Witness, Intact
<1>7. ASSUME NEW content \in {app, Broken}, WriteStamp(content)
      PROVE  Patched'
  BY <1>7, FilesAssumption
  DEF WriteStamp, Typed, TypeOK, CurrentKnown, Started, WrapperDone, Markers,
      Versions, Stamped, Patched, Witness, Intact
<1>8. ASSUME NEW c \in Containers, ResetContainer(c)
      PROVE  Patched'
  <2>1. extra'.imgVersion = None
    BY <1>1, <1>8 DEF ResetContainer, Typed, TypeOK, CurrentKnown, Intact, Markers
  <2>2. Witness(extra.imgVersion)'
    BY <2>1, Fresh, <1>8 DEF ResetContainer, Witness, Versions
  <2>3. (\A d \in Intact : Witness(config[d].imgVersion))'
    BY <1>1, <1>8 DEF ResetContainer, Typed, TypeOK, Patched, Witness, Intact
  <2> QED
    BY <1>8, <2>2, <2>3 DEF ResetContainer, Patched, Started, WrapperDone
<1>9. CASE ResetDone
  BY <1>9, FilesAssumption
  DEF ResetDone, Typed, TypeOK, CurrentKnown, Started, WrapperDone, Markers,
      Versions, Stamped, Patched, Witness, Intact
<1>10. ASSUME NEW c \in Containers, NEW s \in Settings, Launch(c, s)
      PROVE  Patched'
  BY <1>10, FilesAssumption
  DEF Launch, Loadable, Typed, TypeOK, CurrentKnown, Started, WrapperDone, Markers,
      Versions, Stamped, Patched, Witness, Intact
<1>11. CASE ApplyGeneralPatches
  BY <1>11, FilesAssumption
  DEF ApplyGeneralPatches, StampVersion, Unpatched, Typed, TypeOK, CurrentKnown,
      Started, WrapperDone, Markers, Versions, Stamped, Patched, Witness, Intact
<1>12. CASE KeepPatches
  BY <1>12, FilesAssumption
  DEF KeepPatches, StampVersion, Unpatched, Typed, TypeOK, CurrentKnown, Started,
      WrapperDone, Markers, Versions, Stamped, Patched, Witness, Intact
<1>13. CASE ExtractWrapper
  BY <1>13, FilesAssumption
  DEF ExtractWrapper, Typed, TypeOK, CurrentKnown, Started, WrapperDone, Markers,
      Versions, Stamped, Patched, Witness, Intact
<1>14. CASE KeepWrapper
  BY <1>14, FilesAssumption
  DEF KeepWrapper, Typed, TypeOK, CurrentKnown, Started, WrapperDone, Markers,
      Versions, Stamped, Patched, Witness, Intact
<1>15. ASSUME NEW outcome \in Wrappers \cup {Broken}, WrapperExtracted(outcome)
      PROVE  Patched'
  BY <1>15, FilesAssumption
  DEF WrapperExtracted, Typed, TypeOK, CurrentKnown, Started, WrapperDone, Markers,
      Versions, Stamped, Patched, Witness, Intact
<1>16. CASE DeleteDriver
  BY <1>16, FilesAssumption
  DEF DeleteDriver, Typed, TypeOK, CurrentKnown, Started, WrapperDone, Markers,
      Versions, Stamped, Patched, Witness, Intact
<1>17. CASE KeepDriver
  BY <1>17, FilesAssumption
  DEF KeepDriver, Typed, TypeOK, CurrentKnown, Started, WrapperDone, Markers,
      Versions, Stamped, Patched, Witness, Intact
<1>18. ASSUME NEW outcome \in Drivers \cup {Broken}, DriverExtracted(outcome)
      PROVE  Patched'
  BY <1>18, FilesAssumption
  DEF DriverExtracted, Typed, TypeOK, CurrentKnown, Started, WrapperDone, Markers,
      Versions, Stamped, Patched, Witness, Intact
<1>19. CASE SaveBegins
  <2>1. \A d \in Intact' : d \in Intact /\ config'[d] = config[d]
    BY <1>1, <1>19 DEF SaveBegins, Typed, TypeOK, Intact
  <2> QED
    BY <1>19, <2>1 DEF SaveBegins, Patched, Witness, Started, WrapperDone
<1>20. ASSUME NEW content \in {extra, Broken}, SaveEnds(content)
      PROVE  Patched'
  <2>1. \A d \in Intact' :
          config'[d] = extra \/ (d \in Intact /\ config'[d] = config[d])
    BY <1>1, <1>20 DEF SaveEnds, Typed, TypeOK, Intact
  <2>2. pc' \in Started => pc \in Started \ {"patch"}
    BY <1>20 DEF SaveEnds, Started, WrapperDone
  <2> QED
    BY <1>20, <2>1, <2>2 DEF SaveEnds, Patched, Witness
<1>21. CASE Exit
  BY <1>21, FilesAssumption
  DEF Exit, Typed, TypeOK, CurrentKnown, Started, WrapperDone, Markers, Versions,
      Stamped, Patched, Witness, Intact
<1>22. CASE Killed
  BY <1>22, FilesAssumption
  DEF Killed, Typed, TypeOK, CurrentKnown, Started, WrapperDone, Markers, Versions,
      Stamped, Patched, Witness, Intact
<1>23. CASE Upgrade
  BY <1>23, FilesAssumption
  DEF Upgrade, Typed, TypeOK, CurrentKnown, Started, WrapperDone, Markers,
      Versions, Stamped, Patched, Witness, Intact
<1>24. CASE UNCHANGED vars
  BY <1>24, FilesAssumption
  DEF vars, diskVars, runVars, Typed, TypeOK, CurrentKnown, Started, WrapperDone,
      Markers, Versions, Stamped, Patched, Witness, Intact
<1>25. QED
  BY <1>1, <1>2, <1>3, <1>4, <1>5, <1>6, <1>7, <1>8, <1>9, <1>10, <1>11, <1>12,
     <1>13, <1>14, <1>15, <1>16, <1>17, <1>18, <1>19, <1>20, <1>21, <1>22, <1>23, <1>24
  DEF Next, Install, Start

(* Every step keeps what the wrapper marker tells. *)
LEMMA WrappedKept ==
  ASSUME Typed, Typed', Wrapped, [Next]_vars
  PROVE  Wrapped'
<1> USE DEF diskVars, runVars
<1>1. Typed
  OBVIOUS
<1>2. CASE InstallIfNeeded
  BY <1>2, FilesAssumption
  DEF InstallIfNeeded, Typed, TypeOK, CurrentKnown, Started, WrapperDone, Wrapped,
      Intact, WrapperOpen
<1>3. CASE ClearStamp
  BY <1>3, FilesAssumption
  DEF ClearStamp, Typed, TypeOK, CurrentKnown, Started, WrapperDone, Wrapped,
      Intact, WrapperOpen
<1>4. CASE ClearFiles
  BY <1>4, FilesAssumption
  DEF ClearFiles, Typed, TypeOK, CurrentKnown, Started, WrapperDone, Wrapped,
      Intact, WrapperOpen
<1>5. ASSUME NEW outcome \in {app, Broken}, ExtractImage(outcome)
      PROVE  Wrapped'
  BY <1>5, FilesAssumption
  DEF ExtractImage, Typed, TypeOK, CurrentKnown, Started, WrapperDone, Wrapped,
      Intact, WrapperOpen
<1>6. CASE CreateStamp
  BY <1>6, FilesAssumption
  DEF CreateStamp, Typed, TypeOK, CurrentKnown, Started, WrapperDone, Wrapped,
      Intact, WrapperOpen
<1>7. ASSUME NEW content \in {app, Broken}, WriteStamp(content)
      PROVE  Wrapped'
  BY <1>7, FilesAssumption
  DEF WriteStamp, Typed, TypeOK, CurrentKnown, Started, WrapperDone, Wrapped,
      Intact, WrapperOpen
<1>8. ASSUME NEW c \in Containers, ResetContainer(c)
      PROVE  Wrapped'
  <2>1. c \in Intact /\ pc = "reset" /\ pc' = "reset save" /\ current' = c
    BY <1>1, <1>8 DEF ResetContainer, Typed, CurrentKnown
  <2>2. extra'.wrapper = config[c].wrapper
    BY <1>1, <1>8, <2>1 DEF ResetContainer, Typed, TypeOK, Intact, Markers
  <2>3. \A d \in Intact' : d \in Intact /\ config'[d] = config[d]
    BY <1>1, <1>8 DEF ResetContainer, Typed, TypeOK, Intact
  <2> QED
    BY <1>8, <2>1, <2>2, <2>3 DEF ResetContainer, Wrapped, WrapperOpen, WrapperDone
<1>9. CASE ResetDone
  BY <1>9, FilesAssumption
  DEF ResetDone, Typed, TypeOK, CurrentKnown, Started, WrapperDone, Wrapped,
      Intact, WrapperOpen
<1>10. ASSUME NEW c \in Containers, NEW s \in Settings, Launch(c, s)
      PROVE  Wrapped'
  BY <1>10, FilesAssumption
  DEF Launch, Loadable, Typed, TypeOK, CurrentKnown, Started, WrapperDone, Wrapped,
      Intact, WrapperOpen
<1>11. CASE ApplyGeneralPatches
  BY <1>11, FilesAssumption
  DEF ApplyGeneralPatches, Typed, TypeOK, CurrentKnown, Started, WrapperDone,
      Wrapped, Intact, WrapperOpen
<1>12. CASE KeepPatches
  BY <1>12, FilesAssumption
  DEF KeepPatches, Typed, TypeOK, CurrentKnown, Started, WrapperDone, Wrapped,
      Intact, WrapperOpen
<1>13. CASE ExtractWrapper
  <2>1. \A d \in Containers \ {current} : prefix'[d] = prefix[d]
    BY <1>1, <1>13 DEF ExtractWrapper, Typed, TypeOK
  <2> QED
    BY <1>13, <2>1 DEF ExtractWrapper, Wrapped, WrapperOpen, WrapperDone, Intact
<1>14. CASE KeepWrapper
  <2>1. pc = "wrapper" /\ pc' \in {"save files", "driver"} /\ wanted \in Settings
    BY <1>1, <1>14 DEF KeepWrapper, Typed, CurrentKnown, Started
  <2>2. wanted.wrapper # None
    BY <2>1, FilesAssumption DEF Settings
  <2> QED
    BY <1>14, <2>1, <2>2 DEF KeepWrapper, Wrapped, WrapperOpen, WrapperDone, Intact
<1>15. ASSUME NEW outcome \in Wrappers \cup {Broken}, WrapperExtracted(outcome)
      PROVE  Wrapped'
  <2>1. pc' = "save files" /\ current' = current /\ current \in Containers
    BY <1>1, <1>15 DEF WrapperExtracted, Typed, CurrentKnown, Started
  <2>2. \A d \in Containers \ {current} :
          prefix'[d] = prefix[d] /\ (d \in torn' <=> d \in torn)
    BY <1>1, <1>15 DEF WrapperExtracted, Typed, TypeOK
  <2>3. extra'.wrapper = wanted.wrapper
    BY <1>1, <1>15 DEF WrapperExtracted, Typed, TypeOK, Markers
  <2>4. current \notin torn' => prefix'[current] = wanted.wrapper
    BY <1>1, <1>15, <2>1 DEF WrapperExtracted, Typed, TypeOK
  <2> QED
    BY <1>15, <2>1, <2>2, <2>3, <2>4
    DEF WrapperExtracted, Wrapped, WrapperOpen, WrapperDone, Intact
<1>16. CASE DeleteDriver
  <2>1. extra'.wrapper = extra.wrapper
    BY <1>1, <1>16 DEF DeleteDriver, Typed, TypeOK, Markers
  <2> QED
    BY <1>16, <2>1 DEF DeleteDriver, Wrapped, WrapperOpen, WrapperDone, Intact
<1>17. CASE KeepDriver
  BY <1>17, FilesAssumption
  DEF KeepDriver, Typed, TypeOK, CurrentKnown, Started, WrapperDone, Wrapped,
      Intact, WrapperOpen
<1>18. ASSUME NEW outcome \in Drivers \cup {Broken}, DriverExtracted(outcome)
      PROVE  Wrapped'
  BY <1>18, FilesAssumption
  DEF DriverExtracted, Typed, TypeOK, CurrentKnown, Started, WrapperDone, Wrapped,
      Intact, WrapperOpen
<1>19. CASE SaveBegins
  BY <1>19, FilesAssumption
  DEF SaveBegins, Typed, TypeOK, CurrentKnown, Started, WrapperDone, Wrapped,
      Intact, WrapperOpen
<1>20. ASSUME NEW content \in {extra, Broken}, SaveEnds(content)
      PROVE  Wrapped'
  <2>1. \A d \in Intact' :
          \/ d = current /\ config'[d] = extra
          \/ d \in Intact /\ config'[d] = config[d] /\ d # current
    BY <1>1, <1>20
    DEF SaveEnds, Typed, TypeOK, CurrentKnown, Started, WrapperDone, Intact
  <2>2. current \notin torn => extra.wrapper \in {None, prefix[current]}
    BY <1>20 DEF SaveEnds, Wrapped, WrapperDone
  <2> QED
    BY <1>20, <2>1, <2>2 DEF SaveEnds, Wrapped, WrapperOpen, WrapperDone
<1>21. CASE Exit
  BY <1>21, FilesAssumption
  DEF Exit, Typed, TypeOK, CurrentKnown, Started, WrapperDone, Wrapped, Intact,
      WrapperOpen
<1>22. CASE Killed
  BY <1>22, FilesAssumption
  DEF Killed, DriverOpen, Typed, TypeOK, CurrentKnown, Started, WrapperDone,
      Wrapped, Intact, WrapperOpen
<1>23. CASE Upgrade
  BY <1>23, FilesAssumption
  DEF Upgrade, Typed, TypeOK, CurrentKnown, Started, WrapperDone, Wrapped, Intact,
      WrapperOpen
<1>24. CASE UNCHANGED vars
  BY <1>24, FilesAssumption
  DEF vars, diskVars, runVars, Typed, TypeOK, CurrentKnown, Started, WrapperDone,
      Wrapped, Intact, WrapperOpen
<1>25. QED
  BY <1>1, <1>2, <1>3, <1>4, <1>5, <1>6, <1>7, <1>8, <1>9, <1>10, <1>11, <1>12,
     <1>13, <1>14, <1>15, <1>16, <1>17, <1>18, <1>19, <1>20, <1>21, <1>22, <1>23, <1>24
  DEF Next, Install, Start

-----------------------------------------------------------------------------
LEMMA StepInv == IInv /\ [Next]_vars => IInv'
  BY TypedKept, StampedKept, PatchedKept, WrappedKept DEF IInv

LEMMA InvCorrect == Spec => []IInv
  BY InitInv, StepInv, PTL DEF Spec

(* Every variable keeps its type: a configuration file is either whole or    *)
(* recognised as broken.                                                     *)
THEOREM TypeCorrect == Spec => []TypeOK
  BY InvCorrect, PTL DEF IInv, Typed

(* Whenever the process was killed and whatever failed, an image that        *)
(* carries the stamp of the latest version is completely extracted.          *)
THEOREM ImageCorrect == Spec => []ImageWhole
  BY InvCorrect, PTL DEF IInv, Stamped

LEMMA PatchedBeforeGuest == IInv => GuestOnPatchedImage
  BY DEF IInv, Patched, GuestOnPatchedImage, Started, WrapperDone

(* No guest runs on the latest image before the application's patches were   *)
(* applied to it, even if the containers were not all reset.                 *)
THEOREM PatchCorrect == Spec => []GuestOnPatchedImage
  BY InvCorrect, PatchedBeforeGuest, PTL

LEMMA WrapperBeforeGuest == IInv => WrapperMatches
  BY DEF IInv, Wrapped, WrapperMatches, WrapperDone

(* A guest finds the DLLs of the wrapper it is started with, if no           *)
(* extraction into its prefix failed or was cut short.                       *)
THEOREM WrapperCorrect == Spec => []WrapperMatches
  BY InvCorrect, WrapperBeforeGuest, PTL

-----------------------------------------------------------------------------
(* The markers of a container prepared for this application and its image,  *)
(* with a driver.                                                           *)
Valid(m) == m.appVersion = app /\ m.imgVersion = app
Marked(m) == m # Broken /\ Valid(m) /\ m.driver # None

(* What the configuration of a container is going to be if the write in     *)
(* progress succeeds.                                                       *)
OnDisk(c) == IF c = current /\ pc \in {"write files", "reset save"} THEN extra ELSE config[c]

(* The libraries are those of a container that is marked with them, or whose *)
(* configuration was lost, if any is marked.                                *)
Witnessed ==
  /\ stamp = app
  /\ None \notin torn
  /\ ~DriverOpen
  /\ \E c \in Containers : Marked(OnDisk(c))
  => \E x \in Containers :
       OnDisk(x) = Broken \/ (Marked(OnDisk(x)) /\ OnDisk(x).driver = libs)

(* While containers are being reset, none is prepared for the new image.    *)
Unprepared ==
  /\ pc \in {"reset", "reset save"} /\ stamp = app =>
       \A c \in Intact : config[c].imgVersion # app
  /\ pc = "reset save" => extra.imgVersion = None

(* How the markers in memory differ from those on disk while the container  *)
(* is started.                                                              *)
Prepared ==
  stamp = app =>
    /\ pc = "patch" => config[current] # Broken /\ extra = config[current]
    /\ pc \in Started \ {"patch", "guest"} => Valid(extra)
    /\ pc \in {"wrapper", "extract wrapper", "save files"} =>
         /\ config[current] # Broken
         /\ \/ changed /\ extra.driver = None /\ ~Valid(config[current])
            \/ Valid(config[current]) /\ config[current].driver = extra.driver
    /\ pc = "driver" =>
         \/ extra.driver = None
         \/ config[current] = Broken
         \/ Valid(config[current]) /\ config[current].driver = extra.driver
    /\ DriverOpen => extra.driver = wanted.driver
    /\ pc = "extract driver" => config[current] \in {extra, Broken}

(* A configuration that is being written is broken until it is.            *)
Truncated ==
  pc \in {"write files", "write driver", "reset save"} => config[current] = Broken

DriverInv == Truncated /\ Witnessed /\ Unprepared /\ Prepared /\ DriverMatches

(* A step that leaves the markers, the stamp and the libraries alone.       *)
LEMMA WitnessUnchanged ==
  ASSUME Witnessed, UNCHANGED <<app, stamp, libs>>, torn \subseteq torn', DriverOpen => DriverOpen',
         \A c \in Containers : OnDisk(c)' = OnDisk(c)
  PROVE  Witnessed'
  BY DEF Witnessed, Marked, Valid

(* A step after which the image is not the latest, or a driver is being      *)
(* replaced, or no container is marked, or one has lost its configuration.   *)
LEMMA WitnessNotNeeded ==
  ASSUME \/ stamp' # app'
         \/ None \in torn'
         \/ DriverOpen'
         \/ \A c \in Containers : ~Marked(OnDisk(c))'
         \/ \E c \in Containers : OnDisk(c)' = Broken
  PROVE  Witnessed'
  BY DEF Witnessed

LEMMA WitnessKept ==
  ASSUME Typed, Stamped, Patched, Truncated, Unprepared, Prepared, Witnessed, [Next]_vars
  PROVE  Witnessed'
<1> USE DEF diskVars, runVars
<1>1. Typed
  OBVIOUS
<1>2. CASE \/ InstallIfNeeded \/ ResetDone \/ ApplyGeneralPatches \/ KeepPatches
           \/ ExtractWrapper \/ KeepWrapper \/ KeepDriver \/ Exit \/ UNCHANGED vars
           \/ CreateStamp /\ stamp # app
           \/ \E c \in Containers, s \in Settings : Launch(c, s)
  <2>1. (UNCHANGED <<app, config, libs, torn>> /\ ~DriverOpen) \/ UNCHANGED vars
    BY <1>2
    DEF DriverOpen, InstallIfNeeded, ResetDone, ApplyGeneralPatches, KeepPatches,
        ExtractWrapper, KeepWrapper, KeepDriver, Exit, Launch, CreateStamp, vars
  <2>2. UNCHANGED stamp \/ stamp' # app'
    BY <1>2, Fresh, <1>1
    DEF InstallIfNeeded, ResetDone, ApplyGeneralPatches, KeepPatches, ExtractWrapper,
        KeepWrapper, KeepDriver, Exit, Launch, CreateStamp, vars, Typed, TypeOK
  <2>3. /\ pc \notin {"write files", "reset save"} /\ pc' \notin {"write files", "reset save"}
        \/ UNCHANGED <<pc, current, extra, config>>
    BY <1>2
    DEF InstallIfNeeded, ResetDone, ApplyGeneralPatches, KeepPatches, ExtractWrapper,
        KeepWrapper, KeepDriver, Exit, Launch, CreateStamp, vars
  <2>4. \A c \in Containers : OnDisk(c)' = OnDisk(c)
    BY <2>1, <2>3 DEF OnDisk, vars
  <2>5. UNCHANGED <<app, libs>> /\ torn \subseteq torn' /\ (DriverOpen => DriverOpen')
    BY <2>1 DEF vars, DriverOpen
  <2> QED
    BY <2>2, <2>4, <2>5, WitnessUnchanged, WitnessNotNeeded
<1>3. CASE \/ ClearStamp \/ ClearFiles
           \/ \E outcome \in {app, Broken} : ExtractImage(outcome)
           \/ CreateStamp
  <2>1. stamp' # app'
    BY <1>1, <1>3, Fresh
    DEF ClearStamp, ClearFiles, ExtractImage, CreateStamp, Stamped, Typed, TypeOK
  <2> QED
    BY <2>1, WitnessNotNeeded
<1>4. ASSUME NEW content \in {app, Broken}, WriteStamp(content) PROVE Witnessed'
  <2>1. UNCHANGED <<app, config>> /\ stamp # app /\ pc' = "reset"
    BY <1>4 DEF WriteStamp, Stamped
  <2>2. \A c \in Intact : config[c].imgVersion # app
    BY <1>1, <2>1 DEF Patched, Witness, Typed, TypeOK
  <2>3. \A c \in Containers : ~Marked(OnDisk(c))'
    BY <2>1, <2>2 DEF Marked, Valid, OnDisk, Intact
  <2> QED
    BY <2>3, WitnessNotNeeded
<1>5. ASSUME NEW c \in Containers, ResetContainer(c) PROVE Witnessed'
  <2>1. CASE stamp # app
    BY <1>5, <2>1, WitnessNotNeeded DEF ResetContainer
  <2>2. CASE stamp = app
    <3>1. c \in Intact /\ config[c] \in Markers /\ extra' = [config[c] EXCEPT !.imgVersion = None]
      BY <1>1, <1>5 DEF ResetContainer, Typed, TypeOK, CurrentKnown, Intact
    <3>2. extra'.imgVersion = None /\ app' = app /\ app \in Versions
      BY <1>1, <1>5, <3>1 DEF Markers, Typed, TypeOK, ResetContainer
    <3>3. \A d \in Containers \ {c} : OnDisk(d)' = config[d]
      BY <1>1, <1>5 DEF ResetContainer, OnDisk, Typed, TypeOK
    <3>4. OnDisk(c)' = extra'
      BY <1>5 DEF ResetContainer, OnDisk
    <3>5. \A d \in Intact : config[d].imgVersion # app
      BY <1>5, <2>2 DEF ResetContainer, Unprepared
    <3>6. \A d \in Containers : ~Marked(OnDisk(d))'
      BY <3>2, <3>3, <3>4, <3>5, Fresh DEF Marked, Valid, Intact
    <3> QED
      BY <3>6, WitnessNotNeeded
  <2> QED
    BY <2>1, <2>2
<1>6. ASSUME NEW outcome \in Wrappers \cup {Broken}, WrapperExtracted(outcome)
      PROVE  Witnessed'
  <2>1. UNCHANGED <<app, stamp, libs, config>> /\ ~DriverOpen /\ current \in Containers
        /\ pc = "extract wrapper" /\ pc' = "save files"
    BY <1>1, <1>6 DEF WrapperExtracted, DriverOpen, Typed, CurrentKnown, Started
  <2>2. None \in torn => None \in torn'
    BY <1>6, <2>1, FilesAssumption DEF WrapperExtracted
  <2>3. \A c \in Containers : OnDisk(c)' = OnDisk(c)
    BY <2>1 DEF OnDisk
  <2> QED
    BY <2>1, <2>2, <2>3 DEF Witnessed, Marked, Valid
<1>7. CASE DeleteDriver
  <2>1. DriverOpen'
    BY <1>7 DEF DeleteDriver, DriverOpen
  <2> QED
    BY <2>1, WitnessNotNeeded
<1>8. ASSUME NEW outcome \in Drivers \cup {Broken}, DriverExtracted(outcome)
      PROVE  Witnessed'
  <2>1. CASE stamp # app \/ outcome = Broken
    BY <1>8, <2>1, WitnessNotNeeded DEF DriverExtracted
  <2>2. CASE stamp = app /\ outcome # Broken
    <3>1. /\ pc = "extract driver" /\ pc' = "guest" /\ libs' = wanted.driver
          /\ UNCHANGED <<app, stamp, config, current, extra>>
      BY <1>8, <2>2 DEF DriverExtracted
    <3>2. current \in Containers /\ wanted.driver \in Drivers
      BY <1>1, <3>1 DEF Typed, CurrentKnown, Started, WrapperDone, Settings
    <3>3. /\ Valid(extra) /\ extra.driver = wanted.driver
          /\ config[current] \in {extra, Broken}
      BY <2>2, <3>1 DEF Prepared, Started, WrapperDone, DriverOpen
    <3>4. wanted.driver # None
      BY <3>2, FilesAssumption
    <3>5. OnDisk(current)' = config[current]
      BY <3>1 DEF OnDisk
    <3>6. CASE config[current] = Broken
      <4>1. PICK x \in Containers : x = current
        BY <3>2
      <4>2. OnDisk(x)' = Broken
        BY <3>1, <3>6, <4>1 DEF OnDisk
      <4> QED
        BY <4>2, WitnessNotNeeded
    <3>7. CASE config[current] # Broken
      <4>1. Marked(OnDisk(current))' /\ OnDisk(current)'.driver = libs'
        BY <3>1, <3>3, <3>4, <3>5, <3>7 DEF Marked, Valid
      <4> QED
        BY <3>1, <3>2, <4>1 DEF Witnessed
    <3> QED
      BY <3>6, <3>7
  <2> QED
    BY <2>1, <2>2
<1>9. CASE SaveBegins
  <2>1. CASE stamp # app \/ pc = "save driver"
    <3>1. stamp' # app' \/ DriverOpen'
      BY <1>9, <2>1 DEF SaveBegins, DriverOpen
    <3> QED
      BY <3>1, WitnessNotNeeded
  <2>2. CASE stamp = app /\ pc = "save files"
    <3>1. /\ UNCHANGED <<app, stamp, libs, torn, current, extra>> /\ ~DriverOpen
          /\ pc' = "write files" /\ config' = [config EXCEPT ![current] = Broken]
          /\ current \in Containers
      BY <1>1, <1>9, <2>2
      DEF SaveBegins, DriverOpen, Typed, CurrentKnown, Started, WrapperDone
    <3>2. \A c \in Containers \ {current} : OnDisk(c)' = OnDisk(c) /\ OnDisk(c) = config[c]
      BY <1>1, <2>2, <3>1 DEF OnDisk, Typed, TypeOK
    <3>3. OnDisk(current)' = extra /\ OnDisk(current) = config[current]
      BY <2>2, <3>1 DEF OnDisk
    <3>4. /\ Valid(extra) /\ config[current] # Broken
          /\ \/ extra.driver = None /\ ~Valid(config[current])
             \/ Valid(config[current]) /\ config[current].driver = extra.driver
      BY <2>2 DEF Prepared, Started, WrapperDone
    <3>5. CASE extra = Broken
      BY <3>1, <3>3, <3>5, WitnessNotNeeded
    <3>6. CASE extra # Broken
      <4>1. Marked(OnDisk(current))' <=> Marked(OnDisk(current))
        BY <3>1, <3>3, <3>4, <3>6 DEF Marked, Valid
      <4>2. Marked(OnDisk(current)) => OnDisk(current)'.driver = OnDisk(current).driver
        BY <3>3, <3>4 DEF Marked
      <4>3. \A c \in Containers \ {current} : Marked(OnDisk(c))' <=> Marked(OnDisk(c))
        BY <3>1, <3>2 DEF Marked, Valid
      <4>4. OnDisk(current) # Broken
        BY <3>3, <3>4
      <4> QED
        BY <3>1, <3>2, <4>1, <4>2, <4>3, <4>4 DEF Witnessed
    <3> QED
      BY <3>5, <3>6
  <2> QED
    BY <1>9, <2>1, <2>2 DEF SaveBegins
<1>10. ASSUME NEW content \in {extra, Broken}, SaveEnds(content) PROVE Witnessed'
  <2>1. /\ UNCHANGED <<app, stamp, libs, torn, current, extra>>
        /\ config' = [config EXCEPT ![current] = content]
        /\ pc' \notin {"write files", "reset save"}
        /\ current \in Containers
    BY <1>1, <1>10 DEF SaveEnds, Typed, CurrentKnown, Started, WrapperDone
  <2>2. OnDisk(current)' = content
    BY <1>1, <2>1 DEF OnDisk, Typed, TypeOK
  <2>3. CASE pc = "write driver" \/ content = Broken
    <3>1. DriverOpen' \/ content = Broken
      BY <1>10, <2>3 DEF SaveEnds, DriverOpen
    <3> QED
      BY <2>1, <2>2, <3>1, WitnessNotNeeded
  <2>4. CASE pc \in {"write files", "reset save"} /\ content = extra
    <3>1. \A c \in Containers : OnDisk(c)' = OnDisk(c)
      BY <1>1, <2>1, <2>2, <2>4 DEF OnDisk, Typed, TypeOK
    <3>2. ~DriverOpen
      BY <2>4 DEF DriverOpen
    <3> QED
      BY <2>1, <3>1, <3>2, WitnessUnchanged
  <2> QED
    BY <1>10, <2>3, <2>4 DEF SaveEnds
<1>11. CASE Killed
  <2>1. UNCHANGED <<app, stamp, libs, config, current, extra>> /\ torn \subseteq torn' /\ pc' = "dead"
    BY <1>11 DEF Killed
  <2>2. CASE DriverOpen
    BY <1>11, <2>2, WitnessNotNeeded DEF Killed
  <2>3. CASE ~DriverOpen /\ pc \in {"write files", "reset save"}
    <3>1. current \in Containers
      BY <1>1, <2>3 DEF Typed, CurrentKnown, Started, WrapperDone
    <3>2. config[current] = Broken
      BY <2>3 DEF Truncated
    <3> QED
      BY <2>1, <3>1, <3>2, WitnessNotNeeded DEF OnDisk
  <2>4. CASE ~DriverOpen /\ pc \notin {"write files", "reset save"}
    <3>1. \A c \in Containers : OnDisk(c)' = OnDisk(c)
      BY <2>1, <2>4 DEF OnDisk
    <3> QED
      BY <2>1, <2>4, <3>1, WitnessUnchanged
  <2> QED
    BY <2>2, <2>3, <2>4
<1>12. CASE Upgrade
  <2>1. stamp' # app'
    BY <1>1, <1>12, FilesAssumption DEF Upgrade, Stamped, Typed, TypeOK, Versions
  <2> QED
    BY <2>1, WitnessNotNeeded
<1> QED
  BY <1>2, <1>3, <1>4, <1>5, <1>6, <1>7, <1>8, <1>9, <1>10, <1>11, <1>12
  DEF Next, Install, Start

LEMMA TruncatedKept == ASSUME Typed, Truncated, [Next]_vars PROVE Truncated'
<1> USE DEF diskVars, runVars
<1>1. CASE UNCHANGED <<pc, current, config>>
  BY <1>1 DEF Truncated
<1>2. CASE pc' \notin {"write files", "write driver", "reset save"}
  BY <1>2 DEF Truncated
<1>3. ASSUME NEW c \in Containers, ResetContainer(c) PROVE Truncated'
  BY <1>3 DEF ResetContainer, Truncated, Typed, TypeOK
<1>4. CASE SaveBegins
  <2>1. current \in Containers
    BY <1>4 DEF SaveBegins, Typed, CurrentKnown, Started, WrapperDone
  <2> QED
    BY <1>4, <2>1 DEF SaveBegins, Truncated, Typed, TypeOK
<1> QED
  BY <1>1, <1>2, <1>3, <1>4
  DEF Next, Install, Start, vars, InstallIfNeeded, ClearStamp, ClearFiles, ExtractImage,
      CreateStamp, WriteStamp, ResetDone, Launch, ApplyGeneralPatches, KeepPatches,
      ExtractWrapper, KeepWrapper, WrapperExtracted, DeleteDriver, KeepDriver,
      DriverExtracted, SaveEnds, Exit, Killed, Upgrade

LEMMA UnpreparedKept ==
  ASSUME Typed, Stamped, Patched, Unprepared, [Next]_vars PROVE Unprepared'
<1> USE DEF diskVars, runVars
<1>1. CASE UNCHANGED <<pc, stamp, app, config, extra>>
  BY <1>1 DEF Unprepared, Intact
<1>2. CASE pc' \notin {"reset", "reset save"}
  BY <1>2 DEF Unprepared
<1>3. ASSUME NEW content \in {app, Broken}, WriteStamp(content) PROVE Unprepared'
  <2>1. UNCHANGED <<app, config>> /\ stamp # app /\ pc' = "reset"
    BY <1>3 DEF WriteStamp, Stamped
  <2>2. \A c \in Intact : config[c].imgVersion # app
    BY <2>1 DEF Patched, Witness, Typed, TypeOK
  <2> QED
    BY <2>1, <2>2 DEF Unprepared, Intact
<1>4. ASSUME NEW c \in Containers, ResetContainer(c) PROVE Unprepared'
  <2>1. c \in Intact /\ config[c] \in Markers /\ extra' = [config[c] EXCEPT !.imgVersion = None]
    BY <1>4 DEF ResetContainer, Typed, TypeOK, CurrentKnown, Intact
  <2>2. extra'.imgVersion = None
    BY <2>1 DEF Markers
  <2>3. \A d \in Intact' : d \in Intact /\ config'[d] = config[d]
    BY <1>4 DEF ResetContainer, Typed, TypeOK, Intact
  <2>4. pc = "reset" /\ UNCHANGED <<app, stamp>>
    BY <1>4 DEF ResetContainer
  <2> QED
    BY <2>2, <2>3, <2>4 DEF Unprepared
<1>5. ASSUME NEW content \in {extra, Broken}, SaveEnds(content), pc = "reset save"
      PROVE  Unprepared'
  <2>1. \A d \in Intact' : config'[d] = extra \/ (d \in Intact /\ config'[d] = config[d])
    BY <1>5 DEF SaveEnds, Typed, TypeOK, Intact
  <2>2. extra.imgVersion = None /\ app \in Versions
    BY <1>5 DEF Unprepared, Typed, TypeOK
  <2>3. UNCHANGED <<app, stamp>> /\ pc' = "reset"
    BY <1>5 DEF SaveEnds
  <2> QED
    BY <1>5, <2>1, <2>2, <2>3, Fresh DEF Unprepared
<1> QED
  BY <1>1, <1>2, <1>3, <1>4, <1>5
  DEF Next, Install, Start, vars, InstallIfNeeded, ClearStamp, ClearFiles, ExtractImage,
      CreateStamp, ResetDone, Launch, ApplyGeneralPatches, KeepPatches,
      ExtractWrapper, KeepWrapper, WrapperExtracted, DeleteDriver, KeepDriver,
      DriverExtracted, SaveBegins, SaveEnds, Exit, Killed, Upgrade

LEMMA PreparedKept ==
  ASSUME Typed, Typed', Prepared, [Next]_vars PROVE Prepared'
<1> USE DEF diskVars, runVars
<1>1. CASE UNCHANGED vars
  BY <1>1 DEF vars, Prepared, Valid, DriverOpen
<1>2. CASE pc' \notin Started
  BY <1>2 DEF Prepared, Started, WrapperDone, DriverOpen
<1>3. ASSUME NEW c \in Containers, NEW s \in Settings, Launch(c, s) PROVE Prepared'
  <2>1. config[c] # Broken /\ pc' = "patch" /\ extra' = config[c] /\ current' = c
        /\ config' = config
    BY <1>3 DEF Launch, Loadable, Intact
  <2> QED
    BY <2>1 DEF Prepared, DriverOpen
<1>4. CASE ApplyGeneralPatches
  <2>1. /\ UNCHANGED <<app, stamp, config, current>> /\ pc = "patch" /\ pc' = "wrapper"
        /\ changed' /\ Unpatched
        /\ extra' = [extra EXCEPT !.appVersion = app, !.imgVersion = StampVersion,
                                  !.driver = None]
    BY <1>4 DEF ApplyGeneralPatches
  <2>2. /\ extra'.appVersion = app /\ extra'.imgVersion = StampVersion
        /\ extra'.driver = None
    BY <2>1 DEF Typed, TypeOK, Markers
  <2>3. stamp = app => StampVersion = app
    BY Fresh DEF StampVersion, Typed, TypeOK
  <2>4. stamp = app => config[current] # Broken /\ ~Valid(config[current])
    BY <2>1, <2>3 DEF Prepared, Unpatched, Valid
  <2> QED
    BY <2>1, <2>2, <2>3, <2>4 DEF Prepared, Valid, DriverOpen
<1>5. CASE KeepPatches
  <2>1. /\ UNCHANGED <<app, stamp, config, current, extra>> /\ pc = "patch" /\ pc' = "wrapper"
        /\ ~Unpatched
    BY <1>5 DEF KeepPatches
  <2>2. stamp = app => StampVersion = app
    BY Fresh DEF StampVersion, Typed, TypeOK
  <2> QED
    BY <2>1, <2>2 DEF Prepared, Unpatched, Valid, DriverOpen
<1>6. CASE ExtractWrapper \/ KeepWrapper
  <2>1. /\ UNCHANGED <<app, stamp, config, current, extra, changed>> /\ pc = "wrapper"
        /\ pc' \in {"extract wrapper", "save files", "driver"}
        /\ pc' = "driver" => ~changed
    BY <1>6 DEF ExtractWrapper, KeepWrapper
  <2> QED
    BY <2>1 DEF Prepared, Valid, DriverOpen, Started, WrapperDone
<1>7. ASSUME NEW outcome \in Wrappers \cup {Broken}, WrapperExtracted(outcome)
      PROVE  Prepared'
  <2>1. /\ UNCHANGED <<app, stamp, config, current>> /\ pc = "extract wrapper"
        /\ pc' = "save files" /\ changed'
        /\ extra' = [extra EXCEPT !.wrapper = wanted.wrapper]
    BY <1>7 DEF WrapperExtracted
  <2>2. /\ extra'.appVersion = extra.appVersion /\ extra'.imgVersion = extra.imgVersion
        /\ extra'.driver = extra.driver
    BY <2>1 DEF Typed, TypeOK, Markers
  <2> QED
    BY <2>1, <2>2 DEF Prepared, Valid, DriverOpen, Started, WrapperDone
<1>8. CASE SaveBegins
  <2>1. /\ UNCHANGED <<app, stamp, current, extra, wanted>>
        /\ \/ pc = "save files" /\ pc' = "write files"
           \/ pc = "save driver" /\ pc' = "write driver"
    BY <1>8 DEF SaveBegins
  <2> QED
    BY <2>1 DEF Prepared, Valid, DriverOpen, Started, WrapperDone
<1>9. ASSUME NEW content \in {extra, Broken}, SaveEnds(content), pc # "reset save"
      PROVE  Prepared'
  <2>1. /\ UNCHANGED <<app, stamp, current, extra, wanted>>
        /\ \/ pc = "write files" /\ pc' = "driver"
           \/ pc = "write driver" /\ pc' = "extract driver"
        /\ config' = [config EXCEPT ![current] = content]
    BY <1>9 DEF SaveEnds
  <2>2. config'[current] \in {extra, Broken}
    BY <2>1 DEF Typed, TypeOK, CurrentKnown, Started, WrapperDone
  <2>3. stamp = app => Valid(extra)
    BY <2>1 DEF Prepared, Started, WrapperDone
  <2>4. stamp = app /\ pc = "write driver" => extra.driver = wanted.driver
    BY DEF Prepared, DriverOpen
  <2> QED
    BY <2>1, <2>2, <2>3, <2>4 DEF Prepared, Valid, DriverOpen
<1>10. CASE DeleteDriver
  <2>1. /\ UNCHANGED <<app, stamp, wanted>> /\ pc = "driver" /\ pc' = "save driver"
        /\ extra' = [extra EXCEPT !.driver = wanted.driver]
    BY <1>10 DEF DeleteDriver
  <2>2. /\ extra'.appVersion = extra.appVersion /\ extra'.imgVersion = extra.imgVersion
        /\ extra'.driver = wanted.driver
    BY <2>1 DEF Typed, TypeOK, Markers
  <2> QED
    BY <2>1, <2>2 DEF Prepared, Valid, DriverOpen, Started, WrapperDone
<1>11. CASE KeepDriver \/ \E outcome \in Drivers \cup {Broken} : DriverExtracted(outcome)
  <2>1. pc' = "guest"
    BY <1>11 DEF KeepDriver, DriverExtracted
  <2> QED
    BY <2>1 DEF Prepared, DriverOpen
<1>12. ASSUME pc' \in Started,
              \/ InstallIfNeeded \/ ClearStamp \/ ClearFiles \/ CreateStamp \/ ResetDone
              \/ \E outcome \in {app, Broken} : ExtractImage(outcome)
              \/ \E content \in {app, Broken} : WriteStamp(content)
              \/ \E c \in Containers : ResetContainer(c)
              \/ \E content \in {extra, Broken} : SaveEnds(content) /\ pc = "reset save"
              \/ Exit \/ Killed \/ Upgrade
       PROVE  FALSE
  BY <1>12
  DEF InstallIfNeeded, ClearStamp, ClearFiles, CreateStamp, ResetDone, ExtractImage,
      WriteStamp, ResetContainer, SaveEnds, Exit, Killed, Upgrade, Started, WrapperDone
<1> QED
  BY <1>1, <1>2, <1>3, <1>4, <1>5, <1>6, <1>7, <1>8, <1>9, <1>10, <1>11, <1>12
  DEF Next, Install, Start

(* The guest is reached with the libraries just extracted, or with a driver *)
(* marker that was kept, to which Witnessed applies.                        *)
LEMMA DriverMatchesKept ==
  ASSUME Typed, Prepared, Witnessed, DriverMatches, [Next]_vars PROVE DriverMatches'
<1> USE DEF diskVars, runVars
<1>1. CASE UNCHANGED vars
  BY <1>1 DEF vars, DriverMatches
<1>2. CASE pc' # "guest"
  BY <1>2 DEF DriverMatches
<1>3. ASSUME NEW outcome \in Drivers \cup {Broken}, DriverExtracted(outcome)
      PROVE  DriverMatches'
  BY <1>3 DEF DriverExtracted, DriverMatches
<1>4. CASE KeepDriver
  <2> SUFFICES ASSUME stamp = app, None \notin torn,
                      \A c \in Containers :
                        config[c] # Broken /\ config[c].driver \in {None, wanted.driver}
               PROVE  libs = wanted.driver
    BY <1>4 DEF KeepDriver, DriverMatches
  <2>1. /\ pc = "driver" /\ wanted.driver = extra.driver /\ ~DriverOpen
        /\ current \in Containers /\ wanted.driver \in Drivers
    BY <1>4 DEF KeepDriver, DriverOpen, Typed, CurrentKnown, Started, WrapperDone, Settings
  <2>2. wanted.driver # None
    BY <2>1, FilesAssumption
  <2>3. \A c \in Containers : OnDisk(c) = config[c]
    BY <2>1 DEF OnDisk
  <2>4. Marked(OnDisk(current))
    BY <2>1, <2>2, <2>3 DEF Prepared, Marked
  <2>5. PICK x \in Containers :
          OnDisk(x) = Broken \/ (Marked(OnDisk(x)) /\ OnDisk(x).driver = libs)
    BY <2>1, <2>4 DEF Witnessed
  <2> QED
    BY <2>3, <2>5 DEF Marked
<1> QED
  BY <1>1, <1>2, <1>3, <1>4
  DEF Next, Install, Start, InstallIfNeeded, ClearStamp, ClearFiles, CreateStamp, ResetDone,
      ExtractImage, WriteStamp, ResetContainer, Launch, ApplyGeneralPatches, KeepPatches,
      ExtractWrapper, KeepWrapper, WrapperExtracted, DeleteDriver, SaveBegins, SaveEnds,
      Exit, Killed, Upgrade

LEMMA DriverInvInit == Init => DriverInv
<1> SUFFICES ASSUME Init PROVE DriverInv
  OBVIOUS
<1>1. stamp # app /\ pc = "dead"
  BY FilesAssumption, Fresh DEF Init, Versions
<1> QED
  BY <1>1
  DEF DriverInv, Truncated, Witnessed, Unprepared, Prepared, DriverMatches, Started,
      WrapperDone, DriverOpen

LEMMA DriverInvStep == IInv /\ DriverInv /\ [Next]_vars => DriverInv'
<1> SUFFICES ASSUME IInv, DriverInv, [Next]_vars PROVE DriverInv'
  OBVIOUS
<1>1. Typed' /\ Typed /\ Stamped /\ Patched
  BY TypedKept DEF IInv
<1>2. Truncated /\ Unprepared /\ Prepared /\ Witnessed /\ DriverMatches
  BY DEF DriverInv
<1> QED
  BY <1>1, <1>2, TruncatedKept, UnpreparedKept, PreparedKept, WitnessKept, DriverMatchesKept
  DEF DriverInv

(* A guest finds the libraries of its driver, if the last extraction was    *)
(* complete and the containers' markers agree: the markers may be saved      *)
(* before the extraction and be reset, lost or written again in any order.   *)
THEOREM DriverCorrect == Spec => []DriverMatches
<1>1. DriverInv => DriverMatches
  BY DEF DriverInv
<1> QED
  BY <1>1, DriverInvInit, DriverInvStep, InvCorrect, PTL DEF Spec

=============================================================================
