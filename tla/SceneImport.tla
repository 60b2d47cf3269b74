----------------------------- MODULE SceneImport -----------------------------
(***************************************************************************)
(* Loading a scene: the application's import coordinator                   *)
(* (scripts/scene_loading/scene_import_coordinator.gd and                  *)
(* scene_import_service.gd), the loader with its worker                    *)
(* (native/src/peraviz_loader.cpp, scene_setup_preparation.cpp) and the    *)
(* rebuild of the fixture bindings (scripts/dmx_fixture_runtime.gd) that   *)
(* compiles the loaded model for the visual runtime.  The user loads       *)
(* shows, restores projects and changes the universe offset at any time.   *)
(*                                                                         *)
(* A show is named by its file, and what is compiled of it by the file and *)
(* the offset; ImportedScene says what that is.  Visual settings, progress *)
(* feedback and metrics are left out, and so is closing the window during  *)
(* a load.                                                                 *)
(***************************************************************************)
EXTENDS Integers

CONSTANTS Files,      \* the files the user picks
          Present,    \* those that are there
          Throwing,   \* those whose preparation throws
          Nodeless,      \* those whose scene has no nodes
          Offsets,    \* universe offsets of the user
          Nothing     \* no file, no task, no scene
ASSUME FilesAssumption ==
  /\ Throwing \subseteq Present /\ Nodeless \subseteq Present /\ Present \subseteq Files
  /\ Nothing \notin Files
ASSUME OffsetsAssumption == Offsets \subseteq Int /\ Offsets # {}

VARIABLES
  loadPhase,  \* where the load stands, "idle" without one
  loadFile,   \* the file that is loaded, Nothing without a load
  failed,     \* _scene_load_failed
  shown,      \* the show whose nodes are in the scene tree, Nothing when it is empty
  universeOffset, \* the universe offset of the DMX panel
  task,       \* preparation_: Nothing, or the worker's file, offset and progress
  prepared,   \* prepared_: Nothing, or the file and the offset it was compiled for
  lastModel,  \* last_scene_model_: the file it was loaded from, Nothing at first
  runtime     \* what is installed in the runtime: Nothing, or a file and the offset it was compiled for

vars == <<loadPhase, loadFile, failed, shown, universeOffset, task, prepared, lastModel, runtime>>

Init ==
  /\ loadPhase = "idle" /\ loadFile = Nothing /\ failed = FALSE /\ shown = Nothing
  /\ universeOffset \in Offsets
  /\ task = Nothing /\ prepared = Nothing /\ lastModel = Nothing /\ runtime = Nothing

---------------------------------------------------------------------------
(* The start of a load.                                                    *)

\* load_scene: refused during a load. The scene tree is cleared, the runtime
\* keeps what it has.
Load(f) ==
  /\ loadPhase = "idle"
  /\ loadPhase' = "start" /\ loadFile' = f /\ failed' = FALSE /\ shown' = Nothing
  /\ UNCHANGED <<universeOffset, task, prepared, lastModel, runtime>>

\* A project restores its offset before the import, without a rebuild.
RestoreOffset(o) ==
  /\ loadPhase = "start"
  /\ loadPhase' = "import" /\ universeOffset' = o
  /\ UNCHANGED <<loadFile, failed, shown, task, prepared, lastModel, runtime>>

\* The load ends without a scene.
Failed ==
  /\ loadPhase' = "idle" /\ loadFile' = Nothing /\ failed' = TRUE /\ shown' = Nothing

\* import_scene: begin_load_mvr for a file that is there.
Begin ==
  /\ loadPhase \in {"start", "import"} /\ loadFile \in Present /\ task = Nothing
  /\ loadPhase' = "prepare" /\ prepared' = Nothing
  /\ task' = [file |-> loadFile, offset |-> universeOffset, progress |-> "geometry", thrown |-> FALSE]
  /\ UNCHANGED <<loadFile, failed, shown, universeOffset, lastModel, runtime>>
NoFile ==
  /\ loadPhase \in {"start", "import"} /\ loadFile \notin Present
  /\ Failed
  /\ UNCHANGED <<universeOffset, task, prepared, lastModel, runtime>>

\* What the nodes of a loaded model mean for the load: an empty scene ends it.
Built(f) ==
  IF f \in Nodeless THEN Failed
  ELSE loadPhase' = "bind" /\ shown' = f /\ UNCHANGED <<loadFile, failed>>

\* load_mvr: with debug output the model is loaded at once and not compiled.
LoadNow ==
  /\ loadPhase \in {"start", "import"} /\ loadFile \in Present \ Throwing /\ task = Nothing
  /\ prepared' = Nothing /\ lastModel' = loadFile
  /\ Built(loadFile)
  /\ UNCHANGED <<universeOffset, task, runtime>>

---------------------------------------------------------------------------
(* The worker and its result.                                              *)

\* prepare_scene_setup
NextProgress == [geometry |-> "mode", mode |-> "control", control |-> "render", render |-> "complete"]
Prepare1 ==
  /\ task # Nothing
  /\ task.progress # "complete" /\ ~task.thrown
  /\ IF task.progress = "geometry" /\ task.file \in Throwing THEN task' = [task EXCEPT !.thrown = TRUE]
     ELSE task' = [task EXCEPT !.progress = NextProgress[@]]
  /\ UNCHANGED <<loadPhase, loadFile, failed, shown, universeOffset, prepared, lastModel, runtime>>
\* As Ready, for a worker that has to complete.
MutReady == IF task = Nothing THEN FALSE ELSE task.progress = "complete"
Ready == IF task = Nothing THEN FALSE ELSE task.progress = "complete" \/ task.thrown

\* finish_load_mvr: an exception leaves the model as it was.
Finish ==
  /\ loadPhase = "prepare" /\ Ready
  /\ task' = Nothing
  /\ IF task.thrown THEN Failed /\ UNCHANGED <<prepared, lastModel>>
     ELSE /\ prepared' = [file |-> task.file, offset |-> task.offset]
          /\ lastModel' = task.file
          /\ Built(task.file)
  /\ UNCHANGED <<universeOffset, runtime>>

---------------------------------------------------------------------------
(* The bindings.                                                           *)

\* As Compiled, for a preparation that counts for every offset.
MutCompiled(o) == IF prepared # Nothing THEN prepared ELSE [file |-> lastModel, offset |-> o]
\* compile_visual_runtime_scene: the preparation for that offset, else the
\* model is compiled again.
Compiled(o) ==
  IF prepared = Nothing THEN [file |-> lastModel, offset |-> o]
  ELSE IF prepared.offset = o THEN prepared ELSE [file |-> lastModel, offset |-> o]

\* rebuild: the runtime is cleared; when the renderer takes the targets the
\* compiled scene is installed.
Rebuilt(o, taken) == runtime' = IF taken THEN Compiled(o) ELSE Nothing

\* The binding of a load, in one turn.
Bind ==
  /\ loadPhase = "bind"
  /\ Rebuilt(universeOffset, TRUE)
  /\ loadPhase' = "publish"
  /\ UNCHANGED <<loadFile, failed, shown, universeOffset, task, prepared, lastModel>>
BindRefused ==
  /\ loadPhase = "bind"
  /\ Rebuilt(universeOffset, FALSE) /\ Failed
  /\ UNCHANGED <<universeOffset, task, prepared, lastModel>>

\* The first frames are drawn and the scene is published, or not.
Publish ==
  /\ loadPhase = "publish"
  /\ loadPhase' = "idle" /\ loadFile' = Nothing
  /\ UNCHANGED <<failed, shown, universeOffset, task, prepared, lastModel, runtime>>
NotRendered ==
  /\ loadPhase = "publish"
  /\ Failed
  /\ UNCHANGED <<universeOffset, task, prepared, lastModel, runtime>>

\* _on_dmx_universe_offset_changed: the rebuild does not look at the load. The
\* targets of a model that is not shown may be refused.
SetOffset(o) ==
  /\ o # universeOffset
  /\ universeOffset' = o
  /\ \E taken \in BOOLEAN : (shown = lastModel => taken) /\ Rebuilt(o, taken)
  /\ UNCHANGED <<loadPhase, loadFile, failed, shown, task, prepared, lastModel>>

---------------------------------------------------------------------------

Loading == NoFile \/ Begin \/ LoadNow \/ Finish \/ Bind \/ BindRefused \/ Publish \/ NotRendered
Next ==
  \/ \E f \in Files : Load(f)
  \/ \E o \in Offsets : RestoreOffset(o) \/ SetOffset(o)
  \/ Loading \/ Prepare1

\* The worker runs to its end and the coordinator is resumed every frame.
Spec == Init /\ [][Next]_vars /\ WF_vars(Loading) /\ WF_vars(Prepare1)

---------------------------------------------------------------------------
(* Properties.                                                             *)

Tasks == [file : Present, offset : Offsets, progress : {"geometry", "mode", "control", "render", "complete"},
          thrown : BOOLEAN]
Scenes == [file : Present \cup {Nothing}, offset : Offsets]
ImportTypeOK ==
  /\ loadPhase \in {"idle", "start", "import", "prepare", "bind", "publish"}
  /\ loadFile \in Files \cup {Nothing} /\ shown \in Present \cup {Nothing} /\ lastModel \in Present \cup {Nothing}
  /\ failed \in BOOLEAN /\ universeOffset \in Offsets
  /\ task \in Tasks \cup {Nothing} /\ prepared \in Scenes \cup {Nothing} /\ runtime \in Scenes \cup {Nothing}

\* Once a scene is published, the runtime plays that scene at the offset the
\* panel shows: whatever was prepared, and whenever the offset changed
\* (compile_visual_runtime_scene, rebuild, _on_dmx_universe_offset_changed).
ShownIsInstalled ==
  loadPhase = "idle" /\ shown # Nothing => /\ ~failed
                                           /\ runtime = [file |-> shown, offset |-> universeOffset]

\* Every load ends, with a scene or without: the coordinator returns whatever
\* the worker does (load_scene, import_scene, finish_load_mvr).
LoadEnds == loadPhase # "idle" ~> loadPhase = "idle"
=============================================================================
