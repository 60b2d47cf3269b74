---------------------------- MODULE SceneAssets ----------------------------
(***************************************************************************)
(* The files a loaded scene is made of, step by step with its load.        *)
(* Every archive that is opened has one directory in the session's cache,  *)
(* found by its content; the directory is removed with the last lease on   *)
(* it (native/src/runtime_storage.cpp, scene_model.cpp, asset_cache.cpp).  *)
(* Leases are held by the model, by the worker's result and by the cache   *)
(* of the fixture bindings (dmx/gdtf_control_offsets_resolver.cpp), not by *)
(* the compiled scenes, which name their gobo images by path alone.        *)
(*                                                                         *)
(* A directory is named by the content it is for and a number that nothing *)
(* mentions when it is created, for the unique rest of its name in the     *)
(* code.  Failures of the file system are left out; an entry that cannot   *)
(* be read stands for them.  Which GDTF files a show's fixtures are        *)
(* compiled from and bound to is a parameter; ImportedScene computes it.   *)
(***************************************************************************)
EXTENDS SceneImport, AssetArchive, Functions

CONSTANTS Gdtfs,         \* the GDTF files, by their content
          ArchiveOf,     \* file -> content of its MVR archive
          CompiledGdtfs, \* file -> the GDTFs a compilation reads the wheels of
          BoundGdtfs     \* file -> those the bindings resolve the offsets of
ASSUME ArchiveAssumption ==
  /\ Gdtfs \subseteq DOMAIN Archives /\ ArchiveOf \in [Present -> DOMAIN Archives]
  /\ CompiledGdtfs \in [Present -> SUBSET Gdtfs] /\ BoundGdtfs \in [Present -> SUBSET Gdtfs]
ASSUME NothingAssumption == Nothing \notin Tasks
\* Only an MVR is searched for GDTF files.
ASSUME GdtfAssumption == \A g \in Gdtfs : \A e \in Range(Archives[g].entries) : e.holds \notin Gdtfs

VARIABLES
  live,   \* directory -> its files (file -> path of the entry it was extracted from)
  held    \* holder -> the directories it leases and the paths it was handed

assetVars == <<live, held>>

Holders == {"worker", "workerScene", "model", "preparedScene", "runtimeScene", "bindings"}
Nobody == [dirs |-> {}, paths |-> {}]
AssetInit == Init /\ live = <<>> /\ held = [h \in Holders |-> Nobody]

---------------------------------------------------------------------------
(* Directories.                                                            *)

\* ~State: what nobody leases is removed.
Leased(directories, holders) == Restrict(directories, UNION {holders[h].dirs : h \in Holders})
Mentioned == UNION {{p.dir : p \in held[h].paths} : h \in Holders}
Created(directories, content) ==
  LET used == {d.number : d \in DOMAIN directories \cup Mentioned}
  IN [content |-> content, number |-> Min(1..(Cardinality(used) + 1) \ used)]
\* As Acquired, for a directory of its own for every cache.
MutAcquired(directories, content) == Created(directories, content)
\* acquire_session_cache_directory: the directory of that content if there is
\* a lease on it.
Acquired(directories, content) ==
  LET here == {d \in DOMAIN directories : d.content = content}
  IN IF here # {} THEN CHOOSE d \in here : TRUE ELSE Created(directories, content)

\* extract_file, for files that are not there yet.
Extracted(entries) ==
  [file \in {OutputFile(e.path) : e \in entries} |-> (CHOOSE e \in entries : OutputFile(e.path) = file).path]
PathTo(dir, e) == [dir |-> dir, file |-> OutputFile(e.path), entry |-> e.path, holds |-> e.holds]
Available(directories, p) == IF p.dir \in DOMAIN directories THEN p.file \in DOMAIN directories[p.dir] ELSE FALSE

\* The caches of some archives extract assets: found is what was found so far.
Filled(directories, d, entries) == 
  Overlaid(IF d \in DOMAIN directories THEN directories[d] ELSE <<>>, Extracted(entries))
Opened(found, contents, assets) ==
  LET dirs == [c \in contents |-> Acquired(found.directories, c)]
      filled == [d \in Range(dirs) |-> Filled(found.directories, d, assets[d.content].files)]
  IN [directories |-> Overlaid(filled, found.directories),
      dirs |-> found.dirs \cup Range(dirs),
      paths |-> found.paths \cup UNION {{PathTo(dirs[c], e) : e \in assets[c].handed} : c \in contents}]
Start == [directories |-> live, dirs |-> {}, paths |-> {}]
\* The GDTF files that can be read among paths.
Readable(directories, paths) == {p.holds : p \in {q \in paths : Available(directories, q)}}

---------------------------------------------------------------------------
(* What each archive gives, tabulated.                                     *)

MvrOf == Tabulated([c \in {ArchiveOf[f] : f \in Present} |-> MvrAssets(Archives[c])])
GeometryOf == Tabulated([g \in Gdtfs |-> GeometryAssets(Archives[g])])
MediaOf == Tabulated([g \in Gdtfs |-> MediaAssets(Archives[g])])

\* load_mvr: the MVR, then the geometry of every fixture's GDTF.
Loaded(f) ==
  LET mvr == Opened(Start, {ArchiveOf[f]}, MvrOf)
  IN Opened(mvr, Readable(mvr.directories, mvr.paths) \cap Gdtfs, GeometryOf)
\* build_gobo_wheel_catalog, for some of the GDTFs of the paths of a model.
Catalogued(start, paths, gdtfs) == Opened(start, Readable(start.directories, paths) \cap gdtfs, MediaOf)

---------------------------------------------------------------------------
(* The steps.                                                              *)

\* Holders after a step, and the directories that are left then.
Released(directories, holders) == held' = holders /\ live' = Leased(directories, holders)
ModelOf(found) == [dirs |-> found.dirs, paths |-> found.paths]
\* A compiled scene keeps the paths of its media and no lease.
SceneOfMedia(found) == [dirs |-> {}, paths |-> found.paths]

BeginAssets == Begin /\ Released(live, [held EXCEPT !["bindings"] = Nobody, !["preparedScene"] = Nobody])
LoadNowAssets ==
  /\ LoadNow
  /\ LET found == Loaded(loadFile)
     IN Released(found.directories,
                 [held EXCEPT !["bindings"] = Nobody, !["preparedScene"] = Nobody, !["model"] = ModelOf(found)])

\* The worker loads, then compiles; the leases of a compilation end with it.
PrepareAssets ==
  /\ Prepare1
  /\ \/ /\ task.progress = "geometry" /\ ~task'.thrown
        /\ LET found == Loaded(task.file)
           IN Released(found.directories, [held EXCEPT !["worker"] = ModelOf(found)])
     \/ /\ task.progress = "mode"
        /\ LET found == Catalogued(Start, held["worker"].paths, CompiledGdtfs[task.file])
           IN Released(found.directories, [held EXCEPT !["workerScene"] = SceneOfMedia(found)])
     \/ (task'.thrown \/ task.progress \in {"control", "render"}) /\ UNCHANGED assetVars
FinishAssets ==
  /\ Finish
  /\ IF task.thrown THEN UNCHANGED assetVars
     ELSE Released(live, [held EXCEPT !["model"] = held["worker"], !["preparedScene"] = held["workerScene"],
                                      !["worker"] = Nobody, !["workerScene"] = Nobody])

\* rebuild: the bindings resolve the offsets of their GDTFs and cache them with
\* a lease; then the scene is compiled, unless it is the prepared one.
RebuildAssets ==
  /\ Bind \/ BindRefused \/ \E o \in Offsets : SetOffset(o)
  /\ LET Of(gdtfs) == IF lastModel = Nothing THEN {} ELSE gdtfs[lastModel]
         bindings == Catalogued(Start, held["model"].paths, Of(BoundGdtfs))
         compiled == Catalogued([bindings EXCEPT !.paths = {}], held["model"].paths, Of(CompiledGdtfs))
         reused == IF prepared = Nothing THEN FALSE ELSE prepared.offset = universeOffset'
         scene == IF reused THEN held["preparedScene"] ELSE SceneOfMedia(compiled)
     IN Released(IF reused THEN bindings.directories ELSE compiled.directories,
                 [held EXCEPT !["bindings"] = [dirs |-> @.dirs \cup bindings.dirs, paths |-> {}],
                              !["runtimeScene"] = IF runtime' = Nothing THEN Nobody ELSE scene])

\* The steps that open and release nothing.
OtherSteps ==
  /\ \/ \E f \in Files : Load(f)
     \/ \E o \in Offsets : RestoreOffset(o)
     \/ NoFile \/ Publish \/ NotRendered
  /\ UNCHANGED assetVars

AssetNext ==
  BeginAssets \/ LoadNowAssets \/ PrepareAssets \/ FinishAssets \/ RebuildAssets \/ OtherSteps

AssetSpec ==
  AssetInit /\ [][AssetNext]_<<vars, assetVars>> /\ WF_vars(Loading) /\ WF_vars(Prepare1)

---------------------------------------------------------------------------
(* Properties.                                                             *)

\* The file a path names is there, and it is the entry the path was handed
\* out for.
Sound(p) == IF Available(live, p) THEN live[p.dir][p.file] = p.entry ELSE FALSE

\* A scene that is shown can read its files at any time: every model, GDTF and
\* texture of its nodes from the moment they are built, and every gobo image
\* of the installed scene once it is published. No other load, failure or
\* offset change in between removes a directory that is still named, and no
\* file stands for another entry (retain, acquire_session_cache_directory,
\* ensure_extracted).
AssetsAvailable ==
  /\ shown # Nothing => \A p \in held["model"].paths : Sound(p)
  /\ shown # Nothing /\ loadPhase = "idle" => \A p \in held["runtimeScene"].paths : Sound(p)
=============================================================================
