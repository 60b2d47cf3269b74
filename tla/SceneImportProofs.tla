------------------------- MODULE SceneImportProofs -------------------------
(***************************************************************************)
(* Proofs about SceneImport and SceneAssets, for every set of files and    *)
(* offsets and whatever the archives hold.                                 *)
(***************************************************************************)
EXTENDS SceneAssets, TLAPS

\* What is prepared is the model that was loaded last.
PreparedIsLast == prepared # Nothing => prepared.file = lastModel
\* A load shows nothing before its model is there, and that model from then on.
ShownIsLast ==
  /\ loadPhase \in {"start", "import", "prepare"} => shown = Nothing
  /\ loadPhase \in {"bind", "publish"} => shown # Nothing
  /\ shown # Nothing => shown = lastModel
\* From its binding on, the shown scene is installed for the current offset.
BoundIsInstalled ==
  loadPhase = "publish" \/ (loadPhase = "idle" /\ shown # Nothing)
    => runtime = [file |-> shown, offset |-> universeOffset]
FailureIsEmpty == loadPhase # "idle" \/ shown # Nothing => ~failed

ImportInv == ImportTypeOK /\ PreparedIsLast /\ ShownIsLast /\ BoundIsInstalled /\ FailureIsEmpty

---------------------------------------------------------------------------

\* What is compiled is the model that was loaded last for the offset asked for,
\* whether it was prepared or not (compile_visual_runtime_scene).
LEMMA CompiledIsLast ==
  ASSUME ImportInv, NEW o \in Offsets
  PROVE Compiled(o) = [file |-> lastModel, offset |-> o]
<1>1. CASE prepared = Nothing
  BY <1>1 DEF Compiled
<1>2. CASE prepared # Nothing
  <2>1. prepared \in Scenes /\ prepared.file = lastModel
    BY <1>2 DEF ImportInv, ImportTypeOK, PreparedIsLast
  <2>2. prepared = [file |-> lastModel, offset |-> prepared.offset]
    BY <2>1 DEF Scenes
  <2>. QED BY <1>2, <2>2 DEF Compiled
<1>. QED BY <1>1, <1>2

LEMMA InitImportInv == Init => ImportInv
BY FilesAssumption DEF Init, ImportInv, ImportTypeOK, PreparedIsLast, ShownIsLast, BoundIsInstalled, FailureIsEmpty

\* The steps of the coordinator and of the worker before the bindings.
LEMMA LoadKeepsInv ==
  ASSUME ImportInv, (\E f \in Files : Load(f)) \/ (\E o \in Offsets : RestoreOffset(o)) \/ Begin \/ NoFile
  PROVE ImportInv'
<1>1. ASSUME NEW f \in Files, Load(f) PROVE ImportInv'
  BY <1>1, FilesAssumption
  DEF Load, ImportInv, ImportTypeOK, PreparedIsLast, ShownIsLast, BoundIsInstalled, FailureIsEmpty
<1>2. ASSUME NEW o \in Offsets, RestoreOffset(o) PROVE ImportInv'
  BY <1>2 DEF RestoreOffset, ImportInv, ImportTypeOK, PreparedIsLast, ShownIsLast, BoundIsInstalled, FailureIsEmpty
<1>3. CASE Begin
  <2>1. task' \in Tasks
    BY <1>3 DEF Begin, ImportInv, ImportTypeOK, Tasks
  <2>. QED BY <1>3, <2>1, FilesAssumption
    DEF Begin, ImportInv, ImportTypeOK, PreparedIsLast, ShownIsLast, BoundIsInstalled, FailureIsEmpty
<1>4. CASE NoFile
  BY <1>4 DEF NoFile, Failed, ImportInv, ImportTypeOK, PreparedIsLast, ShownIsLast, BoundIsInstalled, FailureIsEmpty
<1>. QED BY <1>1, <1>2, <1>3, <1>4

LEMMA WorkerKeepsInv == ImportInv /\ Prepare1 => ImportInv'
<1>. SUFFICES ASSUME ImportInv, Prepare1 PROVE ImportInv' OBVIOUS
<1>1. task \in Tasks
  BY DEF Prepare1, ImportInv, ImportTypeOK
<1>2. task' \in Tasks
  <2>1. CASE task' = [task EXCEPT !.thrown = TRUE]
    BY <1>1, <2>1 DEF Tasks
  <2>2. CASE task' = [task EXCEPT !.progress = NextProgress[task.progress]]
    <3>1. task.progress \in {"geometry", "mode", "control", "render"}
      BY <1>1 DEF Prepare1, Tasks
    <3>2. NextProgress[task.progress] \in {"geometry", "mode", "control", "render", "complete"}
      BY <3>1 DEF NextProgress
    <3>. QED BY <1>1, <2>2, <3>2 DEF Tasks
  <2>. QED BY <2>1, <2>2 DEF Prepare1
<1>. QED BY <1>2 DEF Prepare1, ImportInv, ImportTypeOK, PreparedIsLast, ShownIsLast, BoundIsInstalled, FailureIsEmpty

\* A model that arrives is the last one, and what is prepared of it with it.
LEMMA ArrivalKeepsInv == ImportInv /\ (LoadNow \/ Finish) => ImportInv'
<1>. SUFFICES ASSUME ImportInv, LoadNow \/ Finish PROVE ImportInv' OBVIOUS
<1>. USE FilesAssumption DEF ImportInv, PreparedIsLast, ShownIsLast, BoundIsInstalled, FailureIsEmpty
<1>1. CASE LoadNow
  <2>1. CASE loadFile \in Nodeless
    BY <1>1, <2>1 DEF LoadNow, Built, Failed, ImportTypeOK
  <2>2. CASE loadFile \notin Nodeless
    BY <1>1, <2>2 DEF LoadNow, Built, ImportTypeOK
  <2>. QED BY <2>1, <2>2
<1>2. CASE Finish
  <2>1. task \in Tasks
    BY <1>2 DEF Finish, Ready, ImportTypeOK
  <2>2. CASE task.thrown
    BY <1>2, <2>2 DEF Finish, Failed, ImportTypeOK
  <2>3. CASE ~task.thrown
    <3>1. [file |-> task.file, offset |-> task.offset] \in Scenes /\ task.file \in Present
      BY <2>1 DEF Tasks, Scenes
    <3>2. prepared' = [file |-> task.file, offset |-> task.offset] /\ lastModel' = task.file
      BY <1>2, <2>3 DEF Finish
    <3>3. CASE task.file \in Nodeless
      BY <1>2, <2>3, <3>1, <3>2, <3>3 DEF Finish, Built, Failed, ImportTypeOK
    <3>4. CASE task.file \notin Nodeless
      BY <1>2, <2>3, <3>1, <3>2, <3>4 DEF Finish, Built, ImportTypeOK
    <3>. QED BY <3>3, <3>4
  <2>. QED BY <2>2, <2>3
<1>. QED BY <1>1, <1>2

\* The rebuilds, those of a load and those of an offset change alike.
LEMMA BindingKeepsInv ==
  ASSUME ImportInv, Bind \/ BindRefused \/ (\E o \in Offsets : SetOffset(o))
  PROVE ImportInv'
<1>. USE DEF Rebuilt
<1>1. \A o \in Offsets : Compiled(o) = [file |-> lastModel, offset |-> o] /\ Compiled(o) \in Scenes
  BY CompiledIsLast DEF ImportInv, ImportTypeOK, Scenes
<1>2. universeOffset \in Offsets
  BY DEF ImportInv, ImportTypeOK
<1>3. CASE Bind
  <2>1. runtime' = [file |-> shown, offset |-> universeOffset] /\ runtime' \in Scenes
    BY <1>1, <1>2, <1>3 DEF Bind, ImportInv, ShownIsLast
  <2>. QED BY <1>3, <2>1
    DEF Bind, ImportInv, ImportTypeOK, PreparedIsLast, ShownIsLast, BoundIsInstalled, FailureIsEmpty
<1>4. CASE BindRefused
  BY <1>4
  DEF BindRefused, Failed, ImportInv, ImportTypeOK, PreparedIsLast, ShownIsLast, BoundIsInstalled, FailureIsEmpty
<1>5. ASSUME NEW o \in Offsets, SetOffset(o) PROVE ImportInv'
  <2>1. runtime' \in Scenes \cup {Nothing}
    BY <1>1, <1>5 DEF SetOffset
  <2>2. shown = lastModel => runtime' = [file |-> shown, offset |-> o]
    BY <1>1, <1>5 DEF SetOffset
  <2>. QED BY <1>5, <2>1, <2>2
    DEF SetOffset, ImportInv, ImportTypeOK, PreparedIsLast, ShownIsLast, BoundIsInstalled, FailureIsEmpty
<1>. QED BY <1>3, <1>4, <1>5

LEMMA PublishKeepsInv == ImportInv /\ (Publish \/ NotRendered) => ImportInv'
<1>. SUFFICES ASSUME ImportInv, Publish \/ NotRendered PROVE ImportInv' OBVIOUS
<1>1. CASE Publish
  BY <1>1 DEF Publish, ImportInv, ImportTypeOK, PreparedIsLast, ShownIsLast, BoundIsInstalled, FailureIsEmpty
<1>2. CASE NotRendered
  BY <1>2
  DEF NotRendered, Failed, ImportInv, ImportTypeOK, PreparedIsLast, ShownIsLast, BoundIsInstalled, FailureIsEmpty
<1>. QED BY <1>1, <1>2

LEMMA StepImportInv == ImportInv /\ [Next]_vars => ImportInv'
<1>. SUFFICES ASSUME ImportInv, [Next]_vars PROVE ImportInv' OBVIOUS
<1>1. CASE (\E f \in Files : Load(f)) \/ (\E o \in Offsets : RestoreOffset(o)) \/ Begin \/ NoFile
  BY <1>1, LoadKeepsInv
<1>2. CASE Prepare1
  BY <1>2, WorkerKeepsInv
<1>3. CASE LoadNow \/ Finish
  BY <1>3, ArrivalKeepsInv
<1>4. CASE Bind \/ BindRefused \/ (\E o \in Offsets : SetOffset(o))
  BY <1>4, BindingKeepsInv
<1>5. CASE Publish \/ NotRendered
  BY <1>5, PublishKeepsInv
<1>6. CASE UNCHANGED vars
  BY <1>6 DEF vars, ImportInv, ImportTypeOK, PreparedIsLast, ShownIsLast, BoundIsInstalled, FailureIsEmpty
<1>. QED BY <1>1, <1>2, <1>3, <1>4, <1>5, <1>6 DEF Next, Loading

THEOREM ImportInvariant == Spec => []ImportInv
<1>. QED BY InitImportInv, StepImportInv, PTL DEF Spec

---------------------------------------------------------------------------

\* The state of a load keeps its types, whatever is loaded and whenever the
\* offset changes (scene_import_coordinator.gd, peraviz_loader.cpp).
THEOREM ImportTypeCorrect == Spec => []ImportTypeOK
<1>1. ImportInv => ImportTypeOK
  BY DEF ImportInv
<1>. QED BY <1>1, ImportInvariant, PTL

\* A published scene is installed for the offset of the panel
\* (compile_visual_runtime_scene, rebuild, _on_dmx_universe_offset_changed).
THEOREM PublishedIsInstalled == Spec => []ShownIsInstalled
<1>1. ImportInv => ShownIsInstalled
  BY DEF ImportInv, BoundIsInstalled, FailureIsEmpty, ShownIsInstalled
<1>. QED BY <1>1, ImportInvariant, PTL

---------------------------------------------------------------------------
(* The files of a session of loads.                                        *)

\* The entries of an archive that can be extracted.
Entries(content) == Range(Index(Archives[content].entries))
ExtractableOf(content) == {e \in Entries(content) : Extractable(Index(Archives[content].entries), e)}

\* An archive has one directory, and every file in it is one that no other
\* entry of the archive could be extracted to.
RightFiles(directories) ==
  \A d \in DOMAIN directories : \A file \in DOMAIN directories[d] :
    \E e \in ExtractableOf(d.content) : file = OutputFile(e.path) /\ directories[d][file] = e.path
OneDirectory(directories) == \A d, other \in DOMAIN directories : d.content = other.content => d = other
DirectoriesOK(directories) == RightFiles(directories) /\ OneDirectory(directories)

\* A path that was handed out: for an entry of the archive of its directory,
\* and the file is there.
Handed(directories, p) ==
  /\ p.dir \in DOMAIN directories /\ p.file \in DOMAIN directories[p.dir]
  /\ \E e \in ExtractableOf(p.dir.content) : p = PathTo(p.dir, e)
Kept(directories, paths, dirs) == \A p \in paths : p.dir \in dirs /\ Handed(directories, p)
\* A model leases the directories of its paths and of every GDTF among them.
ModelKept(directories, model) ==
  /\ Kept(directories, model.paths, model.dirs)
  /\ \A p \in model.paths : p.holds \in Gdtfs => \E d \in model.dirs : d.content = p.holds

LeasedDirs(holders) == UNION {holders[h].dirs : h \in Holders}
IsHolding(holders) == holders = [h \in Holders |-> [dirs |-> holders[h].dirs, paths |-> holders[h].paths]]
HoldersOK == IsHolding(held)
LiveIsLeased == DOMAIN live = LeasedDirs(held)
\* Before its load and after its end the worker holds nothing.
IdleWorker ==
  (IF task = Nothing THEN TRUE ELSE task.progress = "geometry") =>
    held["worker"] = Nobody /\ held["workerScene"] = Nobody
ThrownFirst == task # Nothing => (task.thrown => task.progress = "geometry")
\* Who keeps the files of a compiled scene, which has no leases: the model it
\* was compiled from.
ScenesKept ==
  /\ Kept(live, held["workerScene"].paths, held["worker"].dirs)
  /\ Kept(live, held["preparedScene"].paths, held["model"].dirs)
  /\ loadPhase \in {"publish", "idle"} /\ shown # Nothing =>
       Kept(live, held["runtimeScene"].paths, held["model"].dirs)
ModelsKept == ModelKept(live, held["model"]) /\ ModelKept(live, held["worker"])

AssetInv ==
  /\ HoldersOK /\ LiveIsLeased /\ DirectoriesOK(live)
  /\ IdleWorker /\ ThrownFirst /\ ModelsKept /\ ScenesKept

---------------------------------------------------------------------------

LEMMA TabulatedIs == ASSUME NEW f PROVE Tabulated(f) = f
BY DEF Tabulated
LEMMA OverlaidIs ==
  ASSUME NEW f, NEW g
  PROVE /\ DOMAIN Overlaid(f, g) = DOMAIN f \cup DOMAIN g
        /\ \A x \in DOMAIN f : Overlaid(f, g)[x] = f[x]
        /\ \A x \in DOMAIN g : x \notin DOMAIN f => Overlaid(f, g)[x] = g[x]
<1>1. Overlaid(f, g) = [x \in DOMAIN f \cup DOMAIN g |-> IF x \in DOMAIN f THEN f[x] ELSE g[x]]
  BY TabulatedIs DEF Overlaid
<1>. QED BY <1>1

\* What is found in an archive, by any way of naming it, can be extracted
\* (ensure_archive_file_extracted).
LEMMA EnsuredIsExtractable ==
  ASSUME NEW index, NEW reference, NEW fallback
  PROVE Ensured(index, reference, fallback) \subseteq {e \in Range(index) : Extractable(index, e)}
<1>1. Resolved(index, reference, fallback) \subseteq Range(index)
  BY DEF Resolved
<1>. QED BY <1>1 DEF Ensured

\* Of a reference that names entries by several candidates, and so of a model
\* or an image (ensure_model_extracted, ensure_gobo_media_extracted).
LEMMA FoundIsExtractable ==
  ASSUME NEW index, NEW reference
  PROVE /\ GdtfSpec(index, reference) \subseteq {e \in Range(index) : Extractable(index, e)}
        /\ GdtfModel(index, reference) \subseteq {e \in Range(index) : Extractable(index, e)}
        /\ MvrModel(index, reference) \subseteq {e \in Range(index) : Extractable(index, e)}
        /\ MediaEntry(index, reference) \subseteq {e \in Range(index) : Extractable(index, e)}
<1>. DEFINE Good == {e \in Range(index) : Extractable(index, e)}
<1>0. \A other, fallback : Ensured(index, other, fallback) \subseteq Good
  BY EnsuredIsExtractable
<1>. HIDE DEF Good
<1>1. GdtfSpec(index, reference) \subseteq Good
  BY <1>0 DEF GdtfSpec
<1>2. \A candidates, path : ModelEntry(index, candidates, path) \subseteq Good
  BY <1>0, Zenon DEF ModelEntry
<1>3. GdtfModel(index, reference) \subseteq Good /\ MvrModel(index, reference) \subseteq Good
  BY <1>2 DEF GdtfModel, MvrModel
<1>4. MediaByStem(index, reference) \subseteq Good
  BY <1>0, Zenon DEF MediaByStem
<1>5. MediaEntry(index, reference) \subseteq Good
  BY <1>0, <1>4, Zenon DEF MediaEntry
<1>. QED BY <1>1, <1>3, <1>5 DEF Good

\* Of a whole archive: what is handed out is extracted, and all of it can be.
GivenBy(assets, content) == assets.files \subseteq ExtractableOf(content) /\ assets.handed \subseteq assets.files
LEMMA AssetsAreExtractable ==
  ASSUME NEW content
  PROVE /\ GivenBy(MvrAssets(Archives[content]), content)
        /\ GivenBy(GeometryAssets(Archives[content]), content)
        /\ GivenBy(MediaAssets(Archives[content]), content)
<1>. DEFINE archive == Archives[content]
            index == Index(archive.entries)
            Good == ExtractableOf(content)
<1>0. Good = {e \in Range(index) : Extractable(index, e)}
  BY DEF ExtractableOf, Entries
<1>1. \A reference : /\ GdtfSpec(index, reference) \subseteq Good /\ GdtfModel(index, reference) \subseteq Good
                     /\ MvrModel(index, reference) \subseteq Good /\ MediaEntry(index, reference) \subseteq Good
  BY <1>0, FoundIsExtractable
<1>2. \A reference, fallback : Ensured(index, reference, fallback) \subseteq Good
  BY <1>0, EnsuredIsExtractable
<1>3. \A models : models \subseteq Good => WithDependencies(index, models) \subseteq Good
  <2>1. \A model : Dependencies(index, model) \subseteq Good
    BY <1>0 DEF Dependencies
  <2>. QED BY <2>1 DEF WithDependencies
<1>4. \A models : models \subseteq WithDependencies(index, models)
  BY DEF WithDependencies
<1>. HIDE DEF Good, index
<1>5. GivenBy(MvrAssets(archive), content)
  <2>. DEFINE specs == UNION {GdtfSpec(index, spec) : spec \in Range(archive.specs)}
              models == UNION {MvrModel(index, model) : model \in Range(archive.models)}
  <2>1. MvrAssets(archive) = [files |-> specs \cup WithDependencies(index, models), handed |-> specs \cup models]
    BY DEF MvrAssets, index
  <2>2. specs \subseteq Good /\ models \subseteq Good
    BY <1>1
  <2>. HIDE DEF specs, models
  <2>. QED BY <2>1, <2>2, <1>3, <1>4 DEF GivenBy, Good
<1>6. GivenBy(GeometryAssets(archive), content)
  <2>. DEFINE description == Ensured(index, File(<<>>, "description", "xml"), TRUE)
              models == IF description = {} THEN {}
                        ELSE UNION {GdtfModel(index, model) : model \in Range(archive.models)}
  <2>1. GeometryAssets(archive) = [files |-> description \cup WithDependencies(index, models), handed |-> models]
    BY DEF GeometryAssets, index
  <2>2. description \subseteq Good /\ models \subseteq Good
    BY <1>1, <1>2
  <2>. HIDE DEF description, models
  <2>. QED BY <2>1, <2>2, <1>3, <1>4 DEF GivenBy, Good
<1>7. GivenBy(MediaAssets(archive), content)
  <2>. DEFINE media == UNION {MediaEntry(index, image) : image \in Range(archive.media)}
  <2>1. MediaAssets(archive) = [files |-> media, handed |-> media]
    BY DEF MediaAssets, index
  <2>2. media \subseteq Good
    BY <1>1
  <2>. HIDE DEF media
  <2>. QED BY <2>1, <2>2 DEF GivenBy, Good
<1>. QED BY <1>5, <1>6, <1>7

LEMMA TablesAreGiven ==
  /\ \A f \in Present : GivenBy(MvrOf[ArchiveOf[f]], ArchiveOf[f])
  /\ \A g \in Gdtfs : GivenBy(GeometryOf[g], g) /\ GivenBy(MediaOf[g], g)
BY AssetsAreExtractable, TabulatedIs DEF MvrOf, GeometryOf, MediaOf

\* The models of a GDTF are no GDTF files.
LEMMA GeometryHoldsNone ==
  ASSUME NEW g \in Gdtfs, NEW e \in GeometryOf[g].handed PROVE e.holds \notin Gdtfs
<1>1. e \in ExtractableOf(g)
  BY TablesAreGiven DEF GivenBy
<1>2. Range(Index(Archives[g].entries)) \subseteq Range(Archives[g].entries)
  BY DEF Index, Where, Range
<1>. QED BY <1>1, <1>2, GdtfAssumption DEF ExtractableOf, Entries

\* acquire_session_cache_directory finds the one directory of a content.
LEMMA AcquiredIsTheOne ==
  ASSUME NEW directories, OneDirectory(directories), NEW content
  PROVE /\ Acquired(directories, content).content = content
        /\ \A d \in DOMAIN directories : d.content = content => Acquired(directories, content) = d
<1>. DEFINE here == {d \in DOMAIN directories : d.content = content}
<1>1. CASE here # {}
  <2>1. Acquired(directories, content) \in here
    BY <1>1 DEF Acquired
  <2>. QED BY <2>1 DEF OneDirectory
<1>2. CASE here = {}
  <2>1. Acquired(directories, content) = Created(directories, content)
    BY <1>2 DEF Acquired
  <2>2. Created(directories, content).content = content
    BY DEF Created
  <2>. QED BY <1>2, <2>1, <2>2
<1>. QED BY <1>1, <1>2

\* What extract_file writes stands for one entry each.
LEMMA ExtractedFiles ==
  ASSUME NEW entries
  PROVE /\ DOMAIN Extracted(entries) = {OutputFile(e.path) : e \in entries}
        /\ \A file \in DOMAIN Extracted(entries) :
             \E e \in entries : file = OutputFile(e.path) /\ Extracted(entries)[file] = e.path
<1>1. DOMAIN Extracted(entries) = {OutputFile(e.path) : e \in entries}
  BY DEF Extracted
<1>2. ASSUME NEW file \in DOMAIN Extracted(entries)
      PROVE \E e \in entries : file = OutputFile(e.path) /\ Extracted(entries)[file] = e.path
  <2>. DEFINE chosen == CHOOSE e \in entries : OutputFile(e.path) = file
  <2>1. chosen \in entries /\ OutputFile(chosen.path) = file
    BY <1>1, <1>2
  <2>2. Extracted(entries)[file] = chosen.path
    BY <1>1, <1>2 DEF Extracted
  <2>. QED BY <2>1, <2>2
<1>. QED BY <1>1, <1>2

\* More directories with more files.
Grown(before, after) ==
  \A d \in DOMAIN before : d \in DOMAIN after /\ DOMAIN before[d] \subseteq DOMAIN after[d]
LEMMA HandedGrows ==
  ASSUME NEW before, NEW after, Grown(before, after), NEW p, Handed(before, p) PROVE Handed(after, p)
BY DEF Grown, Handed

\* Opening caches keeps every directory right, adds one for each content that
\* had none, and hands out paths to files that are there (ZipAssetCache,
\* ensure_extracted).
LEMMA OpenedIsRight ==
  ASSUME NEW found, DirectoriesOK(found.directories), NEW contents, NEW assets,
         \A c \in contents : GivenBy(assets[c], c),
         NEW opened, opened = Opened(found, contents, assets)
  PROVE /\ DirectoriesOK(opened.directories) /\ Grown(found.directories, opened.directories)
        /\ DOMAIN opened.directories \subseteq DOMAIN found.directories \cup opened.dirs
        /\ found.dirs \subseteq opened.dirs
        /\ opened.dirs \subseteq found.dirs \cup DOMAIN opened.directories
        /\ \A c \in contents : \E d \in opened.dirs : d.content = c
        /\ \A p \in opened.paths : p \in found.paths \/ (\E c \in contents : /\ p.dir \in opened.dirs /\ p.dir.content = c
                                                                             /\ Handed(opened.directories, p)
                                                                             /\ \E e \in assets[c].handed : p.holds = e.holds)
        /\ found.paths \subseteq opened.paths
<1>. DEFINE old == found.directories
            dirs == [c \in contents |-> Acquired(old, c)]
            filled == [d \in Range(dirs) |-> Filled(old, d, assets[d.content].files)]
            new == Overlaid(filled, old)
<1>1. /\ opened.directories = new /\ opened.dirs = found.dirs \cup Range(dirs)
      /\ opened.paths = found.paths \cup UNION {{PathTo(dirs[c], e) : e \in assets[c].handed} : c \in contents}
  BY DEF Opened
<1>2. RightFiles(old) /\ OneDirectory(old)
  BY DEF DirectoriesOK
<1>3. \A c \in contents : dirs[c].content = c /\ dirs[c] \in Range(dirs) /\ (\A d \in DOMAIN old : d.content = c => dirs[c] = d)
  BY <1>2, AcquiredIsTheOne DEF Range
<1>4. \A d \in Range(dirs) : d.content \in contents /\ dirs[d.content] = d
  BY <1>2, <1>3 DEF Range
<1>. HIDE DEF dirs
<1>5. /\ DOMAIN new = Range(dirs) \cup DOMAIN old
      /\ \A d \in Range(dirs) : new[d] = Filled(old, d, assets[d.content].files)
      /\ \A d \in DOMAIN old : d \notin Range(dirs) => new[d] = old[d]
  <2>1. DOMAIN filled = Range(dirs) /\ \A d \in Range(dirs) : filled[d] = Filled(old, d, assets[d.content].files)
    OBVIOUS
  <2>. HIDE DEF filled
  <2>2. /\ DOMAIN Overlaid(filled, old) = DOMAIN filled \cup DOMAIN old
        /\ \A x \in DOMAIN filled : Overlaid(filled, old)[x] = filled[x]
        /\ \A x \in DOMAIN old : x \notin DOMAIN filled => Overlaid(filled, old)[x] = old[x]
    BY OverlaidIs
  <2>. QED BY <2>1, <2>2
<1>. HIDE DEF new, filled
\* The files of a directory that was opened.
<1>6. ASSUME NEW d \in Range(dirs)
      PROVE /\ \A file \in DOMAIN new[d] :
                 \E e \in ExtractableOf(d.content) : file = OutputFile(e.path) /\ new[d][file] = e.path
            /\ \A e \in assets[d.content].files : OutputFile(e.path) \in DOMAIN new[d]
            /\ d \in DOMAIN old => DOMAIN old[d] \subseteq DOMAIN new[d]
  <2>. DEFINE before == IF d \in DOMAIN old THEN old[d] ELSE <<>>
              added == Extracted(assets[d.content].files)
  <2>1. new[d] = Overlaid(before, added)
    BY <1>5 DEF Filled
  <2>2. \A file \in DOMAIN before :
          \E e \in ExtractableOf(d.content) : file = OutputFile(e.path) /\ before[file] = e.path
    <3>1. CASE d \in DOMAIN old
      BY <1>2, <3>1 DEF RightFiles
    <3>2. CASE d \notin DOMAIN old
      <4>1. before = <<>>
        BY <3>2
      <4>. QED BY <4>1
    <3>. QED BY <3>1, <3>2
  <2>3. /\ DOMAIN added = {OutputFile(e.path) : e \in assets[d.content].files}
        /\ \A file \in DOMAIN added :
             \E e \in assets[d.content].files : file = OutputFile(e.path) /\ added[file] = e.path
    BY ExtractedFiles
  <2>4. assets[d.content].files \subseteq ExtractableOf(d.content)
    BY <1>4 DEF GivenBy
  <2>5. d \in DOMAIN old => DOMAIN before = DOMAIN old[d]
    OBVIOUS
  <2>. HIDE DEF before, added
  <2>6. /\ DOMAIN new[d] = DOMAIN before \cup DOMAIN added
        /\ \A x \in DOMAIN before : new[d][x] = before[x]
        /\ \A x \in DOMAIN added : x \notin DOMAIN before => new[d][x] = added[x]
    <3>1. /\ DOMAIN Overlaid(before, added) = DOMAIN before \cup DOMAIN added
          /\ \A x \in DOMAIN before : Overlaid(before, added)[x] = before[x]
          /\ \A x \in DOMAIN added : x \notin DOMAIN before => Overlaid(before, added)[x] = added[x]
      BY OverlaidIs
    <3>. QED BY <2>1, <3>1
  <2>7. ASSUME NEW file \in DOMAIN new[d]
        PROVE \E e \in ExtractableOf(d.content) : file = OutputFile(e.path) /\ new[d][file] = e.path
    <3>1. CASE file \in DOMAIN before
      BY <3>1, <2>2, <2>6
    <3>2. CASE file \notin DOMAIN before
      BY <3>2, <2>7, <2>3, <2>4, <2>6
    <3>. QED BY <3>1, <3>2
  <2>. QED BY <2>3, <2>5, <2>6, <2>7
<1>7. RightFiles(new)
  <2>. SUFFICES ASSUME NEW d \in DOMAIN new, NEW file \in DOMAIN new[d]
                PROVE \E e \in ExtractableOf(d.content) : file = OutputFile(e.path) /\ new[d][file] = e.path
    BY DEF RightFiles
  <2>1. CASE d \in Range(dirs)
    BY <2>1, <1>6
  <2>2. CASE d \notin Range(dirs)
    BY <2>2, <1>5, <1>2 DEF RightFiles
  <2>. QED BY <2>1, <2>2
<1>8. OneDirectory(new)
  <2>. SUFFICES ASSUME NEW d \in DOMAIN new, NEW other \in DOMAIN new, d.content = other.content PROVE d = other
    BY DEF OneDirectory
  <2>1. CASE d.content \in contents
    BY <2>1, <1>3, <1>4, <1>5
  <2>2. CASE d.content \notin contents
    BY <2>2, <1>2, <1>4, <1>5 DEF OneDirectory
  <2>. QED BY <2>1, <2>2
<1>9. Grown(old, new)
  BY <1>5, <1>6 DEF Grown
<1>10. ASSUME NEW c \in contents, NEW e \in assets[c].handed, NEW p, p = PathTo(dirs[c], e)
       PROVE /\ p.dir \in opened.dirs /\ p.dir.content = c /\ Handed(new, p) /\ p.holds = e.holds
  <2>1. p.dir = dirs[c] /\ p.file = OutputFile(e.path) /\ p.holds = e.holds
    BY <1>10 DEF PathTo
  <2>2. e \in assets[c].files /\ e \in ExtractableOf(c)
    BY DEF GivenBy
  <2>3. p.dir \in Range(dirs) /\ p.dir.content = c
    BY <1>3, <2>1
  <2>4. p.file \in DOMAIN new[p.dir] /\ p.dir \in DOMAIN new
    BY <1>5, <1>6, <2>1, <2>2, <2>3
  <2>. QED BY <1>1, <1>10, <2>1, <2>2, <2>3, <2>4 DEF Handed
<1>11. ASSUME NEW p \in opened.paths, p \notin found.paths
       PROVE \E c \in contents : /\ p.dir \in opened.dirs /\ p.dir.content = c
                                 /\ Handed(opened.directories, p)
                                 /\ \E e \in assets[c].handed : p.holds = e.holds
  <2>1. PICK c \in contents : p \in {PathTo(dirs[c], e) : e \in assets[c].handed}
    BY <1>1, <1>11
  <2>2. PICK e \in assets[c].handed : p = PathTo(dirs[c], e)
    BY <2>1
  <2>. QED BY <1>1, <1>10, <2>2
<1>. QED BY <1>1, <1>3, <1>5, <1>7, <1>8, <1>9, <1>11 DEF DirectoriesOK

\* A loaded model leases what its paths are in and what its GDTFs were opened
\* in (load_mvr, build_fixture_geometry_nodes).
LEMMA LoadedIsKept ==
  ASSUME DirectoriesOK(live), NEW f \in Present, NEW found, found = Loaded(f)
  PROVE /\ DirectoriesOK(found.directories) /\ Grown(live, found.directories)
        /\ found.dirs \subseteq DOMAIN found.directories
        /\ ModelKept(found.directories, found)
<1>. DEFINE c == ArchiveOf[f]
            mvr == Opened(Start, {c}, MvrOf)
            gdtfs == Readable(mvr.directories, mvr.paths) \cap Gdtfs
<1>1. Start.directories = live /\ Start.dirs = {} /\ Start.paths = {}
  BY DEF Start
<1>2. \A x \in {c} : GivenBy(MvrOf[x], x)
  BY TablesAreGiven
<1>3. /\ DirectoriesOK(mvr.directories) /\ Grown(live, mvr.directories)
      /\ mvr.dirs \subseteq DOMAIN mvr.directories
      /\ \A p \in mvr.paths : p.dir \in mvr.dirs /\ Handed(mvr.directories, p)
  BY <1>1, <1>2, OpenedIsRight
<1>4. found = Opened(mvr, gdtfs, GeometryOf)
  BY DEF Loaded
<1>5. \A g \in gdtfs : g \in Gdtfs /\ GivenBy(GeometryOf[g], g)
  BY TablesAreGiven
<1>6. \A p \in mvr.paths : p.holds \in Gdtfs => p.holds \in gdtfs
  BY <1>3 DEF Handed, Readable, Available
<1>. HIDE DEF mvr, gdtfs
<1>7. /\ DirectoriesOK(found.directories) /\ Grown(mvr.directories, found.directories)
      /\ mvr.dirs \subseteq found.dirs
      /\ found.dirs \subseteq mvr.dirs \cup DOMAIN found.directories
      /\ \A g \in gdtfs : \E d \in found.dirs : d.content = g
      /\ \A p \in found.paths : p \in mvr.paths \/ (\E g \in gdtfs : /\ p.dir \in found.dirs
                                                                   /\ Handed(found.directories, p)
                                                                   /\ \E e \in GeometryOf[g].handed : p.holds = e.holds)
  BY <1>3, <1>4, <1>5, OpenedIsRight
<1>8. Grown(live, found.directories)
  BY <1>3, <1>7 DEF Grown
<1>9. found.dirs \subseteq DOMAIN found.directories
  BY <1>3, <1>7 DEF Grown
<1>10. ASSUME NEW p \in found.paths
       PROVE /\ p.dir \in found.dirs /\ Handed(found.directories, p)
             /\ p.holds \in Gdtfs => \E d \in found.dirs : d.content = p.holds
  <2>1. CASE p \in mvr.paths
    <3>1. Handed(found.directories, p)
      BY <2>1, <1>3, <1>7, HandedGrows
    <3>. QED BY <2>1, <3>1, <1>3, <1>6, <1>7
  <2>2. CASE p \notin mvr.paths
    <3>1. PICK g \in gdtfs : /\ p.dir \in found.dirs /\ Handed(found.directories, p)
                             /\ \E e \in GeometryOf[g].handed : p.holds = e.holds
      BY <2>2, <1>7
    <3>2. p.holds \notin Gdtfs
      BY <3>1, <1>5, GeometryHoldsNone
    <3>. QED BY <3>1, <3>2
  <2>. QED BY <2>1, <2>2
<1>. QED BY <1>7, <1>8, <1>9, <1>10 DEF ModelKept, Kept

\* The images of a model's GDTFs are in directories that the model leases: the
\* archive is found again by its content (build_gobo_wheel_catalog).
LEMMA CataloguedIsKept ==
  ASSUME NEW start, DirectoriesOK(start.directories), start.paths = {}, start.dirs \subseteq DOMAIN start.directories,
         NEW model, ModelKept(start.directories, model), model.dirs \subseteq DOMAIN start.directories,
         NEW gdtfs \in SUBSET Gdtfs, NEW found, found = Catalogued(start, model.paths, gdtfs)
  PROVE /\ DirectoriesOK(found.directories) /\ Grown(start.directories, found.directories)
        /\ found.dirs \subseteq DOMAIN found.directories
        /\ Kept(found.directories, found.paths, model.dirs)
<1>. DEFINE contents == Readable(start.directories, model.paths) \cap gdtfs
<1>1. found = Opened(start, contents, MediaOf)
  BY DEF Catalogued
<1>2. \A c \in contents : GivenBy(MediaOf[c], c)
  BY TablesAreGiven
<1>3. \A c \in contents : \E d \in model.dirs : d.content = c
  BY DEF ModelKept, Readable
<1>. HIDE DEF contents
<1>4. /\ DirectoriesOK(found.directories) /\ Grown(start.directories, found.directories)
      /\ found.dirs \subseteq start.dirs \cup DOMAIN found.directories
      /\ \A p \in found.paths : \E c \in contents : p.dir.content = c /\ Handed(found.directories, p)
  BY <1>1, <1>2, OpenedIsRight
<1>5. found.dirs \subseteq DOMAIN found.directories
  BY <1>4 DEF Grown
<1>6. ASSUME NEW p \in found.paths PROVE p.dir \in model.dirs /\ Handed(found.directories, p)
  <2>1. PICK c \in contents : p.dir.content = c /\ Handed(found.directories, p)
    BY <1>4
  <2>2. PICK d \in model.dirs : d.content = c
    BY <1>3
  <2>3. d \in DOMAIN found.directories /\ p.dir \in DOMAIN found.directories
    BY <1>4, <2>1, <2>2 DEF Grown, Handed
  <2>4. p.dir = d
    BY <1>4, <2>1, <2>2, <2>3 DEF DirectoriesOK, OneDirectory
  <2>. QED BY <2>1, <2>2, <2>4
<1>. QED BY <1>4, <1>5, <1>6 DEF Kept

LEMMA KeptGrows ==
  ASSUME NEW before, NEW after, Grown(before, after), NEW paths, NEW dirs, Kept(before, paths, dirs)
  PROVE Kept(after, paths, dirs)
BY HandedGrows DEF Kept
LEMMA ModelKeptGrows ==
  ASSUME NEW before, NEW after, Grown(before, after), NEW model, ModelKept(before, model)
  PROVE ModelKept(after, model)
BY KeptGrows DEF ModelKept

\* What is removed is what nobody leases, so nothing that is kept by a lease
\* (~State).
LEMMA ReleasedKeeps ==
  ASSUME NEW directories, DirectoriesOK(directories), NEW holders, LeasedDirs(holders) \subseteq DOMAIN directories,
         Released(directories, holders)
  PROVE /\ held' = holders /\ LiveIsLeased' /\ DirectoriesOK(live')
        /\ \A paths, dirs : Kept(directories, paths, dirs) /\ dirs \subseteq LeasedDirs(holders) => Kept(live', paths, dirs)
<1>1. held' = holders /\ live' = [d \in LeasedDirs(holders) |-> directories[d]]
  BY DEF Released, Leased, Restrict, LeasedDirs
<1>2. DOMAIN live' = LeasedDirs(holders) /\ \A d \in LeasedDirs(holders) : live'[d] = directories[d]
  BY <1>1
<1>3. DirectoriesOK(live')
  BY <1>2 DEF DirectoriesOK, RightFiles, OneDirectory
<1>4. LiveIsLeased'
  BY <1>1, <1>2 DEF LiveIsLeased, LeasedDirs
<1>5. \A paths, dirs : Kept(directories, paths, dirs) /\ dirs \subseteq LeasedDirs(holders) => Kept(live', paths, dirs)
  BY <1>2 DEF Kept, Handed
<1>. QED BY <1>1, <1>3, <1>4, <1>5

LEMMA InitAssetInv == AssetInit => AssetInv
<1>. SUFFICES ASSUME AssetInit PROVE AssetInv OBVIOUS
<1>. USE DEF AssetInit, Init, Nobody
<1>1. HoldersOK
  BY DEF HoldersOK, IsHolding
<1>2. DOMAIN live = {}
  OBVIOUS
<1>3. LiveIsLeased /\ DirectoriesOK(live)
  BY <1>2 DEF LiveIsLeased, LeasedDirs, Holders, DirectoriesOK, RightFiles, OneDirectory
<1>4. IdleWorker /\ ThrownFirst
  BY DEF IdleWorker, ThrownFirst, Holders
<1>5. ModelsKept /\ ScenesKept
  BY DEF ModelsKept, ScenesKept, ModelKept, Kept, Holders
<1>. QED BY <1>1, <1>3, <1>4, <1>5 DEF AssetInv

\* Every holder's directories are there.
LEMMA LeasesAreLive == ASSUME AssetInv, NEW h \in Holders PROVE held[h].dirs \subseteq DOMAIN live
BY DEF AssetInv, LiveIsLeased, LeasedDirs

\* A step that changes who holds what: what has to be kept is kept before the
\* leases that end are released.
LEMMA ReleasedInv ==
  ASSUME NEW directories, DirectoriesOK(directories), NEW holders, IsHolding(holders),
         LeasedDirs(holders) \subseteq DOMAIN directories, Released(directories, holders),
         ModelKept(directories, holders["model"]), ModelKept(directories, holders["worker"]),
         Kept(directories, holders["workerScene"].paths, holders["worker"].dirs),
         Kept(directories, holders["preparedScene"].paths, holders["model"].dirs),
         loadPhase' \in {"publish", "idle"} /\ shown' # Nothing =>
           Kept(directories, holders["runtimeScene"].paths, holders["model"].dirs),
         IdleWorker', ThrownFirst'
  PROVE AssetInv'
<1>1. /\ held' = holders /\ LiveIsLeased' /\ DirectoriesOK(live')
      /\ \A paths, dirs : Kept(directories, paths, dirs) /\ dirs \subseteq LeasedDirs(holders) => Kept(live', paths, dirs)
  BY ReleasedKeeps
<1>2. holders["model"].dirs \subseteq LeasedDirs(holders) /\ holders["worker"].dirs \subseteq LeasedDirs(holders)
  BY DEF LeasedDirs, Holders
<1>3. ModelKept(live', holders["model"]) /\ ModelKept(live', holders["worker"])
  BY <1>1, <1>2 DEF ModelKept
<1>4. ModelsKept'
  BY <1>1, <1>3 DEF ModelsKept
<1>5. ScenesKept'
  BY <1>1, <1>2 DEF ScenesKept
<1>6. HoldersOK'
  BY <1>1 DEF HoldersOK
<1>. QED BY <1>1, <1>4, <1>5, <1>6 DEF AssetInv

\* The parts of the invariant before a step.
LEMMA AssetFacts ==
  ASSUME AssetInv
  PROVE /\ IsHolding(held) /\ DirectoriesOK(live) /\ LeasedDirs(held) = DOMAIN live /\ IdleWorker /\ ThrownFirst
        /\ ModelKept(live, held["model"]) /\ ModelKept(live, held["worker"])
        /\ Kept(live, held["workerScene"].paths, held["worker"].dirs)
        /\ Kept(live, held["preparedScene"].paths, held["model"].dirs)
        /\ loadPhase \in {"publish", "idle"} /\ shown # Nothing =>
             Kept(live, held["runtimeScene"].paths, held["model"].dirs)
BY DEF AssetInv, HoldersOK, LiveIsLeased, ModelsKept, ScenesKept

LEMMA KeptOfNothing == \A directories, dirs : Kept(directories, {}, dirs) /\ ModelKept(directories, Nobody)
BY DEF Kept, ModelKept, Nobody

LEMMA BeginKeepsFiles == AssetInv /\ BeginAssets => AssetInv'
<1>. SUFFICES ASSUME AssetInv, BeginAssets PROVE AssetInv' OBVIOUS
<1>. DEFINE holders == [held EXCEPT !["bindings"] = Nobody, !["preparedScene"] = Nobody]
<1>0. Begin /\ Released(live, holders)
  BY DEF BeginAssets
<1>1. /\ IsHolding(holders)
      /\ \A h \in Holders : holders[h] = IF h \in {"bindings", "preparedScene"} THEN Nobody ELSE held[h]
  BY AssetFacts DEF IsHolding, Holders, Nobody
<1>. HIDE DEF holders
<1>2. LeasedDirs(holders) \subseteq DOMAIN live
  BY <1>1, LeasesAreLive DEF LeasedDirs, Nobody
<1>3. \A h \in {"model", "worker", "workerScene"} : holders[h] = held[h]
  BY <1>1 DEF Holders
<1>4. holders["preparedScene"] = Nobody
  BY <1>1 DEF Holders
<1>5. Kept(live, holders["preparedScene"].paths, holders["model"].dirs)
  BY <1>4, KeptOfNothing DEF Nobody
<1>6. IdleWorker' /\ ThrownFirst'
  <2>1. held' = holders /\ task = Nothing /\ task'.progress = "geometry"
    BY <1>0 DEF Released, Begin
  <2>. QED BY <1>3, <2>1, AssetFacts DEF IdleWorker, ThrownFirst
<1>7. loadPhase' = "prepare"
  BY <1>0 DEF Begin
<1>. QED BY <1>0, <1>1, <1>2, <1>3, <1>5, <1>6, <1>7, AssetFacts, ReleasedInv

LEMMA LoadNowKeepsFiles == ImportInv /\ AssetInv /\ LoadNowAssets => AssetInv'
<1>. SUFFICES ASSUME ImportInv, AssetInv, LoadNowAssets PROVE AssetInv' OBVIOUS
<1>. DEFINE found == Loaded(loadFile)
            holders == [held EXCEPT !["bindings"] = Nobody, !["preparedScene"] = Nobody, !["model"] = ModelOf(found)]
<1>0. LoadNow /\ Released(found.directories, holders) /\ loadFile \in Present
  BY DEF LoadNowAssets, LoadNow
<1>1. /\ IsHolding(holders)
      /\ \A h \in Holders : holders[h] = IF h \in {"bindings", "preparedScene"} THEN Nobody
                                         ELSE IF h = "model" THEN ModelOf(found) ELSE held[h]
  BY AssetFacts DEF IsHolding, Holders, Nobody, ModelOf
<1>. HIDE DEF holders
<1>2. /\ DirectoriesOK(found.directories) /\ Grown(live, found.directories)
      /\ found.dirs \subseteq DOMAIN found.directories /\ ModelKept(found.directories, found)
  BY <1>0, AssetFacts, LoadedIsKept
<1>. HIDE DEF found
<1>3. LeasedDirs(holders) \subseteq DOMAIN found.directories
  <2>. SUFFICES ASSUME NEW h \in Holders PROVE holders[h].dirs \subseteq DOMAIN found.directories
    BY DEF LeasedDirs
  <2>. QED BY <1>1, <1>2, LeasesAreLive DEF Nobody, ModelOf, Grown
<1>4. holders["model"] = ModelOf(found) /\ holders["worker"] = held["worker"] /\ holders["workerScene"] = held["workerScene"]
      /\ holders["preparedScene"] = Nobody
  BY <1>1 DEF Holders
<1>5. ModelKept(found.directories, holders["model"])
  BY <1>2, <1>4 DEF ModelKept, ModelOf
<1>6. ModelKept(found.directories, holders["worker"])
  BY <1>2, <1>4, AssetFacts, ModelKeptGrows
<1>7. Kept(found.directories, holders["workerScene"].paths, holders["worker"].dirs)
  BY <1>2, <1>4, AssetFacts, KeptGrows
<1>8. Kept(found.directories, holders["preparedScene"].paths, holders["model"].dirs)
  BY <1>4, KeptOfNothing DEF Nobody
<1>9. IdleWorker' /\ ThrownFirst'
  <2>1. held' = holders /\ task' = task
    BY <1>0 DEF Released, LoadNow
  <2>. QED BY <1>4, <2>1, AssetFacts DEF IdleWorker, ThrownFirst
<1>10. ~(loadPhase' \in {"publish", "idle"} /\ shown' # Nothing)
  BY <1>0 DEF LoadNow, Built, Failed
<1>. QED BY <1>0, <1>1, <1>2, <1>3, <1>5, <1>6, <1>7, <1>8, <1>9, <1>10, ReleasedInv

\* A step that changes no file and no lease.
LEMMA UnchangedKeepsFiles ==
  ASSUME AssetInv, UNCHANGED assetVars, IdleWorker', ThrownFirst',
         loadPhase' \in {"publish", "idle"} /\ shown' # Nothing =>
           loadPhase \in {"publish", "idle"} /\ shown # Nothing
  PROVE AssetInv'
<1>1. live' = live /\ held' = held
  BY DEF assetVars
<1>2. HoldersOK' /\ LiveIsLeased' /\ DirectoriesOK(live')
  BY <1>1 DEF AssetInv, HoldersOK, LiveIsLeased
<1>3. ModelsKept' /\ ScenesKept'
  BY <1>1 DEF AssetInv, ModelsKept, ScenesKept
<1>. QED BY <1>2, <1>3 DEF AssetInv

\* The worker's model, and the images of the scene it compiles of it.
LEMMA PrepareKeepsFiles == ImportInv /\ AssetInv /\ PrepareAssets => AssetInv'
<1>. SUFFICES ASSUME ImportInv, AssetInv, PrepareAssets PROVE AssetInv' OBVIOUS
<1>0. /\ Prepare1 /\ task # Nothing /\ ~task.thrown /\ task \in Tasks /\ task.file \in Present
      /\ UNCHANGED <<loadPhase, shown>>
  BY DEF PrepareAssets, Prepare1, ImportInv, ImportTypeOK, Tasks
<1>1. CASE task'.thrown
  <2>1. task.progress = "geometry" /\ task' = [task EXCEPT !.thrown = TRUE]
    BY <1>0, <1>1 DEF Prepare1, Tasks
  <2>2. UNCHANGED assetVars
    BY <1>1, <2>1 DEF PrepareAssets
  <2>3. task'.progress = "geometry"
    BY <1>0, <2>1 DEF Tasks
  <2>4. IdleWorker' /\ ThrownFirst'
    BY <2>1, <2>2, <2>3, AssetFacts DEF assetVars, IdleWorker, ThrownFirst
  <2>. QED BY <1>0, <2>2, <2>4, UnchangedKeepsFiles
<1>2. CASE ~task'.thrown
  <2>1. task' = [task EXCEPT !.progress = NextProgress[task.progress]]
        /\ task.progress \in {"geometry", "mode", "control", "render"}
    BY <1>0, <1>2 DEF Prepare1, Tasks
  <2>2. task' # Nothing /\ task'.progress # "geometry"
    <3>1. task'.progress = NextProgress[task.progress]
      BY <1>0, <2>1 DEF Tasks
    <3>2. task'.progress \in {"mode", "control", "render", "complete"}
      BY <2>1, <3>1 DEF NextProgress
    <3>3. task' \in Tasks
      BY <1>0, <2>1, <3>1, <3>2 DEF Tasks
    <3>. QED BY <3>2, <3>3, NothingAssumption
  <2>3. IdleWorker' /\ ThrownFirst'
    BY <1>2, <2>2 DEF IdleWorker, ThrownFirst
  <2>4. CASE task.progress = "geometry"
    <3>. DEFINE found == Loaded(task.file)
                holders == [held EXCEPT !["worker"] = ModelOf(found)]
    <3>1. Released(found.directories, holders)
      BY <1>2, <2>4 DEF PrepareAssets
    <3>2. /\ IsHolding(holders)
          /\ \A h \in Holders : holders[h] = IF h = "worker" THEN ModelOf(found) ELSE held[h]
      BY AssetFacts DEF IsHolding, Holders, ModelOf
    <3>. HIDE DEF holders
    <3>3. /\ DirectoriesOK(found.directories) /\ Grown(live, found.directories)
          /\ found.dirs \subseteq DOMAIN found.directories /\ ModelKept(found.directories, found)
      BY <1>0, AssetFacts, LoadedIsKept
    <3>. HIDE DEF found
    <3>4. LeasedDirs(holders) \subseteq DOMAIN found.directories
      <4>. SUFFICES ASSUME NEW h \in Holders PROVE holders[h].dirs \subseteq DOMAIN found.directories
        BY DEF LeasedDirs
      <4>. QED BY <3>2, <3>3, LeasesAreLive DEF ModelOf, Grown
    <3>5. /\ holders["worker"] = ModelOf(found) /\ holders["workerScene"] = Nobody
          /\ \A h \in {"model", "preparedScene", "runtimeScene"} : holders[h] = held[h]
      BY <2>4, <3>2, AssetFacts DEF Holders, IdleWorker
    <3>6. ModelKept(found.directories, holders["worker"])
      BY <3>3, <3>5 DEF ModelKept, ModelOf
    <3>7. ModelKept(found.directories, holders["model"])
      BY <3>3, <3>5, AssetFacts, ModelKeptGrows
    <3>8. Kept(found.directories, holders["workerScene"].paths, holders["worker"].dirs)
      BY <3>5, KeptOfNothing DEF Nobody
    <3>9. Kept(found.directories, holders["preparedScene"].paths, holders["model"].dirs)
      BY <3>3, <3>5, AssetFacts, KeptGrows
    <3>10. loadPhase' \in {"publish", "idle"} /\ shown' # Nothing =>
             Kept(found.directories, holders["runtimeScene"].paths, holders["model"].dirs)
      BY <1>0, <3>3, <3>5, AssetFacts, KeptGrows
    <3>. QED BY <2>3, <3>1, <3>2, <3>3, <3>4, <3>6, <3>7, <3>8, <3>9, <3>10, ReleasedInv
  <2>5. CASE task.progress = "mode"
    <3>. DEFINE found == Catalogued(Start, held["worker"].paths, CompiledGdtfs[task.file])
                holders == [held EXCEPT !["workerScene"] = SceneOfMedia(found)]
    <3>1. Released(found.directories, holders)
      BY <1>2, <2>5 DEF PrepareAssets
    <3>2. /\ IsHolding(holders)
          /\ \A h \in Holders : holders[h] = IF h = "workerScene" THEN SceneOfMedia(found) ELSE held[h]
      BY AssetFacts DEF IsHolding, Holders, SceneOfMedia
    <3>. HIDE DEF holders
    <3>3. /\ DirectoriesOK(found.directories) /\ Grown(live, found.directories)
          /\ Kept(found.directories, found.paths, held["worker"].dirs)
      <4>1. CompiledGdtfs[task.file] \in SUBSET Gdtfs
        BY <1>0, ArchiveAssumption
      <4>2. held["worker"].dirs \subseteq DOMAIN live
        BY LeasesAreLive DEF Holders
      <4>3. Start.directories = live /\ Start.paths = {} /\ Start.dirs = {}
        BY DEF Start
      <4>. QED BY <4>1, <4>2, <4>3, AssetFacts, CataloguedIsKept
    <3>. HIDE DEF found
    <3>4. LeasedDirs(holders) \subseteq DOMAIN found.directories
      <4>. SUFFICES ASSUME NEW h \in Holders PROVE holders[h].dirs \subseteq DOMAIN found.directories
        BY DEF LeasedDirs
      <4>. QED BY <3>2, <3>3, LeasesAreLive DEF SceneOfMedia, Grown
    <3>5. /\ holders["workerScene"] = SceneOfMedia(found)
          /\ \A h \in {"worker", "model", "preparedScene", "runtimeScene"} : holders[h] = held[h]
      BY <3>2 DEF Holders
    <3>6. ModelKept(found.directories, holders["worker"]) /\ ModelKept(found.directories, holders["model"])
      BY <3>3, <3>5, AssetFacts, ModelKeptGrows
    <3>7. Kept(found.directories, holders["workerScene"].paths, holders["worker"].dirs)
      BY <3>3, <3>5 DEF SceneOfMedia
    <3>8. Kept(found.directories, holders["preparedScene"].paths, holders["model"].dirs)
      BY <3>3, <3>5, AssetFacts, KeptGrows
    <3>9. loadPhase' \in {"publish", "idle"} /\ shown' # Nothing =>
             Kept(found.directories, holders["runtimeScene"].paths, holders["model"].dirs)
      BY <1>0, <3>3, <3>5, AssetFacts, KeptGrows
    <3>. QED BY <2>3, <3>1, <3>2, <3>3, <3>4, <3>6, <3>7, <3>8, <3>9, ReleasedInv
  <2>6. CASE task.progress \in {"control", "render"}
    <3>1. UNCHANGED assetVars
      BY <1>2, <2>6 DEF PrepareAssets
    <3>. QED BY <1>0, <2>3, <3>1, UnchangedKeepsFiles
  <2>. QED BY <2>1, <2>4, <2>5, <2>6
<1>. QED BY <1>1, <1>2

\* The result of the worker takes the place of the model with its leases.
LEMMA FinishKeepsFiles == ImportInv /\ AssetInv /\ FinishAssets => AssetInv'
<1>. SUFFICES ASSUME ImportInv, AssetInv, FinishAssets PROVE AssetInv' OBVIOUS
<1>0. Finish /\ task' = Nothing /\ task # Nothing /\ ~(loadPhase' \in {"publish", "idle"} /\ shown' # Nothing)
  BY DEF FinishAssets, Finish, Ready, Built, Failed
<1>1. CASE task.thrown
  <2>1. UNCHANGED assetVars
    BY <1>1 DEF FinishAssets
  <2>2. held["worker"] = Nobody /\ held["workerScene"] = Nobody
    BY <1>0, <1>1, AssetFacts DEF IdleWorker, ThrownFirst
  <2>3. IdleWorker' /\ ThrownFirst'
    BY <1>0, <2>1, <2>2 DEF assetVars, IdleWorker, ThrownFirst
  <2>. QED BY <1>0, <2>1, <2>3, UnchangedKeepsFiles
<1>2. CASE ~task.thrown
  <2>. DEFINE holders == [held EXCEPT !["model"] = held["worker"], !["preparedScene"] = held["workerScene"],
                                      !["worker"] = Nobody, !["workerScene"] = Nobody]
  <2>1. Released(live, holders)
    BY <1>2 DEF FinishAssets
  <2>2. DOMAIN held = Holders /\ held["worker"] = [dirs |-> held["worker"].dirs, paths |-> held["worker"].paths]
        /\ held["workerScene"] = [dirs |-> held["workerScene"].dirs, paths |-> held["workerScene"].paths]
    BY AssetFacts DEF IsHolding, Holders
  <2>3. \A h \in Holders : holders[h] = IF h \in {"worker", "workerScene"} THEN Nobody
                                        ELSE IF h = "model" THEN held["worker"]
                                        ELSE IF h = "preparedScene" THEN held["workerScene"] ELSE held[h]
    BY <2>2 DEF Holders
  <2>4. IsHolding(holders)
    <3>1. \A h \in Holders : holders[h] = [dirs |-> holders[h].dirs, paths |-> holders[h].paths]
      BY <2>2, <2>3, AssetFacts DEF IsHolding, Nobody
    <3>2. holders = [h \in Holders |-> holders[h]]
      BY <2>2
    <3>. HIDE DEF holders
    <3>. QED BY <3>1, <3>2 DEF IsHolding
  <2>. HIDE DEF holders
  <2>5. LeasedDirs(holders) \subseteq DOMAIN live
    <3>. SUFFICES ASSUME NEW h \in Holders PROVE holders[h].dirs \subseteq DOMAIN live
      BY DEF LeasedDirs
    <3>1. held["worker"].dirs \subseteq DOMAIN live /\ held["workerScene"].dirs \subseteq DOMAIN live
          /\ held[h].dirs \subseteq DOMAIN live
      BY LeasesAreLive DEF Holders
    <3>. QED BY <2>3, <3>1 DEF Nobody
  <2>6. /\ holders["model"] = held["worker"] /\ holders["preparedScene"] = held["workerScene"]
        /\ holders["worker"] = Nobody /\ holders["workerScene"] = Nobody
    BY <2>3 DEF Holders
  <2>7. IdleWorker' /\ ThrownFirst'
    BY <1>0, <2>1, <2>6 DEF Released, IdleWorker, ThrownFirst
  <2>8. ModelKept(live, holders["model"]) /\ ModelKept(live, holders["worker"])
        /\ Kept(live, holders["preparedScene"].paths, holders["model"].dirs)
    BY <2>6, AssetFacts, KeptOfNothing
  <2>9. Kept(live, holders["workerScene"].paths, holders["worker"].dirs)
    BY <2>6, KeptOfNothing DEF Nobody
  <2>. QED BY <1>0, <2>1, <2>4, <2>5, <2>7, <2>8, <2>9, AssetFacts, ReleasedInv
<1>. QED BY <1>1, <1>2

\* A rebuild reads the model that the loader has; the images of the scene it
\* installs are kept by that model, prepared or not.
LEMMA RebuildKeepsFiles == ImportInv /\ AssetInv /\ RebuildAssets => AssetInv'
<1>. SUFFICES ASSUME ImportInv, AssetInv, RebuildAssets PROVE AssetInv' OBVIOUS
<1>. DEFINE Of(gdtfs) == IF lastModel = Nothing THEN {} ELSE gdtfs[lastModel]
            bindings == Catalogued(Start, held["model"].paths, Of(BoundGdtfs))
            start == [bindings EXCEPT !.paths = {}]
            compiled == Catalogued(start, held["model"].paths, Of(CompiledGdtfs))
            reused == IF prepared = Nothing THEN FALSE ELSE prepared.offset = universeOffset'
            scene == IF reused THEN held["preparedScene"] ELSE SceneOfMedia(compiled)
            directories == IF reused THEN bindings.directories ELSE compiled.directories
            holders == [held EXCEPT !["bindings"] = [dirs |-> held["bindings"].dirs \cup bindings.dirs, paths |-> {}],
                                    !["runtimeScene"] = IF runtime' = Nothing THEN Nobody ELSE scene]
<1>0. Released(directories, holders) /\ task' = task
  BY DEF RebuildAssets, Bind, BindRefused, SetOffset
<1>1. Of(BoundGdtfs) \in SUBSET Gdtfs /\ Of(CompiledGdtfs) \in SUBSET Gdtfs
  BY ArchiveAssumption DEF ImportInv, ImportTypeOK
<1>2. held["model"].dirs \subseteq DOMAIN live
  BY LeasesAreLive DEF Holders
<1>3. bindings = [directories |-> bindings.directories, dirs |-> bindings.dirs, paths |-> bindings.paths]
  BY DEF Catalogued, Opened
<1>. HIDE DEF Of
<1>4. /\ DirectoriesOK(bindings.directories) /\ Grown(live, bindings.directories)
      /\ bindings.dirs \subseteq DOMAIN bindings.directories
  <2>1. Start.directories = live /\ Start.paths = {} /\ Start.dirs = {}
    BY DEF Start
  <2>. QED BY <1>1, <1>2, <2>1, AssetFacts, CataloguedIsKept
<1>. HIDE DEF bindings
<1>5. start.directories = bindings.directories /\ start.paths = {} /\ start.dirs = bindings.dirs
  BY <1>3
<1>. HIDE DEF start
<1>6. ModelKept(bindings.directories, held["model"]) /\ held["model"].dirs \subseteq DOMAIN bindings.directories
  BY <1>2, <1>4, AssetFacts, ModelKeptGrows DEF Grown
<1>7. /\ DirectoriesOK(compiled.directories) /\ Grown(bindings.directories, compiled.directories)
      /\ Kept(compiled.directories, compiled.paths, held["model"].dirs)
  BY <1>1, <1>4, <1>5, <1>6, CataloguedIsKept
<1>. HIDE DEF compiled, reused
<1>8. /\ DirectoriesOK(directories) /\ Grown(live, directories) /\ bindings.dirs \subseteq DOMAIN directories
  BY <1>4, <1>7 DEF Grown
<1>9. Kept(directories, scene.paths, held["model"].dirs)
  <2>1. CASE reused
    BY <2>1, <1>4, AssetFacts, KeptGrows
  <2>2. CASE ~reused
    BY <2>2, <1>7 DEF SceneOfMedia
  <2>. QED BY <2>1, <2>2
<1>10. scene.dirs \subseteq DOMAIN directories /\ scene = [dirs |-> scene.dirs, paths |-> scene.paths]
  <2>1. /\ held["preparedScene"].dirs \subseteq DOMAIN live
        /\ held["preparedScene"] = [dirs |-> held["preparedScene"].dirs, paths |-> held["preparedScene"].paths]
    BY AssetFacts, LeasesAreLive DEF IsHolding, Holders
  <2>. QED BY <1>8, <2>1 DEF SceneOfMedia, Grown
<1>. HIDE DEF scene, directories
<1>11. /\ IsHolding(holders)
       /\ \A h \in Holders :
            holders[h] = IF h = "bindings" THEN [dirs |-> held["bindings"].dirs \cup bindings.dirs, paths |-> {}]
                         ELSE IF h = "runtimeScene" THEN (IF runtime' = Nothing THEN Nobody ELSE scene) ELSE held[h]
  BY <1>10, AssetFacts DEF IsHolding, Holders, Nobody
<1>. HIDE DEF holders
<1>12. LeasedDirs(holders) \subseteq DOMAIN directories
  <2>. SUFFICES ASSUME NEW h \in Holders PROVE holders[h].dirs \subseteq DOMAIN directories
    BY DEF LeasedDirs
  <2>1. held["bindings"].dirs \subseteq DOMAIN live /\ held[h].dirs \subseteq DOMAIN live
    BY LeasesAreLive DEF Holders
  <2>. QED BY <1>8, <1>10, <1>11, <2>1 DEF Nobody, Grown
<1>13. /\ \A h \in {"model", "worker", "workerScene", "preparedScene"} : holders[h] = held[h]
       /\ holders["runtimeScene"] = IF runtime' = Nothing THEN Nobody ELSE scene
  BY <1>11 DEF Holders
<1>14. ModelKept(directories, holders["model"]) /\ ModelKept(directories, holders["worker"])
  BY <1>8, <1>13, AssetFacts, ModelKeptGrows
<1>15. /\ Kept(directories, holders["workerScene"].paths, holders["worker"].dirs)
       /\ Kept(directories, holders["preparedScene"].paths, holders["model"].dirs)
  BY <1>8, <1>13, AssetFacts, KeptGrows
<1>16. Kept(directories, holders["runtimeScene"].paths, holders["model"].dirs)
  BY <1>9, <1>13, KeptOfNothing DEF Nobody
<1>17. IdleWorker' /\ ThrownFirst'
  BY <1>0, <1>13, AssetFacts DEF Released, IdleWorker, ThrownFirst
<1>. QED BY <1>0, <1>8, <1>11, <1>12, <1>14, <1>15, <1>16, <1>17, ReleasedInv

LEMMA OthersKeepFiles == ImportInv /\ AssetInv /\ OtherSteps => AssetInv'
<1>. SUFFICES ASSUME ImportInv, AssetInv, OtherSteps PROVE AssetInv' OBVIOUS
<1>1. UNCHANGED assetVars /\ task' = task
  BY DEF OtherSteps, Load, RestoreOffset, NoFile, Publish, NotRendered
<1>2. IdleWorker' /\ ThrownFirst'
  BY <1>1, AssetFacts DEF assetVars, IdleWorker, ThrownFirst
<1>3. loadPhase' \in {"publish", "idle"} /\ shown' # Nothing => loadPhase \in {"publish", "idle"} /\ shown # Nothing
  BY DEF OtherSteps, Load, RestoreOffset, NoFile, Publish, NotRendered, Failed
<1>. QED BY <1>1, <1>2, <1>3, UnchangedKeepsFiles

LEMMA AssetStepIsStep == AssetNext => Next
BY DEF AssetNext, BeginAssets, LoadNowAssets, PrepareAssets, FinishAssets, RebuildAssets, OtherSteps, Next, Loading

LEMMA StepAssetInv == ImportInv /\ AssetInv /\ [AssetNext]_<<vars, assetVars>> => AssetInv'
<1>. SUFFICES ASSUME ImportInv, AssetInv, [AssetNext]_<<vars, assetVars>> PROVE AssetInv' OBVIOUS
<1>1. CASE AssetNext
  BY <1>1, BeginKeepsFiles, LoadNowKeepsFiles, PrepareKeepsFiles, FinishKeepsFiles, RebuildKeepsFiles, OthersKeepFiles
  DEF AssetNext
<1>2. CASE UNCHANGED <<vars, assetVars>>
  <2>1. UNCHANGED assetVars /\ IdleWorker' /\ ThrownFirst' /\ loadPhase' = loadPhase /\ shown' = shown
    BY <1>2, AssetFacts DEF vars, assetVars, IdleWorker, ThrownFirst
  <2>. QED BY <2>1, UnchangedKeepsFiles
<1>. QED BY <1>1, <1>2

\* A session with its files loads as one without does, and as fairly: whatever
\* is opened and released, every step is one of the loads or none
\* (mvr_scene_loader.cpp, scene_import_coordinator.gd).
THEOREM AssetsFollowLoads == AssetSpec => Spec
<1>1. AssetInit => Init
  BY DEF AssetInit
<1>2. [AssetNext]_<<vars, assetVars>> => [Next]_vars
  BY AssetStepIsStep DEF vars
<1>. QED BY <1>1, <1>2, PTL DEF AssetSpec, Spec

THEOREM AssetInvariant == AssetSpec => []AssetInv
<1>. QED BY InitAssetInv, StepAssetInv, AssetsFollowLoads, ImportInvariant, PTL DEF AssetSpec

\* A path that was handed out is the entry's whose file it names, since no
\* other entry is extracted to that file (ensure_extracted).
LEMMA HandedIsSound == ASSUME DirectoriesOK(live), NEW p, Handed(live, p) PROVE Sound(p)
<1>1. p.dir \in DOMAIN live /\ p.file \in DOMAIN live[p.dir]
  BY DEF Handed
<1>2. PICK e \in ExtractableOf(p.dir.content) : p = PathTo(p.dir, e)
  BY DEF Handed
<1>3. PICK other \in ExtractableOf(p.dir.content) : p.file = OutputFile(other.path) /\ live[p.dir][p.file] = other.path
  BY <1>1 DEF DirectoriesOK, RightFiles
<1>4. p.file = OutputFile(e.path) /\ p.entry = e.path
  BY <1>2 DEF PathTo
<1>5. other = e
  BY <1>3, <1>4 DEF ExtractableOf, Entries, Extractable
<1>. QED BY <1>1, <1>3, <1>4, <1>5 DEF Sound, Available

\* The files of a shown scene are there and are the ones their paths were
\* handed out for, whatever else is loaded, fails or is rebuilt (retain,
\* acquire_session_cache_directory, ensure_extracted).
THEOREM FilesAreAvailable == AssetSpec => []AssetsAvailable
<1>1. AssetInv => AssetsAvailable
  <2>. SUFFICES ASSUME AssetInv PROVE AssetsAvailable OBVIOUS
  <2>1. \A p \in held["model"].paths : Handed(live, p)
    BY AssetFacts DEF ModelKept, Kept
  <2>2. loadPhase = "idle" /\ shown # Nothing => \A p \in held["runtimeScene"].paths : Handed(live, p)
    BY AssetFacts DEF Kept
  <2>. QED BY <2>1, <2>2, AssetFacts, HandedIsSound DEF AssetsAvailable
<1>. QED BY <1>1, AssetInvariant, PTL

=============================================================================
