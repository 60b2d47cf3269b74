---------------------------- MODULE AssetArchive ----------------------------
(***************************************************************************)
(* What is found and extracted in an MVR or GDTF archive                   *)
(* (native/src/archive/zip_archive.cpp, asset_cache.cpp,                   *)
(* dmx/gdtf_gobo_catalog.cpp): pure operators, no state.                   *)
(*                                                                         *)
(* A path is its folders, its stem, its extension (None without one) and   *)
(* its spelling: "capital" where letters are upper case, "odd" where there *)
(* is a character the file system does not take.  A reference is such a    *)
(* path, as it is once normalized, None if it leaves the archive.  The     *)
(* entries of an archive are a sequence ordered by name, and its index     *)
(* keeps them at their places; an entry may be unreadable, and holds an    *)
(* archive of its own where it is a GDTF file.  What is found is a set of  *)
(* entries.  An extension is one of the formats that are known; blanks and *)
(* directory entries are left out.                                         *)
(***************************************************************************)
EXTENDS SceneEvaluation, FiniteSets

CONSTANTS Archives,  \* content -> what is stored and what is referred to
          Detail     \* model_detail_: "default", "low" or "high"

File(folder, stem, ext) == [folder |-> folder, stem |-> stem, ext |-> ext, spelling |-> "plain"]
Folded(path) == [path EXCEPT !.spelling = IF @ = "capital" THEN "plain" ELSE @]
\* The file a path is extracted to, on a file system that ignores case.
OutputFile(path) == [path EXCEPT !.spelling = "plain"]

\* build_index: entries that differ in their case only are all dropped.
Index(entries) ==
  Where(entries, LAMBDA e : Cardinality({i \in DOMAIN entries : Folded(entries[i].path) = Folded(e.path)}) = 1)

---------------------------------------------------------------------------
(* One reference.                                                          *)

Basename(path) == [Folded(path) EXCEPT !.folder = <<>>]
\* resolve_entry: the entry of that path, else of that path in another case,
\* else, where the caller falls back on it, those of that name in any folder.
Resolved(index, reference, fallback) ==
  LET exact == {e \in Range(index) : e.path = reference}
      folded == {e \in Range(index) : Folded(e.path) = Folded(reference)}
      named == {e \in Range(index) : Basename(e.path) = Basename(reference)}
  IN IF reference = None THEN {}
     ELSE IF exact # {} THEN exact
     ELSE IF folded # {} \/ ~fallback THEN folded ELSE named

\* ensure_extracted: nothing is extracted to a file that another entry of the
\* archive could be extracted to.
Extractable(index, e) ==
  /\ \A other \in Range(index) : other # e => OutputFile(other.path) # OutputFile(e.path)
  /\ e.readable

\* The one entry of a reference if it can be extracted; none if there are
\* several.
Ensured(index, reference, fallback) ==
  LET found == Resolved(index, reference, fallback)
  IN IF Cardinality(found) = 1 THEN {e \in found : Extractable(index, e)} ELSE {}

\* ensure_gdtf_spec_extracted
GdtfSpec(index, spec) ==
  Ensured(index, IF spec = None THEN None ELSE [spec EXCEPT !.ext = IF @ = None THEN "gdtf" ELSE @], TRUE)

---------------------------------------------------------------------------
(* Models.                                                                 *)

Formats == <<"3ds", "glb", "gltf", "obj", "dae", "fbx", "stl">>
Companions == {"png", "jpg", "jpeg", "bmp", "tga", "gif", "webp", "hdr", "dds", "ktx2", "mtl", "bin"}
Formatted(reference) == [i \in DOMAIN Formats |-> [reference EXCEPT !.ext = Formats[i]]]
Tiers == [default |-> <<"default", "low", "high">>, low |-> <<"low", "default", "high">>,
          high |-> <<"high", "default", "low">>]
\* The standard folders of a GDTF, 3DS before glTF in each tier.
StandardFolders(detail) ==
  FlattenSeq([i \in DOMAIN Tiers[detail] |-> <<[folder |-> <<"models", "3ds", Tiers[detail][i]>>, ext |-> "3ds"],
                                               [folder |-> <<"models", "gltf", Tiers[detail][i]>>, ext |-> "glb"]>>])
\* The paths that are tried for the model of a GDTF and of an MVR.
GdtfCandidates(reference) ==
  LET folders == SelectSeq(StandardFolders(Detail), LAMBDA f : reference.ext \in {None, f.ext})
      standard == [i \in DOMAIN folders |-> [reference EXCEPT !.folder = folders[i].folder, !.ext = folders[i].ext]]
  IN (IF reference.ext # None THEN <<reference>> ELSE <<>>)
     \o (IF reference.folder = <<>> THEN standard ELSE <<>>)
     \o (IF reference.ext = None THEN Formatted(reference) ELSE <<>>)
MvrCandidates(reference) == IF reference.ext # None THEN <<reference>> ELSE Formatted(reference)

\* Every candidate is tried as a path before any is tried by its name; the
\* first that names entries decides. A GDTF reference with folders is a path
\* only.
ModelEntry(index, candidates, path) ==
  LET tries == [i \in DOMAIN candidates |-> [reference |-> candidates[i], fallback |-> FALSE]]
               \o IF path THEN <<>> ELSE [i \in DOMAIN candidates |-> [reference |-> candidates[i], fallback |-> TRUE]]
      hits == SelectSeq(tries, LAMBDA t : Resolved(index, t.reference, t.fallback) # {})
  IN IF hits = <<>> THEN {} ELSE Ensured(index, hits[1].reference, hits[1].fallback)
GdtfModel(index, reference) ==
  IF reference = None THEN {} ELSE ModelEntry(index, GdtfCandidates(reference), reference.folder # <<>>)
MvrModel(index, reference) ==
  IF reference = None THEN {} ELSE ModelEntry(index, MvrCandidates(reference), FALSE)

\* extract_model_dependencies: what lies beside a model or below it, in the
\* root only what lies beside it.
Beside(model, path) ==
  IF model.folder = <<>> THEN path.folder = <<>> ELSE IsPrefix(model.folder, path.folder)
Dependencies(index, model) ==
  {e \in Range(index) : Beside(model.path, e.path) /\ e.path.ext \in Companions /\ Extractable(index, e)}
WithDependencies(index, models) == models \cup UNION {Dependencies(index, model) : model \in models}

---------------------------------------------------------------------------
(* Gobo media.                                                             *)

Images == {"png", "jpg", "jpeg"}
Wheels(reference, ext) ==
  [reference EXCEPT !.folder = <<"wheels">> \o @, !.ext = ext]
WheelImages(reference, ext) ==
  [reference EXCEPT !.folder = <<"wheels", "images">> \o @, !.ext = ext]
MediaCandidates(reference) ==
  <<reference, Wheels(reference, reference.ext), WheelImages(reference, reference.ext)>>
  \o IF reference.ext # None THEN <<>>
     ELSE <<Wheels(reference, "png"), Wheels(reference, "jpg"), Wheels(reference, "jpeg"),
            WheelImages(reference, "png"), WheelImages(reference, "jpg"), WheelImages(reference, "jpeg")>>
\* find_archive_media_by_stem: any image of that stem, one in wheels first.
Stem(path) == [Basename(path) EXCEPT !.ext = None]
MediaByStem(index, reference) ==
  LET images == Where(index, LAMBDA e : e.path.ext \in Images /\ Stem(e.path) = Stem(reference))
      inWheels == Where(images, LAMBDA e : "wheels" \in Range(e.path.folder))
      chosen == IF inWheels # <<>> THEN inWheels ELSE images
  IN IF chosen = <<>> THEN {} ELSE Ensured(index, chosen[Min(DOMAIN chosen)].path, FALSE)
\* ensure_gobo_media_extracted
MediaEntry(index, reference) ==
  LET direct == SelectSeq(MediaCandidates(reference), LAMBDA c : Ensured(index, c, FALSE) # {})
  IN IF direct # <<>> THEN Ensured(index, direct[1], FALSE) ELSE MediaByStem(index, reference)

---------------------------------------------------------------------------
(* Whole archives: what is extracted (files) and what is handed out.       *)

\* Of an MVR: its GDTF files, its models and what belongs to them.
MvrAssets(archive) ==
  LET index == Index(archive.entries)
      specs == UNION {GdtfSpec(index, spec) : spec \in Range(archive.specs)}
      models == UNION {MvrModel(index, model) : model \in Range(archive.models)}
  IN [files |-> specs \cup WithDependencies(index, models), handed |-> specs \cup models]
\* Of a GDTF by its geometry: the description, and the models if there is one.
GeometryAssets(archive) ==
  LET index == Index(archive.entries)
      description == Ensured(index, File(<<>>, "description", "xml"), TRUE)
      models == IF description = {} THEN {} ELSE UNION {GdtfModel(index, model) : model \in Range(archive.models)}
  IN [files |-> description \cup WithDependencies(index, models), handed |-> models]
\* Of a GDTF by its wheels.
MediaAssets(archive) ==
  LET index == Index(archive.entries)
      media == UNION {MediaEntry(index, image) : image \in Range(archive.media)}
  IN [files |-> media, handed |-> media]
=============================================================================
