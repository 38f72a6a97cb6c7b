---------------------------- MODULE ModelCatalog ----------------------------
(***************************************************************************)
(* core::ModelCatalog: manifests are added one by one or read from the     *)
(* files of a directory, which the user edits meanwhile.  load_directory() *)
(* refuses a path that is no directory, takes the entries in whatever      *)
(* order the system lists them, skips what is no manifest file and stops   *)
(* at the first that fails; what it added until then stays.                *)
(***************************************************************************)
EXTENDS ModelManifest, FiniteSets

CONSTANTS Names,            \* of directory entries
          Files,            \* what an entry may be
          Offered,          \* manifests a caller may add
          Directory         \* its path, from which relative paths are taken

\* An entry is a manifest file if it is regular and has the extension; a file that
\* vanishes between that test and its opening is one that does not open.
ASSUME CatalogAssumption ==
    /\ IsFiniteSet(Names)
    /\ \A file \in Files : {file.manifest, file.opens} \subseteq BOOLEAN
    /\ \A file \in Files : file.opens => IsText(file.text)
    /\ \A m \in Offered : DOMAIN m = Keys

VARIABLES models,     \* models_
          exists,     \* whether there is a directory at the path
          files,      \* its entries by name
          listing,    \* names that load_directory() has still to see
          result,     \* of the last load: "loading", "ok", "failed" or "thrown",
                      \* "none" before the first and once a caller added a model
          before,     \* history: models when the last load began
          edited      \* history: the directory was edited since then

vars == <<models, exists, files, listing, result, before, edited>>

NoFile == [manifest |-> FALSE, opens |-> FALSE, text |-> <<>>]

Init ==
    /\ models = <<>>
    /\ exists \in BOOLEAN
    /\ files \in [Names -> IF exists THEN Files \cup {NoFile} ELSE {NoFile}]
    /\ listing = {} /\ result = "none"
    /\ before = <<>> /\ edited = FALSE

\* find(): the first model of that id.
Find(id) ==
    LET first == SelectInSeq(models, LAMBDA m : m.id = id)
    IN  IF first # 0 THEN models[first] ELSE [id |-> ""]

\* Mutant: add() does not look for the id.
AddsDuplicates(m) == Validate(m) = "none"

\* add() accepts a valid model under an id of its own.
Adds(m) == Validate(m) = "none" /\ Find(m.id).id # m.id

-----------------------------------------------------------------------------

Add ==
    /\ result # "loading"
    /\ \E m \in Offered :
          /\ result' = IF Adds(m) THEN "none" ELSE result
          /\ models' = IF Adds(m) THEN Append(models, m) ELSE models
    /\ UNCHANGED <<exists, files, listing, before, edited>>

\* Without a directory the call ends at once.
LoadBegin ==
    /\ result # "loading"
    /\ result' = IF exists THEN "loading" ELSE "failed"
    /\ listing' = IF exists THEN {name \in Names : files[name] # NoFile} ELSE {}
    /\ before' = models /\ edited' = FALSE
    /\ UNCHANGED <<models, exists, files>>

\* Mutant: a file that fails is passed over.
LoadEntryLeniently(name) ==
    LET file == files[name]
        loaded == LoadFile(file, Directory)
    IN  /\ IF file.manifest /\ ~Failed(loaded) /\ Adds(loaded.manifest)
           THEN models' = Append(models, loaded.manifest) ELSE UNCHANGED models
        /\ listing' = listing \ {name} /\ UNCHANGED result

\* One turn of the loop.  An entry that is gone since it was listed may count as a
\* manifest file still, which then does not open.
LoadEntry(name) ==
    LET file == files[name]
        loaded == LoadFile(file, Directory)
    IN  \/ /\ ~file.manifest
           /\ listing' = listing \ {name} /\ UNCHANGED <<models, result>>
        \/ /\ file.manifest /\ ~Failed(loaded) /\ Adds(loaded.manifest)
           /\ models' = Append(models, loaded.manifest)
           /\ listing' = listing \ {name} /\ UNCHANGED result
        \/ /\ file = NoFile \/ (file.manifest /\ (Failed(loaded) \/ ~Adds(loaded.manifest)))
           /\ result' = "failed"
           /\ listing' = {} /\ UNCHANGED models

LoadStep ==
    /\ result = "loading"
    /\ \E name \in listing : LoadEntry(name)
    /\ UNCHANGED <<exists, files, before, edited>>

LoadEnd ==
    /\ result = "loading" /\ listing = {}
    /\ result' = "ok"
    /\ UNCHANGED <<models, exists, files, listing, before, edited>>

\* Reading the directory throws, and nothing catches it.
LoadThrows ==
    /\ result = "loading"
    /\ result' = "thrown" /\ listing' = {}
    /\ UNCHANGED <<models, exists, files, before, edited>>

\* The user creates, changes or removes a file.  A file created during a load is
\* listed or not.
Edit ==
    /\ exists /\ edited' = TRUE
    /\ \E name \in Names, file \in Files \cup {NoFile} :
          /\ file # files[name]
          /\ files' = [files EXCEPT ![name] = file]
          /\ listing' \in {listing} \cup
                IF result = "loading" /\ files[name] = NoFile
                THEN {listing \cup {name}} ELSE {}
    /\ UNCHANGED <<models, exists, result, before>>

\* The user removes the directory with all its files, or creates it empty.
EditDirectory ==
    /\ exists' = ~exists /\ edited' = TRUE
    /\ files' = [name \in Names |-> NoFile]
    /\ UNCHANGED <<models, listing, result, before>>

Next == Add \/ LoadBegin \/ LoadStep \/ LoadEnd \/ LoadThrows \/ Edit \/ EditDirectory

Spec == Init /\ [][Next]_vars

-----------------------------------------------------------------------------

\* Whatever fails, every model of the catalog is valid and the only one of its id:
\* find() cannot hide one model behind another.
CatalogSound ==
    \A i \in DOMAIN models :
        /\ Validate(models[i]) = "none"
        /\ \A j \in DOMAIN models : models[i].id = models[j].id => i = j

ManifestFiles == {name \in Names : files[name].manifest}

Described(name) == LoadFile(files[name], Directory).manifest

\* The directory is there and its files can be added to a catalog, in any order.
Loadable(catalog) ==
    /\ exists
    /\ \A name \in ManifestFiles : ~Failed(LoadFile(files[name], Directory))
    /\ \A name \in ManifestFiles :
          /\ \A i \in DOMAIN catalog : catalog[i].id # Described(name).id
          /\ \A other \in ManifestFiles \ {name} : Described(other).id # Described(name).id

\* A load of a directory nobody touches succeeds exactly when it is there and all its
\* files fit into the catalog as it was, whatever the order; each is there once then.
\* So after a load that failed half-way no other succeeds: it meets the models the
\* first kept.
LoadFaithful ==
    LET added == SubSeq(models, Len(before) + 1, Len(models)) IN
    ~edited /\ result \in {"ok", "failed"} =>
        /\ before = SubSeq(models, 1, Len(before))
        /\ result = "ok" <=> Loadable(before)
        /\ result = "ok" => /\ Len(added) = Cardinality(ManifestFiles)
                            /\ {Described(name) : name \in ManifestFiles} = ToSet(added)
        /\ ToSet(added) \subseteq {Described(name) : name \in ManifestFiles}
        /\ result = "failed" /\ added # <<>> => ~Loadable(models)
=============================================================================
