---------------------------- MODULE ModelManifest ----------------------------
(***************************************************************************)
(* core::ModelManifest: how a manifest file becomes a manifest.  A text is *)
(* a sequence of lines; a line is blank (or a comment), plain (it has no   *)
(* '='), or an entry with a key, a value, and whether the value can be     *)
(* read as what the key asks for.  A number is in tenths or not finite:    *)
(* the parser reads "nan" and "inf".  A path is a directory and a name,    *)
(* relative when the directory is empty, absent when the name is.          *)
(***************************************************************************)
EXTENDS Integers, Sequences, SequencesExt

Tenths(n) == [finite |-> TRUE, tenths |-> n]
NotFinite == [finite |-> FALSE, tenths |-> 0]

Path(directory, name) == [directory |-> directory, name |-> name]
NoPath == Path("", "")

\* The members of the struct and their initial values; the names of tensors are
\* reduced to how many there are.
Default == [id |-> "", kind |-> "upscaler", precision |-> "fp16", input_layout |-> "nchw",
            model_path |-> NoPath, engine_path |-> NoPath,
            input_names |-> 0, output_names |-> 0, license |-> "",
            native_scale |-> Tenths(10), min_scale |-> Tenths(10), max_scale |-> Tenths(10),
            arbitrary_timestep |-> FALSE, fixed_shape |-> <<>>]

Keys == DOMAIN Default

\* Mutant: without its first test the range check lets nan through, for which
\* every comparison is false.
InRangeUnlessNan(m) ==
    m.native_scale.finite /\ m.min_scale.finite /\ m.max_scale.finite =>
        /\ m.native_scale.tenths > 0 /\ m.min_scale.tenths > 0
        /\ m.native_scale.tenths \in m.min_scale.tenths .. m.max_scale.tenths

InRange(m) ==
    /\ m.native_scale.finite /\ m.min_scale.finite /\ m.max_scale.finite
    /\ m.native_scale.tenths > 0 /\ m.min_scale.tenths > 0
    /\ m.native_scale.tenths \in m.min_scale.tenths .. m.max_scale.tenths

\* validate(): the first thing that is wrong, or "none".
Validate(m) ==
    CASE m.id = "" -> "id"
      [] m.id # "" /\ m.model_path = NoPath -> "path"
      [] m.id # "" /\ m.model_path # NoPath /\ ~InRange(m) -> "range"
      [] OTHER ->
            IF /\ m.kind = "interpolator" /\ ~m.arbitrary_timestep
               /\ m.native_scale.tenths # 10
            THEN "interpolator" ELSE "none"

-----------------------------------------------------------------------------

\* What a line of a text may be.
IsPath(path) == path = Path(path.directory, path.name) /\ (path.name = "" => path = NoPath)

IsLine(line) ==
    /\ line.what \in {"blank", "plain", "entry"}
    /\ line.what = "entry" =>
          /\ line.reads \in BOOLEAN
          /\ line.reads /\ line.key \in {"model_path", "engine_path"} => IsPath(line.value)

IsText(text) ==
    text \in Seq({text[i] : i \in DOMAIN text}) /\ \A i \in DOMAIN text : IsLine(text[i])

\* A manifest that was read so far, or the error that ended the reading.
Reading(manifest, error) == [manifest |-> manifest, error |-> error]
Failed(reading) == reading.error # "none"

\* Mutant: a fixed shape replaces the ones before it.
SetShape(manifest, entry) ==
    [manifest EXCEPT ![entry.key] =
        IF entry.key = "fixed_shape" THEN <<entry.value>> ELSE entry.value]

\* An entry sets its member, but fixed shapes pile up.
Set(manifest, entry) ==
    IF entry.key = "fixed_shape"
    THEN [manifest EXCEPT !.fixed_shape = Append(@, entry.value)]
    ELSE [manifest EXCEPT ![entry.key] = entry.value]

ReadLine(reading, line) ==
    CASE Failed(reading) \/ line.what = "blank" -> reading
      [] ~Failed(reading) /\ line.what = "plain" -> [reading EXCEPT !.error = "no '='"]
      [] ~Failed(reading) /\ line.what = "entry" ->
            IF line.key \notin Keys THEN [reading EXCEPT !.error = "unknown key"]
            ELSE IF ~line.reads THEN [reading EXCEPT !.error = "invalid value"]
            ELSE [reading EXCEPT !.manifest = Set(@, line)]

\* from_text(): line by line, and validation at the end.
FromText(text) ==
    LET read == FoldLeft(ReadLine, Reading(Default, "none"), text) IN
    IF Failed(read) THEN read ELSE Reading(read.manifest, Validate(read.manifest))

\* Relative paths are taken from the directory of the file.
Resolved(m, base) ==
    LET from(path) == IF path # NoPath /\ path.directory = "" THEN [path EXCEPT !.directory = base]
                      ELSE path
    IN  [m EXCEPT !.model_path = from(@), !.engine_path = from(@)]

\* load_file(), of a file that may not open.
LoadFile(file, base) ==
    IF ~file.opens THEN Reading(Default, "cannot open")
    ELSE LET read == FromText(file.text) IN
         IF Failed(read) THEN read ELSE Reading(Resolved(read.manifest, base), "none")

-----------------------------------------------------------------------------
(***************************************************************************)
(* The manifests swave_cli and swave_app make when none is named.          *)
(***************************************************************************)

\* Mutant: both kinds get the smallest factor of an upscaler.
BuiltInOneRange(kind) ==
    [Default EXCEPT
        !.id = kind, !.kind = kind, !.model_path = Path("", kind),
        !.native_scale = Tenths(IF kind = "upscaler" THEN 40 ELSE 10),
        !.min_scale = Tenths(11), !.max_scale = Tenths(50),
        !.arbitrary_timestep = (kind = "interpolator")]

BuiltIn(kind) ==
    [Default EXCEPT
        !.id = IF kind = "upscaler" THEN "srvgv-test" ELSE "rife-test",
        !.kind = kind,
        !.model_path = Path("", IF kind = "upscaler" THEN "srvgv-test" ELSE "rife-test"),
        !.native_scale = Tenths(IF kind = "upscaler" THEN 40 ELSE 10),
        !.min_scale = Tenths(IF kind = "upscaler" THEN 11 ELSE 10),
        !.max_scale = Tenths(IF kind = "upscaler" THEN 50 ELSE 10),
        !.arbitrary_timestep = (kind = "interpolator"),
        !.input_names = IF kind = "interpolator" THEN 3 ELSE 1,
        !.output_names = 1]

-----------------------------------------------------------------------------
(***************************************************************************)
(* Properties of a text and what is read from it.                          *)
(***************************************************************************)

Readable(line) ==
    line.what = "blank" \/ (line.what = "entry" /\ line.key \in Keys /\ line.reads)

\* The lines of a text that have a key.
Places(text, key) == {i \in DOMAIN text : text[i].what = "entry" /\ text[i].key = key}

\* The last entry of a key counts, whatever came before, and a key that is missing
\* leaves its default.
Setting(text, key) ==
    IF Places(text, key) = {} THEN Default[key] ELSE text[Max(Places(text, key))].value

\* A manifest has the settings of a text, and of its shapes the n-th is the one in the
\* n-th of their lines.
Describes(text, manifest) ==
    LET shapes == Places(text, "fixed_shape") IN
    /\ DOMAIN manifest = Keys
    /\ \A key \in Keys \ {"fixed_shape"} : manifest[key] = Setting(text, key)
    /\ DOMAIN manifest.fixed_shape = 1 .. Cardinality(shapes)
    /\ \A i \in shapes :
          manifest.fixed_shape[Cardinality({j \in shapes : j <= i})] = text[i].value

\* A text is accepted exactly when every line of it can be read and the manifest it
\* describes is valid, and that manifest is what is read.
ReadsWhatIsWritten(text) ==
    LET read == FromText(text) IN
    IF \A i \in DOMAIN text : Readable(text[i])
    THEN Describes(text, read.manifest) /\ read.error = Validate(read.manifest)
    ELSE read.error \in {"no '='", "unknown key", "invalid value"}

\* An accepted manifest names its model, relative to the file it came from, and has
\* a scale that a picture can be enlarged by: its scales are numbers, the least of
\* them positive and the native one in their range, and an interpolator keeps the
\* size of its frames unless it takes any timestep.
UsableWhenLoaded(file, base) ==
    LET read == LoadFile(file, base)
        m == read.manifest
    IN  ~Failed(read) =>
        /\ m.id # "" /\ m.model_path.name # "" /\ m.model_path.directory # ""
        /\ m.engine_path # NoPath => m.engine_path.directory # ""
        /\ m.native_scale.finite /\ m.min_scale.finite /\ m.max_scale.finite
        /\ m.min_scale.tenths > 0
        /\ m.native_scale.tenths \in m.min_scale.tenths .. m.max_scale.tenths
        /\ m.kind = "interpolator" /\ ~m.arbitrary_timestep => m.native_scale.tenths = 10
=============================================================================
