----------------------------- MODULE CommandLine -----------------------------
(***************************************************************************)
(* How swave_cli and swave_app read their arguments and come by the two    *)
(* manifests.  An argument is a text; what it means as a number is given   *)
(* by whole, whether all of it is digits after an optional sign, and       *)
(* number.  unsigned and unsigned long have UnsignedRange and LongRange    *)
(* values each, powers of two.                                             *)
(***************************************************************************)
EXTENDS ModelManifest

CONSTANTS UnsignedRange, LongRange

ASSUME RangeAssumption ==
    /\ UnsignedRange \in Nat /\ UnsignedRange > 1
    /\ LongRange \in Nat /\ LongRange > 0 /\ LongRange % UnsignedRange = 0

-----------------------------------------------------------------------------
(***************************************************************************)
(* swave_cli.                                                              *)
(***************************************************************************)

Numeric == {"--frames", "--fps", "--width", "--height"}
Paths == {"--upscaler-manifest", "--interpolator-manifest"}

\* The member of Arguments that an option sets goes by the option's name.
CliDefaults ==
    [option \in Numeric \cup Paths \cup {"--provider", "--no-interpolation"} |->
        CASE option \in {"--frames", "--fps"} -> 30
          [] option = "--width" -> 640
          [] option = "--height" -> 360
          [] option \in Paths -> ""
          [] option = "--provider" -> "fake"
          [] OTHER -> FALSE]

\* strtoul() negates what has a sign and stops at the largest unsigned long.
Strtoul(number) ==
    IF number >= LongRange \/ number <= -LongRange THEN LongRange - 1
    ELSE number % LongRange

\* parse_unsigned(): it accepts what is not zero as an unsigned long.
Parses(word) == word.whole /\ Strtoul(word.number) # 0

Unsigned(word) == Strtoul(word.number) % UnsignedRange

Accepts(option, word) ==
    /\ option \in Numeric => Parses(word)
    /\ option = "--provider" => word.text \in {"fake", "tensorrt", "cuda"}

Assigned(arguments, option, word) ==
    IF option \in Numeric THEN [arguments EXCEPT ![option] = Unsigned(word)]
    ELSE IF option \in Paths \cup {"--provider"} THEN [arguments EXCEPT ![option] = word.text]
    ELSE arguments

\* What is read so far: <<option>> is the one that waits for its value.
Progress(arguments, pending, ok) == [arguments |-> arguments, pending |-> pending, ok |-> ok]

TakesValue(progress, word) ==
    Progress(Assigned(progress.arguments, progress.pending[1], word), <<>>,
             Accepts(progress.pending[1], word))

NoInterpolation(progress) ==
    Progress([progress.arguments EXCEPT !["--no-interpolation"] = TRUE], <<>>, TRUE)

\* Mutant: --no-interpolation is seen wherever it stands.
ReadWordEagerly(progress, word) ==
    CASE ~progress.ok -> progress
      [] progress.ok /\ word.text = "--no-interpolation" -> NoInterpolation(progress)
      [] progress.ok /\ word.text # "--no-interpolation" ->
            IF progress.pending # <<>> THEN TakesValue(progress, word)
            ELSE Progress(progress.arguments, <<word.text>>, TRUE)

\* One turn of the loop or half of one: every option but --no-interpolation takes
\* the next argument as its value, also one that is not known.
ReadWord(progress, word) ==
    CASE ~progress.ok -> progress
      [] progress.ok /\ progress.pending # <<>> -> TakesValue(progress, word)
      [] progress.ok /\ progress.pending = <<>> ->
            IF word.text = "--no-interpolation" THEN NoInterpolation(progress)
            ELSE Progress(progress.arguments, <<word.text>>, TRUE)

Sizes == {"--frames", "--width", "--height"}

\* parse_arguments().
ParseArguments(words) ==
    LET read == FoldLeft(ReadWord, Progress(CliDefaults, <<>>, TRUE), words) IN
    [read EXCEPT !.ok = /\ read.ok /\ read.pending = <<>>
                        /\ \A option \in Sizes : read.arguments[option] # 0]

\* A program goes on with the manifests it has chosen, or it exits.
GoesOn(chosen) ==
    IF \E role \in DOMAIN chosen : Failed(chosen[role]) THEN [exit |-> 1]
    ELSE [role \in DOMAIN chosen |-> chosen[role].manifest]

\* main() up to the sessions: the manifests it goes on with, or its exit code.  A
\* file that is named must load, whether interpolation is asked for or not.
CliManifests(words, disk) ==
    LET parsed == ParseArguments(words)
        from(option, kind) ==
            IF parsed.arguments[option] = "" THEN Reading(BuiltIn(kind), "none")
            ELSE LoadFile(disk[parsed.arguments[option]], "")
    IN  IF ~parsed.ok THEN [exit |-> 2]
        ELSE GoesOn([upscaler |-> from("--upscaler-manifest", "upscaler"),
                     interpolator |-> from("--interpolator-manifest", "interpolator")])

-----------------------------------------------------------------------------
(***************************************************************************)
(* swave_app.                                                              *)
(***************************************************************************)

AppDefaults == [provider |-> "fake", upscaler |-> <<>>, interpolator |-> <<>>]

AppOptionNames == Paths \cup {"--provider"}

AppAssigned(options, option, word) ==
    CASE option = "--provider" /\ word.text \in {"tensorrt", "cuda"} ->
            [options EXCEPT !.provider = word.text]
      [] option = "--upscaler-manifest" -> [options EXCEPT !.upscaler = <<word.text>>]
      [] option = "--interpolator-manifest" -> [options EXCEPT !.interpolator = <<word.text>>]
      [] OTHER -> options

\* Mutant: the name of an option is never taken for a value.
AppReadWordOptionsFirst(progress, word) ==
    IF progress.pending # <<>> /\ word.text \notin AppOptionNames
    THEN Progress(AppAssigned(progress.arguments, progress.pending[1], word), <<>>, TRUE)
    ELSE Progress(progress.arguments,
                  IF word.text \in AppOptionNames THEN <<word.text>> ELSE <<>>, TRUE)

\* Only an option that is known takes a value; nothing is refused.
AppReadWord(progress, word) ==
    IF progress.pending # <<>>
    THEN Progress(AppAssigned(progress.arguments, progress.pending[1], word), <<>>, TRUE)
    ELSE Progress(progress.arguments,
                  IF word.text \in AppOptionNames THEN <<word.text>> ELSE <<>>, TRUE)

\* parse_options(): an option at the end that lacks its value is ignored.
ParseOptions(words) ==
    FoldLeft(AppReadWord, Progress(AppDefaults, <<>>, TRUE), words).arguments

\* Mutant: a manifest that is named is used as it was read, valid or not.
LoadOrDefaultUnchecked(path, kind, disk) ==
    IF path # <<>> THEN Reading(LoadFile(disk[path[1]], "").manifest, "none")
    ELSE Reading(BuiltIn(kind), Validate(BuiltIn(kind)))

\* load_or_default().
LoadOrDefault(path, kind, disk) ==
    IF path # <<>> THEN LoadFile(disk[path[1]], "")
    ELSE Reading(BuiltIn(kind), Validate(BuiltIn(kind)))

\* wWinMain() up to the backends.
AppManifests(words, disk) ==
    LET options == ParseOptions(words) IN
    GoesOn([upscaler |-> LoadOrDefault(options.upscaler, "upscaler", disk),
            interpolator |-> LoadOrDefault(options.interpolator, "interpolator", disk)])

-----------------------------------------------------------------------------
(***************************************************************************)
(* Properties of a command line, a sequence of words.                      *)
(***************************************************************************)

\* No name of an option is a number.
IsWord(word) ==
    /\ word.whole \in BOOLEAN /\ word.number \in Int
    /\ word.whole => word.text \notin DOMAIN CliDefaults

\* The words that swave_cli reads as options: not the value of another.
IsOption(words) ==
    LET option[i \in 0 .. Len(words)] ==
            i > 0 => (i > 1 /\ option[i - 1] => words[i - 1].text = "--no-interpolation")
    IN  option

\* The values an option is given.
Given(words, name) ==
    {i \in 2 .. Len(words) : words[i - 1].text = name /\ IsOption(words)[i - 1]}

Latest(places) == CHOOSE i \in places : \A j \in places : j <= i

\* swave_cli runs with what it was asked for: the last value of each option counts
\* and --no-interpolation where it is an option.  Sizes are never zero; what is too
\* large for an unsigned is taken modulo its range, so the frame rate may be zero,
\* but only where unsigned long is wider than unsigned.
RunsAsAsked(words) ==
    LET parsed == ParseArguments(words)
        asked(name) == words[Latest(Given(words, name))]
    IN  parsed.ok =>
        /\ \A name \in Numeric : Given(words, name) # {} =>
              /\ asked(name).whole
              /\ asked(name).number \in 1 .. UnsignedRange - 1 =>
                    parsed.arguments[name] = asked(name).number
              /\ parsed.arguments[name] = 0 =>
                    /\ name = "--fps" /\ LongRange > UnsignedRange
                    /\ asked(name).number % UnsignedRange = 0 /\ asked(name).number # 0
        /\ \A name \in Numeric \cup Paths \cup {"--provider"} :
              Given(words, name) = {} => parsed.arguments[name] = CliDefaults[name]
        /\ \A name \in Paths \cup {"--provider"} :
              Given(words, name) # {} => parsed.arguments[name] = asked(name).text
        /\ parsed.arguments["--no-interpolation"] =
              \E i \in DOMAIN words : IsOption(words)[i] /\ words[i].text = "--no-interpolation"

\* No program goes on with a manifest that is not valid, be it built in or loaded,
\* and with the manifests that are built in it does go on.
OnlyValidManifests(words, disk) ==
    LET cli == CliManifests(words, disk)
        app == AppManifests(words, disk)
        options == ParseOptions(words)
        sound(manifests) == \A role \in DOMAIN manifests : Validate(manifests[role]) = "none"
    IN  /\ "exit" \in DOMAIN cli \/ sound(cli)
        /\ "exit" \in DOMAIN app \/ sound(app)
        /\ ParseArguments(words).ok /\ Paths \cap {w.text : w \in ToSet(words)} = {} =>
              "exit" \notin DOMAIN cli
        /\ options.upscaler = <<>> /\ options.interpolator = <<>> => "exit" \notin DOMAIN app

\* A command line that swave_cli accepts means the same to swave_app, if every option
\* in it is known, none is an empty path and a provider is named once: the app keeps
\* the last one that is not "fake".
ProgramsAgree(words) ==
    LET parsed == ParseArguments(words)
        app == ParseOptions(words)
        optional(name) == IF parsed.arguments[name] = "" THEN <<>> ELSE <<parsed.arguments[name]>>
    IN  /\ parsed.ok
        /\ \A i \in DOMAIN words : IsOption(words)[i] => words[i].text \in DOMAIN CliDefaults
        /\ \A name \in Paths : \A i \in Given(words, name) : words[i].text # ""
        /\ \A i, j \in Given(words, "--provider") : i = j
        => /\ app.provider = parsed.arguments["--provider"]
           /\ app.upscaler = optional("--upscaler-manifest")
           /\ app.interpolator = optional("--interpolator-manifest")
=============================================================================
