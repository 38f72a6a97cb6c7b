--------------------------- MODULE PureFunctions ---------------------------
(***************************************************************************)
(* The inputs of what the program only computes, one per behavior: a       *)
(* manifest that grows line by line, a command line that grows word by     *)
(* word, a picture and the monitor it is shown on, or a pixel.             *)
(***************************************************************************)
EXTENDS CommandLine, Pictures

CONSTANTS Lines,        \* of a manifest
          Starts,       \* texts a manifest may start with
          Words,        \* of a command line
          Disk,         \* the files by the names a command line may give them
          Factors,      \* in tenths, 0 for one that is no factor
          MaxLines, MaxWords, MaxSide

ASSUME InputAssumption ==
    /\ \A line \in Lines : IsLine(line)
    /\ \A text \in Starts : IsText(text)
    /\ \A word \in Words : /\ IsWord(word)
                           /\ Disk[word.text].opens => IsText(Disk[word.text].text)
    /\ Factors \subseteq Nat

VARIABLES function, input

inputVars == <<function, input>>

Resolutions == [width : 0 .. MaxSide, height : 0 .. MaxSide]

InputInit ==
    \/ function = "manifest" /\ input \in Starts
    \/ function = "command line" /\ input = <<>>
    \/ function = "picture"
       /\ input \in [source : Resolutions, monitor : Resolutions, factor : Factors]
    \/ function = "pixel" /\ input \in [value : 0 .. 255, alpha : 0 .. 255]

AddLine ==
    /\ function = "manifest" /\ UNCHANGED function
    /\ \E start \in Starts : IsPrefix(start, input) /\ Len(input) < Len(start) + MaxLines
    /\ \E line \in Lines : input' = Append(input, line)

AddWord ==
    /\ function = "command line" /\ UNCHANGED function
    /\ Len(input) < MaxWords
    /\ \E word \in Words : input' = Append(input, word)

InputNext == AddLine \/ AddWord

InputSpec == InputInit /\ [][InputNext]_inputVars

-----------------------------------------------------------------------------

\* What is read from a manifest is what is written in it (ModelManifest::from_text).
FromTextExact == function = "manifest" => ReadsWhatIsWritten(input)

\* A manifest that loads can be used by the backends (ModelManifest::load_file).
LoadedIsUsable ==
    function = "manifest" => UsableWhenLoaded([opens |-> TRUE, text |-> input], "installed")

\* swave_cli takes its arguments as they are meant (parse_arguments).
CliRunsAsAsked == function = "command line" => RunsAsAsked(input)

\* swave_app understands a command line as swave_cli does (parse_options).
AppReadsAsCli == function = "command line" => ProgramsAgree(input)

\* Neither program goes on with an invalid manifest (main, load_or_default).
ManifestsValid == function = "command line" => OnlyValidManifests(input, Disk)

\* The resolution computed fits the monitor and the source, and presets are ordered
\* multiples of the base, up to a pixel (output_resolution, preset_resolution).
ResolutionFits ==
    function = "picture" =>
        /\ FitsMonitor(input.source, input.factor, input.monitor)
        /\ input.factor = 10 => PresetsMultiplyBase(input.source, input.monitor)

\* A captured pixel keeps its color (the FrameArrived callback), a pixel of either
\* format its colors through a tensor (frame_to_tensor, tensor_to_frame), an interpolated
\* one its transparency, and an enlarged picture the transparency of its source
\* (tensor_to_frame).
PixelsKept ==
    /\ function = "pixel" =>
        /\ StraightAlpha(input.value, input.alpha)
        /\ \A format \in {"bgra8", "rgba8"} :
              ColorsKept(<<input.value, 255 - input.value, input.alpha, input.alpha>>, format)
        /\ AlphaBetween(input.value, input.alpha)
    /\ function = "picture" /\ IsValid(input.source) /\ IsValid(input.monitor) =>
        AlphaSpread(input.source.width, input.monitor.width)
=============================================================================
