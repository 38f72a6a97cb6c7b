-------------------------- MODULE MCPureFunctions --------------------------
(* Every manifest of up to MaxLines lines, alone or after a header that makes  *)
(* it valid; every command line of up to MaxWords words; every picture and     *)
(* monitor up to MaxSide with every preset; every byte with every alpha.       *)
(* There is a line for each thing the parser and validate() look at: the       *)
(* precision, the layout, the license and the output names take the same ways  *)
(* as the members used.                                                        *)
EXTENDS PureFunctions

Entry(key, reads, value) == [what |-> "entry", key |-> key, reads |-> reads, value |-> value]

Header == <<Entry("id", TRUE, "srvgv"), Entry("model_path", TRUE, Path("", "srvgv"))>>

MCStarts == {<<>>, Header}

MCLines ==
    {[what |-> "blank"], [what |-> "plain"],
     Entry("scale", TRUE, ""), Entry("kind", FALSE, ""), Entry("native_scale", FALSE, ""),
     Entry("kind", TRUE, "interpolator"), Entry("id", TRUE, ""),
     Entry("model_path", TRUE, Path("/models", "rife")), Entry("model_path", TRUE, NoPath),
     Entry("engine_path", TRUE, Path("", "rife")),
     Entry("arbitrary_timestep", TRUE, TRUE),
     Entry("fixed_shape", TRUE, "vga"), Entry("fixed_shape", TRUE, "hd"),
     Entry("fixed_shape", FALSE, "")}
    \cup {Entry(key, TRUE, scale) :
            key \in {"native_scale", "min_scale", "max_scale"},
            scale \in {Tenths(0), Tenths(20), NotFinite}}

Word(text) == [text |-> text, whole |-> FALSE, number |-> 0]
Number(n) == [text |-> "number", whole |-> TRUE, number |-> n]

MCWords ==
    {Word(text) : text \in {"--frames", "--fps", "--provider", "--upscaler-manifest",
                            "--no-interpolation", "--verbose", "fake", "cuda", "directml", ""}}
    \cup {Number(n) : n \in {0, 3, 9, UnsignedRange, LongRange, -1}}

\* The working directory of the programs: one file loads, one can be read but is not
\* valid, and the others do not open.
MCDisk ==
    [name \in {w.text : w \in MCWords} |->
        [opens |-> name \in {"fake", "cuda"},
         text |-> IF name = "cuda" THEN Tail(Header) ELSE Header]]

MCFactors == PresetFactors \cup {0, 1} \cup {f \in {10, 11, 51} : ValidCustomFactor(f)}
=============================================================================
