------------------------------ MODULE Pictures ------------------------------
(***************************************************************************)
(* What the program computes of pictures: the resolution it enlarges to,   *)
(* and single pixels on their way through the capture and the backends.    *)
(*                                                                         *)
(* Resolutions are computed with doubles and rounded at the end.  For      *)
(* sides below 2^24 and factors up to 5 the error of the doubles is less   *)
(* than the distance of any fraction that occurs from the next half        *)
(* number, unless it is one: only such a tie can be decided either way,    *)
(* and here it is, wherever the doubles are not exact.  A factor is in     *)
(* tenths; 0 stands for one that is not finite or not positive.            *)
(*                                                                         *)
(* Colors pass through floats, rounded as the processor rounds them.  The  *)
(* digits of a float are a number of FloatUnit / 2 .. FloatUnit, 2^24 for  *)
(* an IEEE float, scaled by a power of two.  Bytes are numbers up to 255.  *)
(***************************************************************************)
EXTENDS Integers, Sequences, FiniteSets, FiniteSetsExt

CONSTANT FloatUnit

ASSUME FloatAssumption == FloatUnit \in Nat /\ FloatUnit >= 512

\* lround() of numerator / denominator, for what is not negative.
Rounded(numerator, denominator) == (2 * numerator + denominator) \div (2 * denominator)

\* The numbers nearest to a fraction: two if it is half-way between them.
Nearest(numerator, denominator) ==
    LET up == Rounded(numerator, denominator) IN
    {number \in {up - 1, up} : 2 * (numerator - denominator * number) <= denominator}

\* How IEEE arithmetic rounds: half-way to the even number.
NearestEven(numerator, denominator) ==
    LET up == Rounded(numerator, denominator) IN
    IF up - 1 \in Nearest(numerator, denominator) /\ up % 2 = 1 THEN up - 1 ELSE up

-----------------------------------------------------------------------------
(***************************************************************************)
(* resolution.hpp and presets.hpp.                                         *)
(***************************************************************************)

Resolution(width, height) == [width |-> width, height |-> height]

IsValid(resolution) == resolution.width # 0 /\ resolution.height # 0

\* Mutant: the source is fitted to the monitor, not what is made of it.
ShrinkSource(source, factor, monitor) ==
    LET wide == <<monitor.width, source.width>>
        high == <<monitor.height, source.height>>
        least == IF wide[1] * high[2] <= high[1] * wide[2] THEN wide ELSE high
    IN  IF IsValid(monitor) /\ least[1] < least[2] THEN least ELSE <<1, 1>>

\* monitor_scale as a fraction: the smallest of 1 and the two ratios.
Shrink(source, factor, monitor) ==
    LET wide == <<monitor.width * 10, source.width * factor>>
        high == <<monitor.height * 10, source.height * factor>>
        least == IF wide[1] * high[2] <= high[1] * wide[2] THEN wide ELSE high
    IN  IF IsValid(monitor) /\ least[1] < least[2] THEN least ELSE <<1, 1>>

\* What a side may come to: the doubles are exact for multiples of one half.
Sides(length, factor, shrink) ==
    LET numerator == length * factor * shrink[1]
        denominator == 10 * shrink[2]
    IN  {Max({1, side}) : side \in
            IF shrink = <<1, 1>> /\ factor % 5 = 0 THEN {Rounded(numerator, denominator)}
            ELSE Nearest(numerator, denominator)}

\* output_resolution(): the resolutions it may return.
OutputResolutions(source, factor, monitor) ==
    LET shrink == Shrink(source, factor, monitor) IN
    IF ~IsValid(source) \/ factor = 0 THEN {Resolution(0, 0)}
    ELSE {Resolution(width, height) : width \in Sides(source.width, factor, shrink),
                                      height \in Sides(source.height, factor, shrink)}

\* default_presets().
PresetFactors == {10, 15, 20, 30, 40, 50}

ValidCustomFactor(factor) == factor \in 11 .. 50

\* preset_resolution(): a preset never makes a picture smaller than its source.
PresetResolutions(source, monitor, factor) ==
    OutputResolutions(source, Max({10, factor}), monitor)

-----------------------------------------------------------------------------
(***************************************************************************)
(* Pixels.  A captured picture is premultiplied: no channel exceeds alpha. *)
(***************************************************************************)

\* Mutant: the quotient is truncated.
UnpremultipliedDown(value, alpha) ==
    IF alpha \in {0, 255} THEN value ELSE Min({255, (value * 255) \div alpha})

Unpremultiplied(value, alpha) ==
    IF alpha \in {0, 255} THEN value
    ELSE Min({255, (value * 255 + alpha \div 2) \div alpha})

Powers == {1, 2, 4, 8, 16, 32, 64, 128, 256, 512}

\* Mutant: a byte is divided by 256.
ColorOf256(byte) ==
    LET scale == CHOOSE k \in Powers : byte = 0 \/ byte * k \in 128 .. 255
    IN  [digits |-> NearestEven(byte * scale * FloatUnit, 256), scale |-> scale]

\* byte / 255.0F is digits / (FloatUnit * scale).
Color(byte) ==
    LET scale == CHOOSE k \in Powers : byte = 0 \/ byte * k \in 128 .. 255
    IN  [digits |-> NearestEven(byte * scale * FloatUnit, 255), scale |-> scale]

\* to_byte: the float is clamped to 0 .. 1, the product with 255.0F is a float in
\* units of unit / (2 * FloatUnit), and lround() makes it a number.
ToByte(color) ==
    LET least == Min({color.digits, FloatUnit * color.scale})
        unit == CHOOSE k \in Powers :
                    (510 * least) \div (FloatUnit * color.scale) \in k \div 2 .. k - 1
        digits == NearestEven(510 * least, color.scale * unit)
    IN  Rounded(digits * unit, 2 * FloatUnit)

\* frame_to_tensor(), of a pixel of four bytes.
Colors(bytes, format) ==
    [red   |-> Color(IF format = "bgra8" THEN bytes[3] ELSE bytes[1]),
     green |-> Color(bytes[2]),
     blue  |-> Color(IF format = "bgra8" THEN bytes[1] ELSE bytes[3])]

\* tensor_to_frame(): always bgra8; the alpha comes from the source.
Pixel(colors, alpha) ==
    <<ToByte(colors.blue), ToByte(colors.green), ToByte(colors.red), alpha>>

\* The source pixel, along one axis, whose alpha an output pixel takes.
SourceIndex(x, length, newLength) == Min({length - 1, (x * length) \div newLength})

\* Alpha half-way between two frames.
InterpolatedAlpha(first, second) == Rounded(first + second, 2)

-----------------------------------------------------------------------------

\* A side may be rounded by half a pixel, which shifts the product with the other
\* side of the source by half of that.
Proportional(resolution, source) ==
    LET skew == resolution.width * source.height - resolution.height * source.width IN
    2 * Max({skew, -skew}) <= source.width + source.height

\* The picture fits the monitor.  It is what was asked for, or it is not larger and
\* touches the monitor, and it keeps its proportions unless a side would vanish.
FitsMonitor(source, factor, monitor) ==
    LET wanted == OutputResolutions(source, factor, Resolution(0, 0)) IN
    IsValid(source) /\ factor # 0 => \A output \in OutputResolutions(source, factor, monitor) :
        /\ output.width >= 1 /\ output.height >= 1
        /\ IsValid(monitor) => output.width <= monitor.width /\ output.height <= monitor.height
        /\ \/ output \in wanted
           \/ /\ IsValid(monitor)
              /\ output.width = monitor.width \/ output.height = monitor.height
              /\ \A full \in wanted : output.width <= full.width /\ output.height <= full.height
        /\ output.width > 1 /\ output.height > 1 => Proportional(output, source)

\* A picture does not exceed another, or it does by one pixel of one side.
NearlyWithin(output, other) ==
    \/ output.width <= other.width /\ output.height <= other.height + 1
    \/ output.width <= other.width + 1 /\ output.height <= other.height

\* Presets multiply the base, the source as it fits the monitor, although the code
\* computes them from the source: that may give what the base gives.  Whatever a
\* tie does to them, a preset is not smaller than a weaker one, or than the same
\* computed in the other way, by more than one pixel of one side.
PresetsMultiplyBase(source, monitor) ==
    IsValid(source) => \A factor \in PresetFactors :
        /\ \A base \in PresetResolutions(source, monitor, 10) :
              PresetResolutions(base, monitor, factor)
                \subseteq PresetResolutions(source, monitor, factor)
        /\ \A stronger \in {f \in PresetFactors : f >= factor} :
              \A output \in PresetResolutions(source, monitor, factor),
                 more \in PresetResolutions(source, monitor, stronger) :
                    NearlyWithin(output, more)

\* What the capture makes of a premultiplied channel is a byte, no darker than it
\* was, and gives the same value when it is premultiplied again.
StraightAlpha(value, alpha) ==
    value <= alpha =>
        /\ Unpremultiplied(value, alpha) \in value .. 255
        /\ alpha # 0 => Rounded(Unpremultiplied(value, alpha) * alpha, 255) = value

\* The colors of a pixel, by the names of the formats.
Shows(bytes, format) ==
    LET places == IF format = "bgra8" THEN [blue |-> 1, green |-> 2, red |-> 3, alpha |-> 4]
                  ELSE [red |-> 1, green |-> 2, blue |-> 3, alpha |-> 4]
    IN  [channel \in DOMAIN places |-> bytes[places[channel]]]

\* A model that returns its input leaves every color of a frame as it was, to the
\* byte: the errors of the two floats it passes through do not add up to a half.
ColorsKept(bytes, format) ==
    Shows(Pixel(Colors(bytes, format), bytes[4]), "bgra8") = Shows(bytes, format)

\* A row of another size takes its alpha from pixels of the source in order, and from
\* each as often as from any other up to one: enlarged, it leaves none out.
AlphaSpread(length, newLength) ==
    LET taken == [i \in 0 .. length - 1 |->
            Cardinality({x \in 0 .. newLength - 1 : SourceIndex(x, length, newLength) = i})]
    IN  /\ \A x \in 0 .. newLength - 1 :
              /\ SourceIndex(x, length, newLength) \in 0 .. length - 1
              /\ x > 0 => SourceIndex(x - 1, length, newLength) <= SourceIndex(x, length, newLength)
        /\ \A i, j \in 0 .. length - 1 : taken[i] - taken[j] \in -1 .. 1

\* An interpolated pixel is a byte and as opaque as something between the two it
\* comes from, whichever comes first.
AlphaBetween(first, second) ==
    LET alpha == InterpolatedAlpha(first, second) IN
    /\ alpha \in Min({first, second}) .. Max({first, second})
    /\ alpha = InterpolatedAlpha(second, first)
=============================================================================
