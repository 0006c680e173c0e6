---------------------------- MODULE DisplayScale ----------------------------
(***************************************************************************)
(* The display scale, as the bridge script of api/windows_display.rs reads *)
(* and sets it.  Windows keeps a scale as a number of levels above or      *)
(* below the level it recommends for the display; the script works in      *)
(* percent, over a table of levels of its own that stops at 350 while      *)
(* Windows goes on to 500, and finds the recommended level from the dpi.   *)
(* What it reports as current comes from the registry value LogPixels when *)
(* there is one: only the script's own fallback writes it.                 *)
(*                                                                         *)
(* Indices count from 1; only differences of indices leave the script.     *)
(***************************************************************************)
EXTENDS Integers, Sequences

CONSTANTS
    Percents,   \* the percentages a request may carry, after read_i32
    Displays    \* pairs: the recommended and the highest level of a display

\* read_i32 clamps scalePercent to the ends of the script's table.
PercentsAssumption == Percents \subseteq 100..350

ScaleLevels == <<100, 125, 150, 175, 200, 225, 250, 300, 350>>

\* The levels of Windows: the script's table is a prefix of them.
WindowsLevels == ScaleLevels \o <<400, 450, 500>>

DisplaysAssumption ==
    Displays \subseteq {d \in (1..12) \X (1..12) : d[1] <= d[2]}

VARIABLES
    recommended,    \* the level Windows recommends for the display
    highest,        \* the highest level the display may have
    relative,       \* the level in force, relative to the recommended one
    logPixels       \* LogPixels of the registry; 0: absent

vars == <<recommended, highest, relative, logPixels>>

Abs(n) == IF n < 0 THEN -n ELSE n

\* Math.Round(a / b): a half goes to the even neighbour.
Round(a, b) ==
    LET whole == a \div b
        rest == 2 * (a % b)
    IN  IF rest < b \/ (rest = b /\ whole % 2 = 0) THEN whole ELSE whole + 1

DpiToPercent(value) == Round(value * 100, 96)
PercentToDpi(percent) == Round(percent * 96, 100)

Clamp(value, low, high) ==
    IF value < low THEN low ELSE IF value > high THEN high ELSE value

\* The first of the closest levels: the loop replaces only a worse one.
FindClosestIndex(percent) ==
    CHOOSE i \in DOMAIN ScaleLevels :
        \A j \in DOMAIN ScaleLevels :
            LET d(k) == Abs(ScaleLevels[k] - percent)
            IN  d(i) < d(j) \/ (d(i) = d(j) /\ i <= j)

\* The range Windows reports, relative to the recommended level.
Lowest == 1 - recommended
Top == highest - recommended

\* The scale in force.
InForce == WindowsLevels[recommended + relative]

GetPrimaryDpi == PercentToDpi(InForce)

\* The level the script takes for the recommended one when it is told that
\* the scale in force is percent.
RecommendedIndex(percent) ==
    Clamp(FindClosestIndex(percent) - relative, 1, Len(ScaleLevels))

\* SetScalePercent through the display configuration.
ScaleRelative(percent, told) ==
    Clamp(FindClosestIndex(percent) - RecommendedIndex(DpiToPercent(told)),
          Lowest, Top)

GetConfiguredScalePercent_Default ==
    DpiToPercent(IF logPixels # 0 THEN logPixels ELSE 96)
GetConfiguredScalePercent ==
    DpiToPercent(IF logPixels # 0 THEN logPixels ELSE GetPrimaryDpi)

\* GetScaleInfo of a display that can be read: the level it reports as
\* current and those it offers.
ScaleInfo ==
    LET current == FindClosestIndex(GetConfiguredScalePercent)
        base == RecommendedIndex(GetConfiguredScalePercent)
        least == Clamp(base + Lowest, 1, base)
        most == Clamp(base + Top, base, Len(ScaleLevels))
    IN  [current |-> ScaleLevels[Clamp(current, least, most)],
         offered |-> SubSeq(ScaleLevels, least, most)]

-----------------------------------------------------------------------------
TypeOK ==
    /\ <<recommended, highest>> \in Displays
    /\ relative \in Lowest..Top
    /\ logPixels \in {0} \cup 96..336

Init ==
    /\ \E display \in Displays :
        recommended = display[1] /\ highest = display[2]
    /\ relative \in Lowest..Top
    /\ logPixels = 0

\* The dpi call answers, or it fails and the script goes on with 96.
Told == {GetPrimaryDpi, 96}

SetScalePercent(percent, told) ==
    /\ relative' = ScaleRelative(percent, told)
    /\ UNCHANGED <<recommended, highest, logPixels>>

\* The display configuration cannot be read or refuses: the registry is
\* written, which Windows looks at when the user signs in, and Explorer is
\* started anew.
SetScaleFallback(percent) ==
    /\ logPixels' = PercentToDpi(percent)
    /\ UNCHANGED <<recommended, highest, relative>>

\* The scale is changed in the settings of Windows.
UserSets ==
    /\ relative' \in Lowest..Top
    /\ UNCHANGED <<recommended, highest, logPixels>>

Next ==
    \/ \E percent \in Percents, told \in Told : SetScalePercent(percent, told)
    \/ \E percent \in Percents : SetScaleFallback(percent)
    \/ UserSets

Spec == Init /\ [][Next]_vars

-----------------------------------------------------------------------------
\* The level that is in force and the one Windows recommends are in the table.
InTable(level) == recommended <= Len(ScaleLevels) /\ level <= Len(ScaleLevels)

Closest(percent, level) ==
    \A other \in 1..highest :
        Abs(WindowsLevels[level] - percent) <= Abs(WindowsLevels[other] - percent)

\* A percentage that is set through the display configuration becomes the
\* nearest scale the display can have, unless the script was not told the
\* dpi or the display had, or recommends, a scale its table lacks.
SetIsClosest ==
    InTable(recommended + relative) =>
        \A percent \in Percents :
            Closest(percent, recommended + ScaleRelative(percent, GetPrimaryDpi))

\* As long as the registry does not contradict the display, the levels that
\* the menu and the settings page offer are those of the display, and
\* choosing one of them gives exactly that scale.
OfferedIsSet ==
    (/\ InTable(recommended + relative)
     /\ logPixels \in {0, GetPrimaryDpi}) =>
        /\ ScaleInfo.current = InForce
        /\ \A i \in DOMAIN ScaleInfo.offered :
            WindowsLevels[recommended
                + ScaleRelative(ScaleInfo.offered[i], GetPrimaryDpi)]
                    = ScaleInfo.offered[i]

\* The manifest says that "status" queries the current scaling value of the
\* host: what is reported is the scale in force.
StatusIsCurrent == InTable(recommended + relative) => ScaleInfo.current = InForce
=============================================================================
