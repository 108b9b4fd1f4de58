---------------------------- MODULE HexFormatter ----------------------------
(***************************************************************************)
(* HexFormatter::toHex(), which the hub uses to print packets. The size of *)
(* the output is computed first, then characters are written behind a      *)
(* pointer that nothing checks. Only positions are modelled: how many      *)
(* bytes were read, how many characters were written, and in which column  *)
(* the text of a line begins. One step writes one line.                    *)
(***************************************************************************)
EXTENDS Integers

CONSTANTS
    MaxSize,    \* bound: size of the input
    Widths      \* arguments of setBytesPerLine()

ASSUME HexAssumption == MaxSize \in Nat /\ Widths \subseteq Int

VARIABLES
    size,           \* number of input bytes, more than none
    bytesPerLine,   \* as toHex() sets it for this input
    showPos, showText,
    line,           \* lines written
    pin,            \* bytes read
    pout,           \* characters written
    textColumns     \* the columns in which the text of some line began

options == <<size, bytesPerLine, showPos, showText>>
hexVars == <<options, line, pin, pout, textColumns>>

(* setDisplayOptions(): two flags of a mask.                                 *)
ShowPosition(dispOpts) == dispOpts % 2 = 1
ShowText(dispOpts) == (dispOpts \div 2) % 2 = 1

setBytesPerLine(width) == IF width > 0 THEN width ELSE 0

LineWidth(stored) == IF stored <= 0 \/ stored > size THEN size ELSE stored

HexInit ==
    /\ size \in 1 .. MaxSize
    /\ \E width \in Widths : bytesPerLine = LineWidth(setBytesPerLine(width))
    /\ \E dispOpts \in 0 .. 3 : /\ showPos = ShowPosition(dispOpts)
                                /\ showText = ShowText(dispOpts)
    /\ line = 0 /\ pin = 0 /\ pout = 0
    /\ textColumns = {}

-----------------------------------------------------------------------------
(* The size of the output.                                                   *)

\* Faulty variant: a last line that is full is followed by an empty one.
NumLineBreaksByOne == size \div bytesPerLine

NumLineBreaks == (size - 1) \div bytesPerLine
NumLines == NumLineBreaks + 1
NumBytesLastLine == size - bytesPerLine * NumLineBreaks
PadBytesLastLine == bytesPerLine - NumBytesLastLine

\* Faulty variant: the padding of the last line is not allocated.
TextSizeUnpadded == (bytesPerLine + 2) * NumLineBreaks + (NumBytesLastLine + 2)

TextSize ==
    (bytesPerLine + 2) * NumLineBreaks + (NumBytesLastLine + 2) + 3 * PadBytesLastLine

OutSize ==
    3 * size - NumLines + NumLineBreaks
    + (IF showPos THEN 10 * NumLines ELSE 0)
    + (IF showText THEN TextSize ELSE 0)

-----------------------------------------------------------------------------
(* Writing a line.                                                           *)

LastLine == line + 1 >= NumLines
NumBytes == IF LastLine THEN NumBytesLastLine ELSE bytesPerLine

PosChars == IF showPos THEN 10 ELSE 0
HexChars == IF NumBytes = 0 THEN 0 ELSE 3 * NumBytes - 1

\* Faulty variant: two characters for each byte that is missing.
SpacesTwo == IF LastLine THEN 2 + 2 * PadBytesLastLine ELSE 2

Spaces == IF LastLine THEN 2 + 3 * PadBytesLastLine ELSE 2
BreakChars == IF LastLine THEN 0 ELSE 1

WriteLine ==
    /\ line < NumLines
    /\ line' = line + 1
    /\ pin' = pin + NumBytes
    /\ pout' = pout + PosChars + HexChars
                    + (IF showText THEN Spaces + NumBytes ELSE 0) + BreakChars
    /\ textColumns' = IF showText THEN textColumns \cup {PosChars + HexChars + Spaces}
                                  ELSE textColumns
    /\ UNCHANGED options

HexNext == WriteLine

HexSpec == HexInit /\ [][HexNext]_hexVars

-----------------------------------------------------------------------------
TypeOK ==
    /\ size \in 1 .. MaxSize
    /\ bytesPerLine \in 1 .. size
    /\ showPos \in BOOLEAN /\ showText \in BOOLEAN
    /\ line \in Nat /\ pin \in Nat /\ pout \in Nat
    /\ textColumns \subseteq Int

(* Nothing is read behind the input or written behind the output, with every *)
(* width, with and without positions and text.                               *)
WithinBuffers == pin <= size /\ pout <= OutSize

(* The two assertions at the end: all of the input was read, and all of the  *)
(* output that was allocated was written.                                    *)
EndsExactly == line = NumLines => pin = size /\ pout = OutSize

(* The text of all lines stands in one column, that of a shorter last line   *)
(* included, which is what its padding is for.                               *)
TextAligned == \A c, d \in textColumns : c = d
=============================================================================
