------------------------------- MODULE Screen -------------------------------
(***************************************************************************)
(* What the console promises: Lines lines of Cols cells, a cursor and a    *)
(* scrolling region.  Cells count from 0, line after line; a cursor behind *)
(* the last column waits there for the next character.                     *)
(***************************************************************************)
EXTENDS Integers

CONSTANTS Cols, Lines, Blank, Cell

VARIABLES screen,  \* screen[i] is a cell
          x, y,    \* the cursor
          region   \* lines region[1] .. region[2] - 1 scroll

vars == <<screen, x, y, region>>

Last == Lines * Cols - 1
Here == y * Cols + x

(* The n cells from i on blank; the lines from t up to b moved by n, blank *)
(* lines coming in.                                                        *)
Erased(s, i, n) == [c \in 0 .. Last |-> IF c \in i .. i + n - 1 THEN Blank ELSE s[c]]
Up(s, t, b, n) ==
    [c \in 0 .. Last |-> IF c \div Cols \notin t .. b - 1 THEN s[c]
                         ELSE IF c \div Cols + n < b THEN s[c + n * Cols] ELSE Blank]
Down(s, t, b, n) ==
    [c \in 0 .. Last |-> IF c \div Cols \notin t .. b - 1 THEN s[c]
                         ELSE IF c \div Cols - n >= t THEN s[c - n * Cols] ELSE Blank]

Init == screen = [c \in 0 .. Last |-> Blank] /\ x = 0 /\ y = 0 /\ region = <<0, Lines>>

(* At the end of the region, and below it, a line feed scrolls.            *)
Scrolls == y + 1 >= region[2]
FedScreen == IF Scrolls THEN Up(screen, region[1], region[2], 1) ELSE screen
FedLine == IF Scrolls THEN y ELSE y + 1

Feed == screen' = FedScreen /\ y' = FedLine /\ UNCHANGED <<x, region>>

ReverseFeed ==
    /\ IF y > region[1] THEN y' = y - 1 /\ UNCHANGED screen
       ELSE screen' = Down(screen, region[1], region[2], 1) /\ UNCHANGED y
    /\ UNCHANGED <<x, region>>

Write ==
    /\ \E cell \in Cell :
          IF x < Cols
          THEN screen' = [screen EXCEPT ![Here] = cell] /\ x' = x + 1 /\ UNCHANGED y
          ELSE /\ screen' = [FedScreen EXCEPT ![FedLine * Cols] = cell]
               /\ x' = 1 /\ y' = FedLine
    /\ UNCHANGED region

(* Tabulator: to a column of this line or, past the end, of the next.      *)
Tab ==
    /\ \/ x' \in x + 1 .. Cols /\ UNCHANGED <<screen, y>>
       \/ x' \in 1 .. x /\ screen' = FedScreen /\ y' = FedLine
    /\ UNCHANGED region

Move == x' \in 0 .. Cols /\ y' \in 0 .. Lines - 1 /\ UNCHANGED <<screen, region>>

Delete ==
    /\ x > 0
    /\ screen' = Erased(screen, Here - 1, 1) /\ x' = x - 1 /\ UNCHANGED <<y, region>>

Erase ==
    /\ \E span \in {<<Here, Lines * Cols - Here>>, <<0, Here>>, <<0, Lines * Cols>>,
                    <<Here, Cols - x>>, <<y * Cols, x>>, <<y * Cols, Cols>>} :
          screen' = Erased(screen, span[1], span[2])
    /\ UNCHANGED <<x, y, region>>

Shift ==
    /\ \E n \in 1 .. Lines : screen' \in {Up(screen, y, Lines, n), Down(screen, y, Lines, n)}
    /\ UNCHANGED <<x, y, region>>

(* n cells inserted at the cursor, or deleted there.                       *)
InLine(c) == c >= Here /\ c < (y + 1) * Cols
Slide ==
    /\ \E n \in 1 .. Cols :
         \/ screen' = [c \in 0 .. Last |-> IF ~InLine(c) THEN screen[c]
                                           ELSE IF c - n >= Here THEN screen[c - n] ELSE Blank]
         \/ screen' = [c \in 0 .. Last |-> IF ~InLine(c) THEN screen[c]
                                           ELSE IF InLine(c + n) THEN screen[c + n] ELSE Blank]
    /\ UNCHANGED <<x, y, region>>

SetRegion ==
    /\ \E t \in 0 .. Lines - 1, b \in 1 .. Lines : t < b /\ region' = <<t, b>>
    /\ UNCHANGED <<screen, x, y>>

Next ==
    \/ Feed \/ ReverseFeed \/ Write \/ Tab \/ Move \/ Delete \/ Erase \/ Shift \/ Slide \/ SetRegion

Spec == Init /\ [][Next]_vars
=============================================================================
