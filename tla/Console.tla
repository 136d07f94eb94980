------------------------------- MODULE Console ------------------------------
(***************************************************************************)
(* The console, chr_drv/console.c: con_write() and what it calls, one      *)
(* character at a time.  Addresses count cells of video memory from        *)
(* video_mem_start.  What con_write() answers to ESC Z and the bell are    *)
(* left out: they leave the screen alone.                                  *)
(*                                                                         *)
(* On an EGA the whole screen scrolls by moving its origin through video   *)
(* memory; at the end of the memory it is copied back to the start.        *)
(***************************************************************************)
EXTENDS Integers, TLC

CONSTANTS Cols, Lines,  \* video_num_columns, even, and video_num_lines
          Rows,         \* lines that fit between video_mem_start and video_mem_end
          Ega,          \* video_type is EGAC or EGAM
          TabStop,      \* 8
          SEVEN, EIGHT, \* the codes of these digits
          NPAR,
          Digit, MaxPar,\* characters, and a bound on the numbers made of them
          Attr,         \* attributes
          Sent          \* sets of characters; the console is sent those of one

ConsoleAssumption ==
    /\ Cols \in Nat \ {0} /\ Cols % 2 = 0 /\ Lines \in Nat \ {0} /\ Rows \in Nat /\ Rows >= Lines
    /\ TabStop \in Nat \ {0} /\ TabStop <= Cols /\ NPAR \in Nat \ {0, 1}
    /\ Digit \subseteq {ToString(n) : n \in 0 .. 9} /\ MaxPar \in Nat /\ Ega \in BOOLEAN
    /\ {7, 15, 112} \subseteq Attr

VARIABLES con,   \* the variables of console.c
          typed  \* the characters that come

vars == <<con, typed>>

Address == 0 .. Rows * Cols - 1
Blank == 0      \* video_erase_char; a printed cell is told by its attribute
Par == 0 .. NPAR - 1

TypeOK ==
    /\ con.mem \in [Address -> {Blank} \cup Attr]
    /\ con.origin \in Address /\ con.scr_end \in 1 .. Rows * Cols /\ con.pos \in 0 .. Rows * Cols
    /\ con.x \in 0 .. Cols /\ con.y \in 0 .. Lines - 1
    /\ 0 <= con.top /\ con.top < con.bottom /\ con.bottom <= Lines
    /\ con.saved_x \in 0 .. Cols /\ con.saved_y \in 0 .. Lines - 1
    /\ con.state \in 0 .. 3 /\ con.npar \in Par /\ con.par \in [Par -> 0 .. MaxPar]
    /\ con.attr \in Attr
    /\ typed \in Sent

(* con_init(), with the cursor at the start.                               *)
Init ==
    /\ con = [mem |-> [a \in Address |-> Blank], origin |-> 0, scr_end |-> Lines * Cols, pos |-> 0,
            x |-> 0, y |-> 0, top |-> 0, bottom |-> Lines, saved_x |-> 0, saved_y |-> 0,
            state |-> 0, npar |-> 0, par |-> [i \in Par |-> 0], attr |-> 7]
    /\ typed \in Sent

-----------------------------------------------------------------------------
(* rep movsl and rep stosw.                                                *)
Copied(mem, from, to, n) ==
    [a \in Address |-> IF a \in to .. to + n - 1 THEN mem[from + a - to] ELSE mem[a]]
Filled(mem, start, n) == [a \in Address |-> IF a \in start .. start + n - 1 THEN Blank ELSE mem[a]]

gotoAnywhere(s, x, y) == [s EXCEPT !.x = x, !.y = y, !.pos = s.origin + y * Cols + x]
gotoxy(s, x, y) ==
    IF x \notin 0 .. Cols \/ y \notin 0 .. Lines - 1 THEN s
    ELSE [s EXCEPT !.x = x, !.y = y, !.pos = s.origin + y * Cols + x]

(* The origin moves down by a line; if the screen then ends behind the     *)
(* memory, its lines but the last are copied to the start.                 *)
CursorForgotten(s) == [s EXCEPT !.pos = @ + Cols, !.origin = 0, !.scr_end = @ - s.origin]
BackToStart(s) ==
    [s EXCEPT !.pos = @ + Cols - (s.origin + Cols), !.origin = 0, !.scr_end = @ - s.origin]

Pan(s) ==
    LET new == s.origin + Cols
        end == s.scr_end + Cols
        kept == (Lines - 1) * Cols
    IN  IF end > Rows * Cols
        THEN [BackToStart(s) EXCEPT !.mem = Filled(Copied(@, new, 0, kept), kept, Cols)]
        ELSE [s EXCEPT !.origin = new, !.scr_end = end, !.pos = @ + Cols,
                       !.mem = Filled(@, end - Cols, Cols)]

Line(s, n) == s.origin + n * Cols

scrup(s) ==
    IF Ega /\ s.top = 0 /\ s.bottom = Lines THEN Pan(s)
    ELSE [s EXCEPT !.mem = Filled(Copied(@, Line(s, s.top + 1), Line(s, s.top), (s.bottom - s.top - 1) * Cols),
                                  Line(s, s.bottom - 1), Cols)]

scrdown(s) ==
    [s EXCEPT !.mem = Filled(Copied(@, Line(s, s.top), Line(s, s.top + 1), (s.bottom - s.top - 1) * Cols),
                             Line(s, s.top), Cols)]

lf(s) == IF s.y + 1 < s.bottom THEN [s EXCEPT !.y = @ + 1, !.pos = @ + Cols] ELSE scrup(s)
ri(s) == IF s.y > s.top THEN [s EXCEPT !.y = @ - 1, !.pos = @ - Cols] ELSE scrdown(s)
cr(s) == [s EXCEPT !.pos = @ - s.x, !.x = 0]
bs(s) == IF s.x = 0 THEN s ELSE [s EXCEPT !.pos = @ - 1, !.x = @ - 1]
del(s) == IF s.x = 0 THEN s ELSE [bs(s) EXCEPT !.mem[s.pos - 1] = Blank]

(* Back to the start of the line, of which the cursor was behind the end,  *)
(* and on to the next.                                                     *)
Wrap(s) == lf([s EXCEPT !.x = @ - Cols, !.pos = @ - Cols])

Printed(s) ==
    LET t == IF s.x >= Cols THEN Wrap(s) ELSE s
    IN  [t EXCEPT !.mem[t.pos] = s.attr, !.pos = @ + 1, !.x = @ + 1]

tab(s) ==
    LET n == TabStop - (s.x % TabStop)
        t == [s EXCEPT !.x = @ + n, !.pos = @ + n]
    IN  IF t.x > Cols THEN Wrap(t) ELSE t

save_cur(s) == [s EXCEPT !.saved_x = s.x, !.saved_y = s.y]
restore_cur(s) == gotoxy(s, s.saved_x, s.saved_y)

csi_J(s, par) ==
    CASE par = 0 -> [s EXCEPT !.mem = Filled(@, s.pos, s.scr_end - s.pos)]
      [] par = 1 -> [s EXCEPT !.mem = Filled(@, s.origin, s.pos - s.origin)]
      [] par = 2 -> [s EXCEPT !.mem = Filled(@, s.origin, Cols * Lines)]
      [] OTHER -> s

csi_K(s, par) ==
    CASE par = 0 -> [s EXCEPT !.mem = Filled(@, s.pos, Cols - s.x)]
      [] par = 1 -> [s EXCEPT !.mem = Filled(@, s.pos - s.x, s.x)]
      [] par = 2 -> [s EXCEPT !.mem = Filled(@, s.pos - s.x, Cols)]
      [] OTHER -> s

insert_char(s) ==
    [s EXCEPT !.mem = [a \in Address |->
        IF a \notin s.pos .. s.pos + Cols - s.x - 1 THEN @[a] ELSE IF a = s.pos THEN Blank ELSE @[a - 1]]]

delete_char(s) ==
    [s EXCEPT !.mem = [a \in Address |->
        IF a \notin s.pos .. s.pos + Cols - s.x - 1 THEN @[a]
        ELSE IF a = s.pos + Cols - s.x - 1 THEN Blank ELSE @[a + 1]]]

(* Lines are inserted and deleted from the cursor to the end of the        *)
(* screen, whatever the region is.                                         *)
Below(s) == [s EXCEPT !.top = s.y, !.bottom = Lines]
WithRegion(s, r) == [s EXCEPT !.top = r.top, !.bottom = r.bottom]
insert_line(s) == WithRegion(scrdown(Below(s)), s)
delete_line(s) == WithRegion(scrup(Below(s)), s)

(* Op applied n times, at least once and at most limit times.              *)
Repeated(Op(_), s, n, limit) ==
    LET times == IF n > limit THEN limit ELSE IF n = 0 THEN 1 ELSE n
        after[i \in 0 .. times] == IF i = 0 THEN s ELSE Op(after[i - 1])
    IN  after[times]

csi_m(s) ==
    LET set == {i \in 0 .. s.npar : s.par[i] \in {0, 1, 4, 7}}
        code == s.par[CHOOSE i \in set : \A j \in set : j <= i]
    IN  IF set = {} THEN s
        ELSE [s EXCEPT !.attr = CASE code = 0 -> 7 [] code \in {1, 4} -> 15 [] code = 7 -> 112]

csi_r(s, first, last) ==
    IF first < last /\ last <= Lines THEN [s EXCEPT !.top = first, !.bottom = last] ELSE s

-----------------------------------------------------------------------------
(* Some letters take their first number as at least 1, others count from 1.*)
OneAtLeast(n) == IF n = 0 THEN 1 ELSE n
FromOne(n) == IF n = 0 THEN 0 ELSE n - 1

Csi(s, letter) ==
    LET p == s.par[0]
        n == OneAtLeast(p)
    IN  CASE letter = "G" -> gotoxy(s, FromOne(p), s.y)
          [] letter = "A" -> gotoxy(s, s.x, s.y - n)
          [] letter = "B" -> gotoxy(s, s.x, s.y + n)
          [] letter = "C" -> gotoxy(s, s.x + n, s.y)
          [] letter = "D" -> gotoxy(s, s.x - n, s.y)
          [] letter = "E" -> gotoxy(s, 0, s.y + n)
          [] letter = "F" -> gotoxy(s, 0, s.y - n)
          [] letter = "d" -> gotoxy(s, s.x, FromOne(p))
          [] letter = "H" -> gotoxy(s, FromOne(s.par[1]), FromOne(p))
          [] letter = "J" -> csi_J(s, p)
          [] letter = "K" -> csi_K(s, p)
          [] letter = "L" -> Repeated(insert_line, s, p, Lines)
          [] letter = "M" -> Repeated(delete_line, s, p, Lines)
          [] letter = "P" -> Repeated(delete_char, s, p, Cols)
          [] letter = "@" -> Repeated(insert_char, s, p, Cols)
          [] letter = "m" -> csi_m(s)
          [] letter = "r" -> csi_r(s, FromOne(p), IF s.par[1] = 0 THEN Lines ELSE s.par[1])
          [] letter = "s" -> save_cur(s)
          [] letter = "u" -> restore_cur(s)
          [] OTHER -> s

(* ESC 7 and ESC 8 are looked for in x, the column, instead of the         *)
(* character.                                                              *)
Esc(s, char) ==
    CASE char = "[" -> [s EXCEPT !.state = 2]
      [] char = "E" -> gotoxy(s, 0, s.y + 1)
      [] char = "M" -> ri(s)
      [] char = "D" -> lf(s)
      [] char \notin {"[", "E", "M", "D", "Z"} /\ s.x = SEVEN -> save_cur(s)
      [] char \notin {"[", "E", "M", "D", "Z"} /\ s.x = EIGHT -> restore_cur(s)
      [] OTHER -> s

Plain(s, char) ==
    CASE char = "ESC" -> [s EXCEPT !.state = 1]
      [] char = "LF" -> lf(s)
      [] char = "CR" -> cr(s)
      [] char = "ERASE" -> del(s)
      [] char = "BS" -> bs(s)
      [] char = "TAB" -> tab(s)
      [] OTHER -> Printed(s)

Value(digit) == CHOOSE n \in 0 .. 9 : ToString(n) = digit

(* Case 3 of con_write(), which falls through to case 4.  The numbers,     *)
(* which nobody reads any more, are cleared at once.                       *)
Parameter(s, char) ==
    IF char = ";" /\ s.npar < NPAR - 1 THEN [s EXCEPT !.npar = @ + 1]
    ELSE IF char \in Digit THEN [s EXCEPT !.par[s.npar] = 10 * @ + Value(char)]
    ELSE [Csi(s, char) EXCEPT !.state = 0, !.npar = 0, !.par = [i \in Par |-> 0]]

Started(s) == [s EXCEPT !.state = 3]

con_write(char) ==
    con' = CASE con.state = 0 -> Plain(con, char)
             [] con.state = 1 -> Esc([con EXCEPT !.state = 0], char)
             [] con.state = 2 -> IF char = "?" THEN Started(con) ELSE Parameter(Started(con), char)
             [] con.state = 3 -> Parameter(con, char)

Next ==
    /\ \E char \in typed : con_write(char)
    /\ \A i \in Par : con'.par[i] <= MaxPar
    /\ UNCHANGED typed

Spec == Init /\ [][Next]_vars

-----------------------------------------------------------------------------
(* Properties.                                                             *)

(* The screen that starts at the origin, with its cursor, is an ordinary   *)
(* terminal: the address of the cursor agrees with its column and line     *)
(* whatever the order of wraps, scrolls and moves of the origin, scrolling *)
(* loses no line that should stay and nothing else changes.                *)
Visible ==
    INSTANCE Screen WITH
        Cell <- Attr,
        screen <- [i \in 0 .. Lines * Cols - 1 |-> con.mem[con.origin + i]],
        x <- (con.pos - con.origin) - con.y * Cols, y <- con.y, region <- <<con.top, con.bottom>>

ImplementsScreen == Visible!Spec
=============================================================================
