------------------------------ MODULE MCDevices -----------------------------
(* An instance of Devices for TLC.                                         *)
EXTENDS Devices

CONSTANTS t1

(* Console: what may be typed together.                                    *)
Moves == {"ESC", "[", "?", "LF", "A", "B", "C", "D", "E", "F"}
Saving == {"ESC", "[", "CR", "LF", "s", "u"}
InsertedLines == {"ESC", "[", "LF", "2", "M", "L", "r", "G", "d"}
Regions == {"ESC", "[", "LF", ";", "2", "r"}
Characters == {"ESC", "[", "CR", "ERASE", "BS", "TAB", "1", "2", "4", "H", "J", "K", "P", "@"}
Attributes == {"ESC", "[", "7", "m"}
Groups == {Moves, Saving, InsertedLines, Regions, Characters, Attributes}

(* Terminal: canonical and raw mode, and a read() with an alarm.           *)
Canonical == [canon |-> TRUE, isig |-> TRUE, min |-> 1, time |-> FALSE]
Raw == [canon |-> FALSE, isig |-> FALSE, min |-> 2, time |-> TRUE]
Timed == [canon |-> FALSE, isig |-> TRUE, min |-> 0, time |-> TRUE]
Setups == {[keys |-> {"x", "NL", "ERASE", "KILL", "INTR"}, termios |-> {Canonical}, preempt |-> FALSE],
           [keys |-> {"x", "NL", "KILL"}, termios |-> {Canonical, Raw}, preempt |-> FALSE],
           [keys |-> {"x", "CR", "EOF"}, termios |-> {Canonical, Timed}, preempt |-> TRUE]}

(* Super: everybody mounts and uses files, one task unmounts.              *)
Mounting == {[mounts |-> Mounter, umounts |-> {t1}, looks |-> Mounter]}
=============================================================================
