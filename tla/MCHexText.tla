----------------------------- MODULE MCHexText -----------------------------
(***************************************************************************)
(* Digits of base 4, so bytes of 16 values.  Files of up to three lines:   *)
(* one line of every kind and length that may be damaged, then intact      *)
(* ones.                                                                   *)
(***************************************************************************)
EXTENDS HexText

record(type, offs, bytes, extend, start) ==
  [type |-> type, offset |-> offs, data |-> bytes, extend |-> extend, start |-> start]
Eof == record(1, 0, <<>>, 0, 0)
Records == {
  record(0, 18, <<>>, 0, 0), record(0, 255, <<7>>, 0, 0), record(0, 0, <<15, 4>>, 0, 0),
  record(0, 33, <<1, 0, 14>>, 0, 0), record(0, 16, <<2, 3, 13, 9, 15>>, 0, 0), Eof,
  record(2, 0, <<1, 12>>, 28 * 4, 0), record(4, 0, <<15, 15>>, 255 * 256, 0), record(4, 0, <<1>>, 0, 0),
  record(3, 0, <<0, 0, 1, 4>>, 0, 20), record(5, 0, <<15, 0, 2, 8>>, 0, 61480), record(6, 3, <<2>>, 0, 0) }

line(r, lead, trail, at, by, lost) ==
  [record |-> r, lead |-> lead, trail |-> trail, at |-> at, by |-> by, lost |-> lost]
plain(r) == line(r, <<>>, <<>>, 0, Other, 0)

Blank == line(NoRecord, <<>>, <<>>, 0, Other, 0)
Remark == line(NoRecord, <<Other, 3, Other>>, <<>>, 0, Other, 0)
Intact == {line(r, lead, trail, 0, Other, 0) : r \in Records, lead \in {<<>>, <<Other, 1>>}, trail \in {<<>>, <<Other>>}}
            \cup {Blank, Remark}
Replaced == UNION {{line(r, <<>>, <<>>, at, by, 0) : at \in 2 .. Len(recordText(r)), by \in Char} : r \in Records}
Shortened == {line(r, <<>>, <<>>, 0, Other, n) : r \in Records, n \in 1 .. 12}
Followed == {line(r, <<>>, <<c, d>>, 0, Other, 0) : r \in Records, c \in {0, Other}, d \in Char}

After == {<<>>, <<plain(Eof)>>, <<Remark, plain(record(0, 18, <<3>>, 0, 0))>>}
MCFiles == {<<l>> \o more : l \in Intact \cup Replaced \cup Shortened \cup Followed, more \in After}
             \cup {<<l, k>> : l \in {Remark, plain(record(0, 18, <<3>>, 0, 0))}, k \in Replaced}
============================================================================
