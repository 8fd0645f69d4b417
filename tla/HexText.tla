------------------------------ MODULE HexText ------------------------------
(***************************************************************************)
(* The text level of hex files (vm_utility.cxx): parse_hex, from_hex, the  *)
(* checksum and hex_record.  A character is a digit below DigitBase (16 in *)
(* the program, where a byte has DigitBase^2 values), a colon or something *)
(* else.                                                                   *)
(*                                                                         *)
(* The file was written by another tool: source holds the records it meant *)
(* and what happened to each line since.                                   *)
(***************************************************************************)
EXTENDS Integers, Sequences, SequencesExt

CONSTANTS
  DigitBase,  \* values of a digit
  Files,      \* sequences of written lines
  NoRecord    \* a line without a record

ASSUME DigitAssumption == DigitBase \in Nat /\ DigitBase >= 2

ByteCount == DigitBase * DigitBase
AllOnes == ByteCount - 1
Byte == 0 .. AllOnes
Digit == 0 .. DigitBase - 1
Colon == DigitBase
Other == DigitBase + 1
Char == Digit \cup {Colon, Other}

VARIABLES
  source,  \* the lines as they were meant
  rest,    \* the lines of text still to be read
  result,  \* the records parsed so far; line is the number of its line
  status   \* "parsing", "parsed" or "nullopt"

vars == <<source, rest, result, status>>

----------------------------------------------------------------------------
(* What a writer of the format puts into the file.                         *)
digits(bytes) ==
  [k \in 1 .. 2 * Len(bytes) |->
     LET byte == bytes[(k + 1) \div 2] IN
     IF k % 2 = 1 THEN byte \div DigitBase ELSE byte % DigitBase]

(* partial has the sums of the first bytes.                                *)
partial(bytes) ==
  LET upTo[n \in 0 .. Len(bytes)] == IF n = 0 THEN 0 ELSE upTo[n - 1] + bytes[n]
  IN  upTo
total(bytes) == partial(bytes)[Len(bytes)]
recordBytes(r) ==
  LET body == <<Len(r.data), r.offset \div ByteCount, r.offset % ByteCount, r.type>> \o r.data
  IN  Append(body, (-total(body)) % ByteCount)
recordText(r) == <<Colon>> \o digits(recordBytes(r))

(* The line as it is found: something before and after the record, one     *)
(* character of it replaced (at # 0), the last ones lost.                  *)
lineText(l) ==
  LET written == IF l.record = NoRecord THEN <<>> ELSE recordText(l.record)
      changed == IF l.at = 0 THEN written ELSE [written EXCEPT ![l.at] = l.by]
  IN  l.lead \o SubSeq(changed, 1, Len(changed) - l.lost) \o l.trail

----------------------------------------------------------------------------
(* from_hex(char): a character that is no digit gives a byte of ones.      *)
from_hex_char(c) == IF c \in Digit THEN c ELSE AllOnes

(* (hi << 4) | lo before it is narrowed to a byte.                         *)
joined(hi, lo) ==
  LET high == from_hex_char(hi) * DigitBase
      low == from_hex_char(lo)
  IN  IF low \in Digit THEN high + low ELSE high - (high % ByteCount) + AllOnes

from_hex(hex) == [i \in 1 .. Len(hex) \div 2 |-> joined(hex[2 * i - 1], hex[2 * i]) % ByteCount]

hex_checksum(bytes) == (-total(bytes)) % ByteCount

(* parse_hex_record.  Bytes past the end of the vector are whatever memory *)
(* holds there (beyond).                                                   *)
parse_hex_record(line, beyond) ==
  LET bytes == from_hex(line) IN
  [sum_actual |-> hex_checksum(Front(bytes)),
   count |-> bytes[1],
   offset |-> bytes[2] * ByteCount + bytes[3],
   type |-> bytes[4],
   data |-> [i \in 1 .. bytes[1] |-> IF 4 + i <= Len(bytes) THEN bytes[4 + i] ELSE beyond],
   sum_expected |-> Last(bytes)]

(* Mutant: only the sizes are compared.                                    *)
SizeOnly(r) == r.count = Len(r.data)
is_valid(r) == r.sum_actual = r.sum_expected /\ r.count = Len(r.data)
is_eof(r) == r.type = 1

pair(hi, lo) == hi * ByteCount + lo
get_extend(r) ==
  CASE Len(r.data) = 2 /\ r.type = 2 -> pair(r.data[1], r.data[2]) * DigitBase
    [] Len(r.data) = 2 /\ r.type = 4 -> pair(r.data[1], r.data[2]) * (ByteCount * ByteCount)
    [] OTHER -> 0
get_start(r) ==
  IF Len(r.data) = 4 /\ r.type \in {3, 5}
    THEN pair(r.data[1], r.data[2]) * (ByteCount * ByteCount) + pair(r.data[3], r.data[4])
    ELSE 0

----------------------------------------------------------------------------
(* What may be meant: a record whose data are bytes, the ones that encode  *)
(* the address in a record of that kind, among characters that are no      *)
(* colons.                                                                 *)
twoBytes(n) == <<n \div ByteCount, n % ByteCount>>
encodesExtend(r, unit) ==
  r.extend % unit = 0 /\ r.data = twoBytes(r.extend \div unit)
encodesStart(r) ==
  r.data = twoBytes(r.start \div (ByteCount * ByteCount)) \o twoBytes(r.start % (ByteCount * ByteCount))
IsRecord(r) ==
  /\ r.type \in Byte /\ r.offset \in 0 .. ByteCount * ByteCount - 1
  /\ r.data \in Seq(Byte) /\ Len(r.data) \in Byte
  /\ r.extend \in Nat /\ r.start \in Nat
  /\ CASE r.type = 2 /\ Len(r.data) = 2 -> encodesExtend(r, DigitBase)
       [] r.type = 4 /\ Len(r.data) = 2 -> encodesExtend(r, ByteCount * ByteCount)
       [] OTHER -> r.extend = 0
  /\ IF r.type \in {3, 5} /\ Len(r.data) = 4 THEN encodesStart(r) ELSE r.start = 0
IsLine(l) ==
  /\ l.lead \in Seq(Char \ {Colon}) /\ l.trail \in Seq(Char) /\ l.by \in Char
  /\ IF l.record = NoRecord
       THEN l.at = 0 /\ l.trail = <<>>
       ELSE IsRecord(l.record) /\ l.at \in {0} \cup 2 .. Len(recordText(l.record))

Lines == UNION {Range(f) : f \in Files}
ASSUME FilesAssumption == Files \subseteq Seq(Lines) /\ \A l \in Lines : IsLine(l)

Init ==
  /\ source \in Files
  /\ rest = [i \in DOMAIN source |-> lineText(source[i])]
  /\ result = <<>> /\ status = "parsing"

Line == Head(rest)
min_record_size == 1 + (1 + 2 + 1 + 1) * 2
(* line.substr(pos).                                                       *)
substr(line) == SubSeq(line, SelectInSeq(line, LAMBDA c : c = Colon), Len(line))
fromColon == substr(Line)

skip_line ==
  /\ Colon \notin Range(Line)
  /\ rest' = Tail(rest)
  /\ UNCHANGED <<result, status>>

(* Mutant: a line of just the required length is too short.                *)
LongerThanNeeded ==
  /\ min_record_size <= Len(fromColon)
  /\ min_record_size + joined(fromColon[2], fromColon[3]) < Len(fromColon)

(* The length test adds one character per announced byte, not two.  (A     *)
(* line that is long enough only with what stands before its colon is      *)
(* refused by the second test.)                                            *)
long_enough ==
  /\ min_record_size <= Len(fromColon)
  /\ min_record_size + joined(fromColon[2], fromColon[3]) <= Len(fromColon)

refuse_line ==
  /\ Colon \in Range(Line) /\ ~long_enough
  /\ status' = "nullopt"
  /\ UNCHANGED <<rest, result>>

parse_line ==
  /\ Colon \in Range(Line) /\ long_enough
  /\ \E beyond \in 0 .. AllOnes :
       LET record == parse_hex_record(Tail(fromColon), beyond) IN
       /\ result' = Append(result, [record |-> record, line |-> Len(source) - Len(rest) + 1])
       /\ status' = IF is_eof(record) THEN "parsed" ELSE status
  /\ rest' = Tail(rest)

getline ==
  /\ status = "parsing"
  /\ \/ rest = <<>> /\ status' = "parsed" /\ UNCHANGED <<rest, result>>
     \/ rest # <<>> /\ (skip_line \/ refuse_line \/ parse_line)
  /\ UNCHANGED source

Spec == Init /\ [][getline]_vars

----------------------------------------------------------------------------
(* A line nothing happened to.  One character may follow the record: the   *)
(* carriage return that getline leaves on a line with CR LF.               *)
intact(l) == l.at = 0 /\ l.lost = 0 /\ Len(l.trail) <= 1

(* The record a line was meant to carry, as parsed.                        *)
carries(r, meant) ==
  /\ is_valid(r)
  /\ r.type = meant.type /\ r.offset = meant.offset /\ r.data = meant.data
  /\ get_extend(r) = meant.extend /\ get_start(r) = meant.start

(* An intact file is read as it was meant: every record up to the first    *)
(* end-of-file record, in order, with the addresses it encodes, whatever   *)
(* stands before the colons, on lines without one, or after the last.      *)
ReadsIntactFiles ==
  (\A k \in DOMAIN source : intact(source[k])) /\ status # "parsing" =>
    LET records == {k \in DOMAIN source : source[k].record # NoRecord}
        wanted == {k \in records : \A j \in records : j < k => ~is_eof(source[j].record)}
    IN  /\ status = "parsed"
        /\ {result[i].line : i \in DOMAIN result} = wanted
        /\ \A i, j \in DOMAIN result : i < j => result[i].line < result[j].line
        /\ \A i \in DOMAIN result : carries(result[i].record, source[result[i].line].record)

(* One character of a record replaced by any other, digit or not, is       *)
(* harmless or detected: the record is read as it was meant, or it is      *)
(* invalid, or the file is refused.  Characters that are no digits are     *)
(* read as ones ("TODO: validate return values"), and a changed count      *)
(* still reads the same bytes into the checksum.                           *)
OneErrorDetected ==
  \A i \in DOMAIN result :
    LET l == source[result[i].line] IN
    l.at # 0 /\ l.lost = 0 /\ Len(l.trail) <= 1 /\ is_valid(result[i].record)
      => carries(result[i].record, l.record)

(* A record found valid was in its line, laid out as hex_record's comment  *)
(* says (format: ':' <count> <address> <type> [data] <checksum>): count    *)
(* bytes of data and a checksum, none of them read from elsewhere.         *)
RecordAsFormatted ==
  \A i \in DOMAIN result :
    LET r == result[i].record
        bytes == from_hex(Tail(substr(lineText(source[result[i].line]))))
    IN  is_valid(r) => 4 + r.count + 1 <= Len(bytes)
============================================================================
