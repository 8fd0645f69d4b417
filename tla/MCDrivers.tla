------------------------------ MODULE MCDrivers ------------------------------
(* The drivers on the words of MCMachine, with the three regions touching  *)
(* as in the default layout: code at 0, data at 20, the device at 40, five *)
(* words each, one more than dev_mem has.                                  *)
EXTENDS Drivers, MCMachine

DriverLayout == Layout(0, 20, 20, 20)
eof == hexOther("eof", 0)
hexFile(records) == [kind |-> "hex", content |-> records \o <<eof>>]
test(words) == hexFile(<<hexData(0, words)>>)
unreadable == [kind |-> "none", content |-> <<>>]

TestFiles == {
  test(<<1, 2>>),                  \* exit
  test(<<25, 26, 17, 9>>),         \* report, ebreak
  test(<<25, 26, 1, 2>>),          \* report, exit all the same
  test(<<25, 26, 29>>),            \* report, jump into the device
  test(<<25, 28>>),                \* store a byte to the device
  test(<<25, 27, 1, 2>>),          \* store beyond dev_mem
  test(<<17, 22, 2, 1, 2>>),       \* ebreak and an unknown call are ignored
  test(<<10, 0, 17, 9>>),          \* loops at ebreak without a report
  test(<<7>>),                     \* jump to a misaligned address
  test(<<1, 25, 24, 12>>),         \* loads from the device and from nowhere
  hexFile(<<hexData(0, <<1, 2>>), hexOther("start", 2)>>),
  hexFile(<<hexData(0, <<1, 2>>), hexOther("start", 100)>>),
  hexFile(<<hexData(40, <<1>>), hexData(0, <<1, 2>>)>>),  \* the file reports
  hexFile(<<hexData(40, <<1, 2>>)>>),
  hexFile(<<hexData(120, <<1>>)>>),
  unreadable }
(* Three tests show a leak: a file, one that reports, the first again.     *)
(* Three failures are as many as there are exit statuses.                  *)
Repeated == {test(<<1, 2>>), test(<<25, 26, 17, 9>>), test(<<25, 28>>), test(<<17, 22, 2, 1, 2>>)}
DriverBatches == UNION {[1 .. n -> TestFiles] : n \in 0 .. 2} \cup [1 .. 3 -> Repeated]
DriverToolFiles == TestFiles \cup {
  [kind |-> "hex", content |-> <<>>],
  [kind |-> "bin", content |-> image(<<1, 2>>)],
  [kind |-> "bin", content |-> image(<<13, 3, 2, 12>>)],
  [kind |-> "bin", content |-> image(<<1, 2, 3, 4, 5, 6>>)],
  [kind |-> "bin", content |-> <<>>] }
==============================================================================
