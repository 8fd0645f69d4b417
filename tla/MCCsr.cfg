CONSTANTS
  Regs = {0, 1, 2}
  Ids = {"both", "read", "write"}
  Readable = {"both", "read"}
  Writable = {"both", "write"}
  WordBits = {0, 1}
  none = none
SPECIFICATION Spec
PROPERTY ExchangeUnlessAliased
PROPERTY RetryUnlessAliased
PROPERTY OneWayUsable
