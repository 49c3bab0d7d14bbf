SPECIFICATION Spec
CONSTANTS
  MaxArguments = 4
  MaxCommand = 5
  MaxExtra = 1
  Spelling = {"-c", "-o", "-oFILE", "-D", "-isysroot", "-DNAME", "--sysroot=DIR", "other"}
  Defaults = {"resource", "sysroot"}
INVARIANTS
  TypeOK
  CommandIsPassedWhole
  OptionsKeepTheirValues
  OneSysroot
CHECK_DEADLOCK FALSE
