\* Every line of two targets and two phrases, rings of up to four targets, and
\* copies to up to three hosts.
SPECIFICATION Spec
CONSTANTS
  MAX_TARGETS = 8
  BILLION = 1000
  WRAP = 1073741824
  CPUS = 4
  Writable = {"f"}
  Cookies = {"beef"}
  Numeral <- MCNumeral
  Address <- MCAddress
  CommandLines <- MCCommandLines
  ParamFiles <- MCParamFiles
CHECK_DEADLOCK FALSE
INVARIANTS OptionsTakeEffectOnce EndToEndIsAllocated EveryWorkerHasItsPort RequestsCoverTheBytes
