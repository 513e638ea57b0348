SPECIFICATION Spec
CONSTANTS
  Tickers = {a}
  Spy = spy
  MaxDay = 2
  MaxManual = 1
  MaxFaults = 1
  Brief = {"stores", "throws"}
INVARIANTS HealthIsHonest 
PROPERTIES OkRunIsWhole
CHECK_DEADLOCK FALSE
