CONSTANTS
  s1 = s1  s2 = s2  k1 = k1  k2 = k2  t1 = t1  t2 = t2  p1 = p1
  NoWifi = NoWifi  NoToken = NoToken  NoPlant = NoPlant
  NoResponse = NoResponse  ErrorBody = ErrorBody  TooBig = TooBig
  Ssids <- MC_Ssids
  Psks <- MC_Psks
  GoodConfigs <- MC_Good
  Tokens <- MC_Tokens
  Plants <- MC_Plants
  Modulus = 8
  Interval = 3
  FlashCooldown = 2
  MaxStep = 2
  MaxFaults = 2
  FactoryResetEnabled = TRUE
SPECIFICATION Spec
SYMMETRY Symm
PROPERTY InterruptNotLost
