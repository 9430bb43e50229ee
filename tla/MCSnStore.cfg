SPECIFICATION SnSpec
CONSTANTS
  Sn = {n1, n2, n3}
  NoSn = NoSn
  MaxHarm = 1
PROPERTIES ImplementsRegister
