SPECIFICATION UdpSpec
CONSTANTS
  Socket = {s1, s2, s3}
  NoSocket = NoSocket
  Length = {1, 2}
  MaxFails = 4
PROPERTIES SendTellsTruth
