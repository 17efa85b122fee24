SPECIFICATION Spec
CONSTANTS
  a = a
  b = b
  v4 = v4
  v6 = v6
  lan = lan
  Names = {a, b}
  MaxPort = 2
  LoopbackIPs = {v4, v6}
  DefaultIP = v4
  OtherIPs = {lan}
  Clients = {c1, c2}
  Main = Main
  Sig = Sig
  None = None
  Unlisted = Unlisted
  Requests <- MCFewRequests
  StartSpecs <- MCOneStart

PROPERTY WrittenIsEffective
