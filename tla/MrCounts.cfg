SPECIFICATION Spec
CONSTANTS
  sta1 = sta1
  sta2 = sta2
  ap = ap
  Nodes = {sta1, ap}
  Peers <- MCPeers
  NumRadios = 2
  Proposed = {}
  Aifsn = 2
  Cw = 1
  Handicap = 1
  MaxSize = 3
  Lossy = TRUE
  MaxExchanges = 2
INVARIANTS EachCountedOnce LeastLoaded
