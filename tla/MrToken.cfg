SPECIFICATION Spec
CONSTANTS
  sta1 = sta1
  sta2 = sta2
  ap = ap
  Nodes = {sta1, sta2, ap}
  Peers <- MCPeers
  NumRadios = 2
  Proposed = {sta1, sta2, ap}
  Aifsn = 2
  Cw = 1
  Handicap = 0
  MaxSize = 1
  Lossy = FALSE
  MaxExchanges = 1000
SYMMETRY Symmetry
VIEW TokenView
INVARIANTS IInv
PROPERTIES TokenWins
