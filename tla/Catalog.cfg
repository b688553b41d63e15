SPECIFICATION MCSpec
CONSTANTS
  Rows = {i1, i2, i3}
  Keys = {k1, k2, k3}
  k1 = k1
  k2 = k2
  k3 = k3
  Folded <- MCFolded
  Values = {1, 2}
  Requests = {r1, r2}
  None = None
  Assets = {a1, a2}
  Jobs = {g1, g2}
  NoAsset = NoAsset
INVARIANTS CatalogOK AsLastAsked AssetsInv
PROPERTY OverlapsKeep
SYMMETRY Symmetric
CHECK_DEADLOCK FALSE
