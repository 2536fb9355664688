SPECIFICATION NorSpec
CONSTANTS
  Nothing = Nothing
  Cells = {Z, F, S}
  Bits = {7}
  First = {F}
  Second = {S}
  PageBase <- OnePage
  IdCells <- StartIsId
  SectorOf <- BoardApart
  Board = {}
  BitsOf <- TopBit
  IdBits = {7}
  Identifiable = TRUE
  GuestStores <- OneEraseStores
  EraseOwnBlock = FALSE
  InitialImages <- MixedImage
INVARIANT GuestSeesFlash
