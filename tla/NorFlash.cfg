SPECIFICATION NorSpec
CONSTANTS
  Nothing = Nothing
  Cells = {Z, F, S, B}
  Bits = {7}
  First = {F}
  Second = {S}
  PageBase <- OnePage
  IdCells <- StartIsId
  SectorOf <- BoardApart
  Board = {B}
  BitsOf <- TopBit
  IdBits = {7}
  Identifiable = TRUE
  GuestStores <- AllStores
  EraseOwnBlock = TRUE
  InitialImages <- MixedImage
INVARIANTS GuestSeesFlash
PROPERTIES OnlyEraseSetsBits OnlyProgramClearsBits
