\* Packed fields of elements of each width.
SPECIFICATION Spec
CONSTANTS
  Fields <- MCFields
  Enums <- MCEnums
  Order <- MCOrder
  Hash <- MCHash
  Root = "Rec"
  Menu <- PackedMenu
  Structs <- MCStructs
  Rooms = {40, 60, 80, 100, 300}
  Priors <- MCPriors
  Format <- MCFormat
  Readers = {"Rec", "Old"}
  Shifts = {"masked", "dropped"}
  StaleBytes = {{}, {0, 7}}
  MaxCalls <- MCMaxCalls
  MaxCut = 0
INVARIANTS PackedKept
CHECK_DEADLOCK FALSE
