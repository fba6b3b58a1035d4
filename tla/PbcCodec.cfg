\* Messages of two calls for each type, whole or cut short, read in each way.
SPECIFICATION Spec
CONSTANTS
  Fields <- MCFields
  Enums <- MCEnums
  Order <- MCOrder
  Hash <- MCHash
  Root = "Rec"
  Menu <- MCMenu
  Structs <- MCStructs
  Rooms = {40, 60, 80, 100, 300}
  Priors <- MCPriors
  Format <- MCFormat
  Readers = {"Rec", "Old"}
  Shifts = {"masked", "dropped"}
  StaleBytes = {{}}
  MaxCalls <- MCMaxCalls
  MaxCut = 2
INVARIANTS TypeOK ReadsWhatWasTold CutNeverInvents NoOverrun StructReadsBack CallbacksInOrder
CHECK_DEADLOCK FALSE
