CONSTANTS
    Serials = {1, 2}
    Locations = {l1, l2}
    None = None
    Clerks = {c1, c2}
    Expiry <- WarehouseExpiry
    Items <- WarehouseItems
    Shelved = {1}
    Modes = {"lite", "legacy"}
    MaxFailed = 1
    MaxOvertaken = 1
SPECIFICATION Spec
SYMMETRY WarehouseSymmetry
INVARIANTS TrailChains StockIsWhereItSays MasterKnowsPlace LabelsHaveProduct
CHECK_DEADLOCK FALSE
