SPECIFICATION PlanSpec
CONSTANTS
    CarrierChoices = {1, 20, 21}
    SlotChoices = {0, 2, 16, 256}
    BurstChoices = {52, 53}
    slot_packet_len_ = 53
    MAX_TERM = 2
    MaxNodes = 3  MaxFrames = 3  MaxRules = 1
INVARIANTS MaskDivides SuperframeUsable
CHECK_DEADLOCK FALSE
