SPECIFICATION ListSpec
CONSTANTS
    Packets = {1, 2, 3, 4}
    prio <- FourPrios
    qlim_ = 6
INVARIANTS ListSound
PROPERTIES EnqueInserts ServesInOrder
