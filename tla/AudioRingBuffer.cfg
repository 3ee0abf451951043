SPECIFICATION BufferSpec
CONSTANTS
    Items = {c1, c2, c3}
    Undefined = undefined
    Capacity = 3
    MaxDropped = 4
PROPERTY ImplementsFifo
