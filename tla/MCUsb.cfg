SPECIFICATION Spec
CONSTANTS
    MAX_PORTS = 2
    USB_MAX_DEVICES = 2
    RNDIS_MAX_DEVICES = 2
    ROOT_NET_DEVICE_MAX = 2
    USB_MASS_MAX_DEVICES = 1
    RNDIS_IO_FAILURE_LIMIT = 2
    REPROBES = 2
    Phones = {a, b}
    Sticks = {s}
    None = None
    MaxPlugs = 3
    MaxFaults = 1
INVARIANT InventoryMatchesPorts
INVARIANT ReadyIsAttached
