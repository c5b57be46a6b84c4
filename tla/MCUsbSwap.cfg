SPECIFICATION FairSpec
CONSTANTS
    MAX_PORTS = 1
    USB_MAX_DEVICES = 2
    RNDIS_MAX_DEVICES = 1
    ROOT_NET_DEVICE_MAX = 1
    USB_MASS_MAX_DEVICES = 1
    RNDIS_IO_FAILURE_LIMIT = 2
    REPROBES = 2
    Phones = {a, b}
    Sticks = {}
    None = None
    MaxPlugs = 3
    MaxFaults = 0
PROPERTY PlugSeen
