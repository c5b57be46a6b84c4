SPECIFICATION FairSpec
CONSTANTS
    MAX_PORTS = 1
    USB_MAX_DEVICES = 1
    RNDIS_MAX_DEVICES = 1
    ROOT_NET_DEVICE_MAX = 1
    USB_MASS_MAX_DEVICES = 1
    RNDIS_IO_FAILURE_LIMIT = 2
    REPROBES = 2
    Phones = {a, b}
    Sticks = {s}
    None = None
    MaxPlugs = 4
    MaxFaults = 2
PROPERTY UnplugSeen
PROPERTY SessionComesUp
