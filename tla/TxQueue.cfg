SPECIFICATION Spec
CONSTANTS
    c1 = c1
    c2 = c2
    c3 = c3
    Item <- MCItem
    WIFI_SEND_QUEUE_MAX = 4
PROPERTY ImplementsFifo
