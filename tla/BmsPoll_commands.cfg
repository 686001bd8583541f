SPECIFICATION Spec
CONSTANTS
    HwPeriod = 2
    MqttCommands = {"connect", "disconnect", "basicinfo", "balance"}
    WebCommands = {"connect", "disconnect", "pause", "mosfet"}
    LinkDrops = TRUE
    MaxCommands = 3
    MaxCount = 1
INVARIANTS
    TypeOK
    NoMqttCommandLost
PROPERTIES
    RequestOrder
    PollingGoesOn
