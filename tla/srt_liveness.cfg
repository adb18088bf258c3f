\* Under the fairness of SrtRelay!Fairness, packets reach gpac and a closed
\* client's connection is torn down, database failures included.
CONSTANTS
    PacketMax = 3
    BacklogMax = 2
    DbFaults = TRUE
SPECIFICATION Spec
PROPERTIES
    PacketsForwarded
    ConnectionTornDown
\* The final torn-down state has no successor; a stuck state elsewhere
\* would violate ConnectionTornDown or PacketsForwarded.
CHECK_DEADLOCK FALSE
