\* One connection of up to 3 packets through a backlog of 2, with database
\* failures: every interleaving of the srt thread and the smol tasks.
CONSTANTS
    PacketMax = 3
    BacklogMax = 2
    DbFaults = TRUE
SPECIFICATION Spec
INVARIANTS
    TypeOK
    PipelineExact
    NoLostWakeup
PROPERTIES
    StreamRefined
\* Once the connection is torn down every thread blocks (srt_epoll_wait
\* with no timeout, parked tasks): the process really stops there.
CHECK_DEADLOCK FALSE
