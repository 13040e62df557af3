\* Two browsers; client.msg holds 2 messages instead of 128 and every chart
\* 2 samples instead of 200; each collector refreshes at most twice, enough
\* to fill a buffer that nobody drains.
CONSTANTS
    c1 = c1
    c2 = c2
    Clients = {c1, c2}
    MsgCap = 2
    SampleLimit = 2
    MaxTicks = 2
SPECIFICATION Spec
\* Once the collectors have used their refreshes and every client is gone,
\* the dashboard idles until Stop, which is never forced.
CHECK_DEADLOCK FALSE
PROPERTY StopEnds
