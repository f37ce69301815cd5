------------------------------ MODULE MCSleep ------------------------------
(***************************************************************************)
(* The delays of sleep.c, given in milliseconds as in the code.            *)
(***************************************************************************)
EXTENDS Sleep

Ticks(ms) == ms \div 10

MCReadDelay == Ticks(10)
MCSleepDelay == Ticks(100)
MCRetryDelay == Ticks(500)
MCMqttPeriod == Ticks(100)
\* 10000 ticks of the RTC, each at least 5 us and nearly 6 us
MCDebounce == Ticks(50)
=============================================================================
