CONSTANTS
    ReadDelay <- MCReadDelay
    SleepDelay <- MCSleepDelay
    RetryDelay <- MCRetryDelay
    MqttPeriod <- MCMqttPeriod
    Debounce <- MCDebounce
    Wakes = 3
    Slack = 4
SPECIFICATION FairSpec
INVARIANTS TypeOK NeverStuckAwake KeptAwakeUnlessOverwritten
PROPERTIES SleepsAgain LooksAgain MeasuresAgain TicksWhileFilled
