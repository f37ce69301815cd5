CONSTANTS
    ReadDelay <- MCReadDelay
    SleepDelay <- MCSleepDelay
    RetryDelay <- MCRetryDelay
    MqttPeriod <- MCMqttPeriod
    Debounce <- MCDebounce
    Wakes = 3
    Slack = 4
SPECIFICATION Spec
INVARIANT KeptAwake
