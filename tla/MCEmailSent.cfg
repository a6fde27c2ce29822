\* A tick that starts while another still has rows in hand.
SPECIFICATION Spec
CONSTANTS
    Tick = {t1, t2}
    MaxMail = 2
    MaxAttempts = 2
    Batch = 2
    Limit = 2
    MaxCrashes = 0
PROPERTY SentStaysSent
CHECK_DEADLOCK FALSE
