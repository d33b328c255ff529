\* The daily refresh called for ever, with mail configured and one mandatory list.
SPECIFICATION StalenessFair
CONSTANTS
    Lists = {l1}
    SmtpSettings = {TRUE}
PROPERTIES EveryBreachIsAnnounced
CHECK_DEADLOCK FALSE
