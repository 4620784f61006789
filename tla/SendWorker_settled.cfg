CONSTANTS
    Deliveries = {d1}
    m1 = m1
    Mailings = {m1}
    MailingOf <- OneMailing
    Workers = {w1, w2}
    NoWorker = NoWorker
    NoDelivery = NoDelivery
    MaxAttempts = 1
    BatchSize = 2
SPECIFICATION FairSpec
PROPERTY SettledMailingCompletes
