CONSTANTS
    Deliveries = {d1, d2}
    m1 = m1
    Mailings = {m1}
    MailingOf <- OneMailing
    Workers = {w1}
    NoWorker = NoWorker
    NoDelivery = NoDelivery
    MaxAttempts = 2
    BatchSize = 2
SPECIFICATION FairSpec
PROPERTY PipelineDrains
