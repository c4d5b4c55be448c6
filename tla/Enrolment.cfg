CONSTANTS
    alice = alice
    bob = bob
    Persons = {alice, bob}
    Mailboxes = {"alice@", "bob@"}
    Reader <- MCReader
    StudentIds = {"s1"}
    MaxAttempts = 1
    MaxCodesPerEmail = 2
    DailyLimit = 3
    Cooldown = 1
    Ttl = 2
    Window = 3
    Scenarios <- MCScenarios
SPECIFICATION Spec
INVARIANTS TypeOK SessionsOfThisPassword CodesHold MailboxSpared MailboxProven TokenSentOnce
CHECK_DEADLOCK FALSE
