\* One message, everything that can fail does: lost acknowledgements, failed
\* statements, consumers that die and copies handed out again; and a user who
\* keeps logging in.
SPECIFICATION LoyalSpec
CONSTANTS
  Messages = {m1}
  Consumers = {c1, c2}
  Readers = {r1}
  Retries = 2
  MaxDeliveries = 2
  Unreliable = TRUE
  KeysUnique = FALSE
INVARIANTS TypeOK AcceptedNotForgotten DuplicatesExplained
PROPERTIES KeepsMailboxPromise QueueDrains MailIsSettled
