\* Nothing fails: one message stored while the user's mail is being read.
SPECIFICATION Spec
CONSTANTS
  Messages = {m1}
  Consumers = {c1}
  Readers = {r1}
  Retries = 2
  MaxDeliveries = 1
  Unreliable = FALSE
  KeysUnique = TRUE
PROPERTY OnlyQueriedAreDeleted
