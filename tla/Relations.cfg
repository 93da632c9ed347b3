\* One group and two accounts, two requests of any kind at once, any statement
\* of which may fail.
SPECIFICATION Spec
CONSTANTS
  u1 = u1  u2 = u2
  Users = {u1, u2}
  Groups = {g1}
  Stranger = stranger
  Jobs <- SomeJobs
  Workers = {w1, w2}
  Unreliable = TRUE
SYMMETRY Interchangeable
INVARIANTS TypeOK GroupKeepsItsCreator AnswersWereTrue
CONSTRAINT OneHidden
