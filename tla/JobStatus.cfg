\* One job has every history; the second one makes the counts add up.  What any
\* call was told is kept, so one call at a time is enough for "once more".
SPECIFICATION Spec
CONSTANTS
  Jobs = {j1, j2}
  Pollers = {p1}
  QueueAttempts = 2
INVARIANTS SecondAnswerIsWhole TallyOffByMoves
