\* Three operations on two slots: one runs while another is in its backoff and the
\* third waits.  Two mishaps: both of one operation, or one of each of two.
SPECIFICATION OrderSpec
CONSTANTS
  MaxJobs = 3
  Slots = {s1, s2}
  MaxMishaps = 2
SYMMETRY MCSymmetry
PROPERTIES InOrderUnlessExcused
\* All jobs have ended, and no request of theirs is left.
CHECK_DEADLOCK FALSE
