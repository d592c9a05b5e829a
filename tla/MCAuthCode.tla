------------------------------ MODULE MCAuthCode ------------------------------
EXTENDS AuthCode, TLC

\* The handlers are interchangeable, and so are the browsers and the users.
Symmetry == Permutations(Handler) \cup Permutations(Browser)
            \cup Permutations(Subject)
===============================================================================
