------------------------------ MODULE WorkerPool ------------------------------
(***************************************************************************)
(* What the integration tests that start a fixed number of goroutines have *)
(* in common (integration/soak_integration_test.go and                     *)
(* integration/load_integration_test.go): the workers, where each of them  *)
(* is, and the result of the test, which waits until all have left.        *)
(***************************************************************************)

CONSTANTS
  Workers   \* concurrency of them

VARIABLES
  at,       \* where each worker is
  verdict   \* the result of the test

Move(w, place) == at' = [at EXCEPT ![w] = place]

\* The wait group is done.
AllLeft == \A w \in Workers : at[w] = "left"
===============================================================================
