----------------------------- MODULE MCHttpText -----------------------------
(* Short names of characters that matter: a letter and a digit that are hex  *)
(* digits, a letter that is none, "%", a blank, and a byte beyond ASCII.     *)
EXTENDS HttpText

Characters == {50, 65, 122, 37, 32, 233}
=============================================================================
