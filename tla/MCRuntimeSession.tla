--------------------------- MODULE MCRuntimeSession ---------------------------
(* Constants for checking RuntimeSession: two pages are two starts, and one    *)
(* transcript per page is enough to be caught in the middle of a request.      *)
EXTENDS RuntimeSession
===============================================================================
